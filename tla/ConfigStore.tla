----------------------------- MODULE ConfigStore -----------------------------
(***************************************************************************)
(* The configuration in RAM (the global cfg) and in flash (NVS), from      *)
(* power-on through setup() to the web server's forms (Config.cpp,         *)
(* main.cpp, the handleRequest functions of APRSWebServer.cpp).            *)
(*                                                                         *)
(* ConfigInit() fills a Config of its own from flash; on a device without  *)
(* a call it then writes the factory values, one key after the other, from *)
(* the global cfg (not from its own), and only then hands its own to       *)
(* setup(), which copies it into the global.  A form stores one value      *)
(* after the other, each in RAM and in flash in two steps half a second    *)
(* apart.  The chip may lose power or be restarted between any two steps;  *)
(* one put of the NVS library is atomic.                                   *)
(***************************************************************************)
EXTENDS Integers, Sequences

CONSTANTS
    Keys,            \* the keys of the configuration
    Loaded,          \* the keys ConfigInit() reads
    Values,          \* for each key the values its form accepts
    ReadDefault,     \* for each key ConfigInit()'s default
    GlobalDefault,   \* for each key the global cfg's initialiser
    Written,         \* for each key the value ConfigWriteInit() writes
    MissingValue,    \* for each key what getPrefs... returns if it is missing
    WriteOrder,      \* the order of ConfigWriteInit()'s puts
    Forms,           \* the web forms: sequences of keys
    FlashFirst,      \* the keys stored in flash before RAM
    Unset,           \* the call of an unconfigured device
    Missing,         \* a key that is not in flash
    Off, AP, Client, \* wifi_mode
    Tracker,         \* mode_tracker
    MaxRestarts      \* bound: power losses and restarts

ASSUME KeysAssumption ==
    /\ {"call", "c_wifi_mode", "c_run_mode"} \subseteq Loaded /\ Loaded \subseteq Keys
    /\ FlashFirst \subseteq Keys
    /\ DOMAIN Values = Keys
    /\ Missing \notin Keys /\ \A k \in Keys : Missing \notin Values[k]
    /\ WriteOrder \in Seq(Keys)
    /\ \A k \in Keys : \E i \in 1 .. Len(WriteOrder) : WriteOrder[i] = k
    /\ Forms \subseteq Seq(Keys)

ASSUME DefaultsAssumption ==
    /\ \A f \in {ReadDefault, GlobalDefault, Written, MissingValue} :
          DOMAIN f = Keys /\ \A k \in Keys : f[k] # Missing
    /\ Written["call"] = Unset /\ ReadDefault["call"] = Unset
    /\ Missing # Unset
    /\ {Off, AP, Client} \subseteq Values["c_wifi_mode"] /\ Off # AP /\ Client # AP
    /\ Tracker \in Values["c_run_mode"]
    /\ MaxRestarts \in Nat

VARIABLES
    nvs,         \* flash: key -> value or Missing
    cfg,         \* the global cfg
    local,       \* ConfigInit()'s own Config, then the copy in cfg_q
    phase,       \* where setup() is
    written,     \* puts ConfigWriteInit() has done
    form,        \* keys the running request handler has still to store
    pending,     \* the store that has done its first half
    restarts     \* power losses and restarts so far

vars == <<nvs, cfg, local, phase, written, form, pending, restarts>>

NoStore == [key |-> Missing, value |-> Missing]

Configured(config) == config["call"] # Unset

\* WebserverStart() is called unless the mode setup() reads is wifi_off.
Serving == phase = "up" /\ local["c_wifi_mode"] # Off

-----------------------------------------------------------------------------
Init ==
    /\ nvs = [k \in Keys |-> Missing]
    /\ cfg = GlobalDefault
    /\ local = GlobalDefault
    /\ phase = "boot"
    /\ written = 0
    /\ form = <<>>
    /\ pending = NoStore
    /\ restarts = 0

\* Slip: a missing key has no default.
LoadWithoutDefaults ==
    LET read == [k \in Keys |-> IF k \in Loaded THEN nvs[k] ELSE local[k]] IN
    /\ phase = "boot"
    /\ local' = read
    /\ phase' = IF Configured(read) THEN "publish" ELSE "writeInit"
    /\ UNCHANGED <<nvs, cfg, written, form, pending, restarts>>

\* Slip: the stored mode is kept on a device without a call.
LoadKeepsMode ==
    LET read == [k \in Keys |-> IF k \notin Loaded THEN local[k]
                                ELSE IF nvs[k] = Missing THEN ReadDefault[k] ELSE nvs[k]]
    IN
    /\ phase = "boot"
    /\ local' = read
    /\ phase' = IF Configured(read) THEN "publish" ELSE "writeInit"
    /\ UNCHANGED <<nvs, cfg, written, form, pending, restarts>>

\* Slip: the factory values are written at every start.
LoadWritesAlways ==
    LET read == [k \in Keys |-> IF k \notin Loaded THEN local[k]
                                ELSE IF nvs[k] = Missing THEN ReadDefault[k] ELSE nvs[k]]
    IN
    /\ phase = "boot"
    /\ local' = read
    /\ phase' = "writeInit"
    /\ UNCHANGED <<nvs, cfg, written, form, pending, restarts>>

\* ConfigInit(): read everything; without a call, access point and tracker.
Load ==
    LET read == [k \in Keys |-> IF k \notin Loaded THEN local[k]
                                ELSE IF nvs[k] = Missing THEN ReadDefault[k] ELSE nvs[k]]
    IN
    /\ phase = "boot"
    /\ IF Configured(read)
       THEN /\ local' = read
            /\ phase' = "publish"
       ELSE /\ local' = [read EXCEPT !["c_wifi_mode"] = AP, !["c_run_mode"] = Tracker]
            /\ phase' = "writeInit"
    /\ UNCHANGED <<nvs, cfg, written, form, pending, restarts>>

\* Slip: flash is erased at each put.
WriteInitErases ==
    /\ phase = "writeInit"
    /\ written < Len(WriteOrder)
    /\ nvs' = [k \in Keys |-> IF k = WriteOrder[written + 1] THEN Written[k] ELSE Missing]
    /\ written' = written + 1
    /\ UNCHANGED <<cfg, local, phase, form, pending, restarts>>

\* ConfigWriteInit(): the next put, from the global cfg.
WriteInit ==
    /\ phase = "writeInit"
    /\ written < Len(WriteOrder)
    /\ nvs' = [nvs EXCEPT ![WriteOrder[written + 1]] = Written[WriteOrder[written + 1]]]
    /\ written' = written + 1
    /\ UNCHANGED <<cfg, local, phase, form, pending, restarts>>

\* Slip: the last put is left out.
WriteInitDoneEarly ==
    /\ phase = "writeInit"
    /\ written = Len(WriteOrder) - 1
    /\ phase' = "publish"
    /\ UNCHANGED <<nvs, cfg, local, written, form, pending, restarts>>

\* Slip: > for =.
WriteInitNeverDone ==
    /\ phase = "writeInit"
    /\ written > Len(WriteOrder)
    /\ phase' = "publish"
    /\ UNCHANGED <<nvs, cfg, local, written, form, pending, restarts>>

WriteInitDone ==
    /\ phase = "writeInit"
    /\ written = Len(WriteOrder)
    /\ phase' = "publish"
    /\ UNCHANGED <<nvs, cfg, local, written, form, pending, restarts>>

\* xQueueOverwrite(cfg_q, ...) and setup()'s xQueuePeek into the global.
Publish ==
    /\ phase = "publish"
    /\ cfg' = local
    /\ phase' = IF local["c_wifi_mode"] = Client THEN "connecting" ELSE "up"
    /\ UNCHANGED <<nvs, local, written, form, pending, restarts>>

\* WifiConnect() waits for the network without a limit.
Connect ==
    /\ phase = "connecting"
    /\ phase' = "up"
    /\ UNCHANGED <<nvs, cfg, local, written, form, pending, restarts>>

Idle == form = <<>> /\ pending = NoStore

\* A request with parameters reaches its handler.
Submit ==
    /\ Serving /\ Idle
    /\ form' \in Forms
    /\ UNCHANGED <<nvs, cfg, local, phase, written, pending, restarts>>

\* The parameter is absent or its value is refused.
Skip ==
    /\ Serving /\ form # <<>> /\ pending = NoStore
    /\ form' = Tail(form)
    /\ UNCHANGED <<nvs, cfg, local, phase, written, pending, restarts>>

\* setPrefsString, setPrefsUInt, setPrefsDouble: write only what differs from
\* the stored value, a missing key reading as MissingValue.
setPrefs(k, v) ==
    LET old == IF nvs[k] = Missing THEN MissingValue[k] ELSE nvs[k] IN
    nvs' = IF old # v THEN [nvs EXCEPT ![k] = v] ELSE nvs

\* The first half of storing a value: cfg or flash, then the other.
StoreBegin ==
    /\ Serving /\ form # <<>> /\ pending = NoStore
    /\ \E v \in Values[Head(form)] :
          /\ pending' = [key |-> Head(form), value |-> v]
          /\ IF Head(form) \in FlashFirst
             THEN setPrefs(Head(form), v) /\ UNCHANGED cfg
             ELSE cfg' = [cfg EXCEPT ![Head(form)] = v] /\ UNCHANGED nvs
    /\ form' = Tail(form)
    /\ UNCHANGED <<local, phase, written, restarts>>

\* Slip: what is in flash first is not taken over into RAM.
StoreEndFlashOnly ==
    /\ Serving /\ pending # NoStore
    /\ IF pending.key \in FlashFirst
       THEN UNCHANGED <<nvs, cfg>>
       ELSE setPrefs(pending.key, pending.value) /\ UNCHANGED cfg
    /\ pending' = NoStore
    /\ UNCHANGED <<local, phase, written, form, restarts>>

\* The second half.
StoreEnd ==
    /\ Serving /\ pending # NoStore
    /\ IF pending.key \in FlashFirst
       THEN cfg' = [cfg EXCEPT ![pending.key] = pending.value] /\ UNCHANGED nvs
       ELSE setPrefs(pending.key, pending.value) /\ UNCHANGED cfg
    /\ pending' = NoStore
    /\ UNCHANGED <<local, phase, written, form, restarts>>

\* Power loss, panic, or ESP.restart() in reboot(): RAM starts over.
PowerCycle ==
    /\ restarts < MaxRestarts
    /\ restarts' = restarts + 1
    /\ cfg' = GlobalDefault
    /\ local' = GlobalDefault
    /\ phase' = "boot"
    /\ written' = 0
    /\ form' = <<>>
    /\ pending' = NoStore
    /\ UNCHANGED nvs

Boot == Load \/ WriteInit \/ WriteInitDone \/ Publish \/ Connect
Request == Skip \/ StoreBegin \/ StoreEnd

Next == Boot \/ Submit \/ Request \/ PowerCycle

Spec == Init /\ [][Next]_vars

\* setup() runs on, a handler runs on, and the network configured for client
\* mode is in reach; nobody has to submit anything.
FairSpec == Spec /\ WF_vars(Boot) /\ WF_vars(Request)

-----------------------------------------------------------------------------
TypeOK ==
    /\ DOMAIN nvs = Keys
    /\ \A config \in {cfg, local} :
          DOMAIN config = Keys /\ \A k \in Keys : config[k] # Missing
    /\ phase \in {"boot", "writeInit", "publish", "connecting", "up"}
    /\ written \in 0 .. Len(WriteOrder)
    /\ form \in Seq(Keys)
    /\ pending = NoStore \/ (pending.key \in Keys /\ pending.value \in Values[pending.key])
    /\ restarts \in 0 .. MaxRestarts

\* Once setup() is through, and from then on over every restart until the call
\* is cleared, flash holds every key: a set that finds "the same value" (which
\* is what a missing key looks like for 0) never leaves a key out.
FlashComplete ==
    phase \in {"publish", "connecting", "up"} \/ nvs["call"] \notin {Missing, Unset}
        => \A k \in Keys : nvs[k] # Missing

\* A device that booted with a call runs what flash holds: in every key that
\* ConfigInit() reads, except the one being stored, a restart changes nothing.
RunsWhatIsStored ==
    phase = "up" /\ Configured(local) =>
        \A k \in Loaded : cfg[k] = nvs[k] \/ k = pending.key

\* A device without a call comes up as an access point with its web server,
\* whatever mode flash held, so that a call can be set.
UnconfiguredCanBeConfigured ==
    phase \in {"up", "connecting"} /\ ~Configured(local) => Serving

\* An interrupted write of the factory values does no harm: while they are
\* being written the device has no call, so the next start writes them again.
WriteInitRepeats == phase = "writeInit" => nvs["call"] \in {Missing, Unset}

Durable == INSTANCE DurableConfig WITH stored <- nvs

\* Flash changes as DurableConfig says, over every power loss.
ImplementsDurableConfig == Durable!Spec

\* setup() comes to its end after every power loss (in client mode once the
\* network answers).
ComesUp == phase # "up" ~> phase = "up"

\* data/FormConfigGateway.html:11 offers the second server as "Host2" with the
\* value %aprs_server1%, like every other stored value.
RunsEveryStoredKey ==
    phase = "up" /\ Configured(local) =>
        \A k \in Keys : cfg[k] = nvs[k] \/ k = pending.key
=============================================================================
