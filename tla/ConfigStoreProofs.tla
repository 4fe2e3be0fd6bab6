------------------------- MODULE ConfigStoreProofs --------------------------
(***************************************************************************)
(* For every set of keys, every table of defaults and every set of forms:  *)
(* the safety invariants of ConfigStore and its refinement of              *)
(* DurableConfig, over any number of power losses.                         *)
(***************************************************************************)
EXTENDS ConfigStore, TLAPS

\* Where each part of the store stands while setup() runs: nothing is written
\* before the write of the factory values starts; while it runs, setup() holds
\* no call, flash holds no call, and the puts done so far are there.
WriteInv ==
    /\ phase = "boot" => written = 0
    /\ phase = "writeInit" =>
          /\ ~Configured(local)
          /\ nvs["call"] \in {Missing, Unset}
          /\ \A i \in 1 .. written : nvs[WriteOrder[i]] # Missing

\* What setup() is about to publish is what flash holds, if there is a call;
\* without one it is an access point.
PublishInv ==
    /\ phase = "publish" /\ Configured(local) => \A k \in Loaded : local[k] = nvs[k]
    /\ phase # "boot" /\ ~Configured(local) => local["c_wifi_mode"] = AP
    /\ phase = "connecting" => local["c_wifi_mode"] = Client

\* What runs is what flash holds, but for the key being stored.
RunInv ==
    phase \in {"connecting", "up"} /\ Configured(local) =>
        \A k \in Loaded : cfg[k] = nvs[k] \/ k = pending.key

\* A store between its two steps: the first of the two copies is done.
StoreInv ==
    pending # NoStore =>
        /\ phase = "up"
        /\ IF pending.key \in FlashFirst THEN nvs[pending.key] = pending.value
                                         ELSE cfg[pending.key] = pending.value

IInv == TypeOK /\ FlashComplete /\ WriteInv /\ PublishInv /\ RunInv /\ StoreInv

-----------------------------------------------------------------------------
\* A new device: nothing in flash, the initialisers in RAM.
LEMMA InitIInv == Init => IInv
<1> SUFFICES ASSUME Init PROVE IInv
  OBVIOUS
<1> USE KeysAssumption, DefaultsAssumption DEF Init
<1>1. TypeOK
  BY DEF TypeOK
<1>2. FlashComplete
  BY DEF FlashComplete
<1>3. WriteInv /\ PublishInv /\ RunInv /\ StoreInv
  BY DEF WriteInv, PublishInv, RunInv, StoreInv
<1> QED
  BY <1>1, <1>2, <1>3 DEF IInv

\* What setPrefs...() leaves in flash when every key is there: v at k, and
\* every other key as it was.
LEMMA SetPrefsStores ==
    ASSUME NEW k \in Keys, NEW v, DOMAIN nvs = Keys, nvs[k] # Missing, setPrefs(k, v)
    PROVE  nvs' = [nvs EXCEPT ![k] = v] \/ (nvs' = nvs /\ nvs[k] = v)
BY DEF setPrefs

\* ConfigInit()'s reads.
LEMMA LoadIInv == IInv /\ Load => IInv'
<1> SUFFICES ASSUME IInv, Load PROVE IInv'
  OBVIOUS
<1> DEFINE read == [k \in Keys |-> IF k \notin Loaded THEN local[k]
                                   ELSE IF nvs[k] = Missing THEN ReadDefault[k] ELSE nvs[k]]
<1>1. \A k \in Keys : read[k] # Missing
  BY KeysAssumption, DefaultsAssumption DEF IInv, TypeOK
<1>2. read["call"] = IF nvs["call"] = Missing THEN Unset ELSE nvs["call"]
  BY KeysAssumption, DefaultsAssumption
<1>3. CASE Configured(read)
  <2>1. local' = read /\ phase' = "publish" /\ UNCHANGED <<nvs, cfg, written, form, pending, restarts>>
    BY <1>3 DEF Load
  <2>2. nvs["call"] \notin {Missing, Unset}
    BY <1>2, <1>3 DEF Configured
  <2>3. \A k \in Keys : nvs[k] # Missing
    BY <2>2 DEF IInv, FlashComplete
  <2>4. TypeOK'
    BY <1>1, <2>1 DEF IInv, TypeOK
  <2>5. FlashComplete'
    BY <2>1, <2>3 DEF FlashComplete
  <2>6. WriteInv' /\ RunInv'
    BY <2>1 DEF WriteInv, RunInv
  <2>7. \A k \in Loaded : read[k] = nvs[k]
    BY <2>3, KeysAssumption
  <2>8. PublishInv'
    BY <1>3, <2>1, <2>7 DEF PublishInv
  <2>9. StoreInv'
    BY <2>1 DEF IInv, StoreInv, Load
  <2> QED
    BY <2>4, <2>5, <2>6, <2>8, <2>9 DEF IInv
<1>4. CASE ~Configured(read)
  <2>1. /\ local' = [read EXCEPT !["c_wifi_mode"] = AP, !["c_run_mode"] = Tracker]
        /\ phase' = "writeInit"
        /\ UNCHANGED <<nvs, cfg, written, form, pending, restarts>>
    BY <1>4 DEF Load
  <2>2. nvs["call"] \in {Missing, Unset}
    BY <1>2, <1>4 DEF Configured
  <2>3. Unset # Missing /\ AP # Missing /\ Tracker # Missing
    BY KeysAssumption, DefaultsAssumption
  <2>4. ~Configured(local') /\ local'["c_wifi_mode"] = AP
    BY <1>4, <2>1, KeysAssumption DEF Configured
  <2>5. TypeOK'
    <3>1. DOMAIN local' = Keys /\ \A k \in Keys : local'[k] # Missing
      BY <1>1, <2>1, <2>3
    <3> HIDE DEF read
    <3> QED
      BY <2>1, <3>1 DEF IInv, TypeOK
  <2>6. FlashComplete'
    BY <2>1, <2>2 DEF FlashComplete
  <2>7. WriteInv'
    BY <2>1, <2>2, <2>4 DEF IInv, WriteInv, Load
  <2>8. PublishInv' /\ RunInv'
    BY <2>1, <2>4 DEF PublishInv, RunInv
  <2>9. StoreInv'
    BY <2>1 DEF IInv, StoreInv, Load
  <2> QED
    BY <2>5, <2>6, <2>7, <2>8, <2>9 DEF IInv
<1> QED
  BY <1>3, <1>4

\* One put of ConfigWriteInit().
LEMMA WriteInitIInv == IInv /\ WriteInit => IInv'
<1> SUFFICES ASSUME IInv, WriteInit PROVE IInv'
  OBVIOUS
<1> USE DEF WriteInit
<1> DEFINE key == WriteOrder[written + 1]
<1>1. written \in Nat /\ written + 1 \in 1 .. Len(WriteOrder) /\ key \in Keys
  <2>1. WriteOrder \in Seq(Keys) /\ Len(WriteOrder) \in Nat
    BY KeysAssumption
  <2>2. written \in Nat /\ written + 1 \in 1 .. Len(WriteOrder)
    BY <2>1 DEF IInv, TypeOK
  <2> QED
    BY <2>1, <2>2
<1>2. Written[key] # Missing /\ (key = "call" => Written[key] = Unset)
  BY <1>1, DefaultsAssumption
<1>3. TypeOK'
  BY <1>1, <1>2 DEF IInv, TypeOK
<1>4. nvs'["call"] \in {Missing, Unset}
  BY <1>1, <1>2, KeysAssumption DEF IInv, TypeOK, WriteInv
<1>5. FlashComplete'
  BY <1>4 DEF FlashComplete
<1>6. \A i \in 1 .. written' : nvs'[WriteOrder[i]] # Missing
  <2> SUFFICES ASSUME NEW i \in 1 .. written' PROVE nvs'[WriteOrder[i]] # Missing
    OBVIOUS
  <2>1. i \in 1 .. written \/ i = written + 1
    BY <1>1
  <2>2. WriteOrder[i] \in Keys
    <3>1. i \in 1 .. Len(WriteOrder)
      BY <1>1, KeysAssumption
    <3> QED
      BY <3>1, KeysAssumption
  <2>3. nvs' = [nvs EXCEPT ![key] = Written[key]] /\ DOMAIN nvs = Keys
    BY DEF IInv, TypeOK
  <2>4. CASE WriteOrder[i] = key
    BY <1>2, <2>2, <2>3, <2>4
  <2>5. CASE WriteOrder[i] # key
    <3>1. nvs[WriteOrder[i]] # Missing
      BY <2>1, <2>5 DEF IInv, WriteInv
    <3> QED
      BY <2>2, <2>3, <2>5, <3>1
  <2> QED
    BY <2>4, <2>5
<1>7. WriteInv'
  BY <1>4, <1>6 DEF IInv, WriteInv, Configured
<1>8. PublishInv' /\ RunInv'
  BY DEF IInv, PublishInv, RunInv, Configured
<1>9. StoreInv'
  BY DEF IInv, StoreInv
<1> QED
  BY <1>3, <1>5, <1>7, <1>8, <1>9 DEF IInv

\* After the last put every key is there.
LEMMA WriteInitDoneIInv == IInv /\ WriteInitDone => IInv'
<1> SUFFICES ASSUME IInv, WriteInitDone PROVE IInv'
  OBVIOUS
<1> USE DEF WriteInitDone
<1>1. \A k \in Keys : nvs[k] # Missing
  BY KeysAssumption DEF IInv, WriteInv
<1>2. TypeOK'
  BY DEF IInv, TypeOK
<1>3. FlashComplete'
  BY <1>1 DEF FlashComplete
<1>4. WriteInv' /\ RunInv'
  BY DEF WriteInv, RunInv
<1>5. PublishInv' /\ StoreInv'
  BY DEF IInv, PublishInv, StoreInv, WriteInv, Configured
<1> QED
  BY <1>2, <1>3, <1>4, <1>5 DEF IInv

\* What was loaded becomes what runs.
LEMMA PublishIInv == IInv /\ Publish => IInv'
<1> SUFFICES ASSUME IInv, Publish PROVE IInv'
  OBVIOUS
<1> USE DEF Publish
<1>1. TypeOK'
  BY DEF IInv, TypeOK
<1>2. FlashComplete' /\ WriteInv'
  BY DEF IInv, FlashComplete, WriteInv
<1>3. PublishInv' /\ RunInv'
  BY DEF IInv, PublishInv, RunInv, Configured
<1>4. StoreInv'
  BY DEF IInv, StoreInv
<1> QED
  BY <1>1, <1>2, <1>3, <1>4 DEF IInv

\* Waiting for the network changes nothing.
LEMMA ConnectIInv == IInv /\ Connect => IInv'
<1> SUFFICES ASSUME IInv, Connect PROVE IInv'
  OBVIOUS
<1> USE DEF Connect
<1>1. TypeOK' /\ FlashComplete' /\ WriteInv'
  BY DEF IInv, TypeOK, FlashComplete, WriteInv
<1>2. PublishInv' /\ RunInv' /\ StoreInv'
  BY DEF IInv, PublishInv, RunInv, StoreInv, Configured
<1> QED
  BY <1>1, <1>2 DEF IInv

\* A request that arrives, and a parameter that is passed over, change only form.
LEMMA FormIInv == IInv /\ (Submit \/ Skip) => IInv'
<1> SUFFICES ASSUME IInv, Submit \/ Skip PROVE IInv'
  OBVIOUS
<1>1. form' \in Seq(Keys) /\ UNCHANGED <<nvs, cfg, local, phase, written, pending, restarts>>
  <2>1. CASE Submit
    BY <2>1, KeysAssumption DEF Submit
  <2>2. CASE Skip
    <3>1. form \in Seq(Keys) /\ form # <<>>
      BY <2>2 DEF Skip, IInv, TypeOK
    <3> QED
      BY <2>2, <3>1 DEF Skip
  <2> QED
    BY <2>1, <2>2
<1>2. TypeOK' /\ FlashComplete' /\ WriteInv'
  BY <1>1 DEF IInv, TypeOK, FlashComplete, WriteInv
<1>3. PublishInv' /\ RunInv' /\ StoreInv'
  BY <1>1 DEF IInv, PublishInv, RunInv, StoreInv, Configured
<1> QED
  BY <1>2, <1>3 DEF IInv

\* A power loss keeps flash only.
LEMMA PowerCycleIInv == IInv /\ PowerCycle => IInv'
<1> SUFFICES ASSUME IInv, PowerCycle PROVE IInv'
  OBVIOUS
<1> USE DefaultsAssumption, KeysAssumption DEF PowerCycle
<1>1. TypeOK'
  BY DEF IInv, TypeOK
<1>2. FlashComplete' /\ WriteInv'
  BY DEF IInv, FlashComplete, WriteInv
<1>3. PublishInv' /\ RunInv' /\ StoreInv'
  BY DEF PublishInv, RunInv, StoreInv
<1> QED
  BY <1>1, <1>2, <1>3 DEF IInv

\* The first step of storing a value keeps every copy that runs equal to the
\* stored one, but for the key it is about.
LEMMA StoreBeginIInv == IInv /\ StoreBegin => IInv'
<1> SUFFICES ASSUME IInv, StoreBegin PROVE IInv'
  OBVIOUS
<1> DEFINE key == Head(form)
<1>1. phase = "up" /\ key \in Keys /\ form' \in Seq(Keys)
  BY DEF StoreBegin, Serving, IInv, TypeOK
<1>2. \A k \in Keys : nvs[k] # Missing
  BY <1>1 DEF IInv, FlashComplete
<1>3. PICK v \in Values[key] :
         /\ pending' = [key |-> key, value |-> v]
         /\ IF key \in FlashFirst
            THEN setPrefs(key, v) /\ UNCHANGED cfg
            ELSE cfg' = [cfg EXCEPT ![key] = v] /\ UNCHANGED nvs
  BY DEF StoreBegin
<1>4. v # Missing
  BY <1>1, <1>3, KeysAssumption
<1>5. DOMAIN nvs = Keys /\ DOMAIN cfg = Keys /\ \A k \in Keys : cfg[k] # Missing
  BY DEF IInv, TypeOK
<1>6. UNCHANGED <<local, phase, written, restarts>>
  BY DEF StoreBegin
<1>7. pending'.key = key /\ pending'.value = v
  BY <1>3
<1>8. /\ DOMAIN nvs' = Keys /\ DOMAIN cfg' = Keys
      /\ \A k \in Keys : nvs'[k] # Missing /\ cfg'[k] # Missing
      /\ \A k \in Keys : k # key => nvs'[k] = nvs[k] /\ cfg'[k] = cfg[k]
      /\ IF key \in FlashFirst THEN nvs'[key] = v ELSE cfg'[key] = v
  <2>1. CASE key \in FlashFirst
    <3>1. setPrefs(key, v) /\ cfg' = cfg
      BY <1>3, <2>1
    <3>2. nvs' = [nvs EXCEPT ![key] = v] \/ (nvs' = nvs /\ nvs[key] = v)
      BY <1>1, <1>2, <1>5, <3>1, SetPrefsStores
    <3> QED
      BY <1>1, <1>2, <1>4, <1>5, <2>1, <3>1, <3>2
  <2>2. CASE key \notin FlashFirst
    BY <1>1, <1>2, <1>3, <1>4, <1>5, <2>2
  <2> QED
    BY <2>1, <2>2
<1> HIDE DEF key
<1>9. TypeOK'
  BY <1>1, <1>3, <1>6, <1>7, <1>8 DEF IInv, TypeOK
<1>10. FlashComplete' /\ WriteInv'
  BY <1>1, <1>6, <1>8 DEF FlashComplete, WriteInv
<1>11. PublishInv' /\ StoreInv'
  BY <1>1, <1>6, <1>7, <1>8 DEF IInv, PublishInv, StoreInv, Configured
<1>12. RunInv'
  <2>1. pending = NoStore
    BY DEF StoreBegin
  <2>2. Loaded \subseteq Keys /\ Missing \notin Keys
    BY KeysAssumption
  <2> SUFFICES ASSUME Configured(local), NEW k \in Loaded, k # key PROVE cfg'[k] = nvs'[k]
    BY <1>6, <1>7 DEF RunInv, Configured
  <2>3. cfg[k] = nvs[k]
    BY <1>1, <2>1, <2>2 DEF IInv, RunInv, NoStore
  <2> QED
    BY <1>8, <2>2, <2>3
<1> QED
  BY <1>9, <1>10, <1>11, <1>12 DEF IInv

\* The second step makes both copies the stored value, whether or not it
\* differed from the old one.
LEMMA StoreEndIInv == IInv /\ StoreEnd => IInv'
<1> SUFFICES ASSUME IInv, StoreEnd PROVE IInv'
  OBVIOUS
<1> DEFINE key == pending.key
           v == pending.value
<1>1. phase = "up" /\ pending # NoStore /\ key \in Keys /\ v # Missing
  BY KeysAssumption DEF StoreEnd, Serving, IInv, TypeOK
<1>2. \A k \in Keys : nvs[k] # Missing
  BY <1>1 DEF IInv, FlashComplete
<1>3. DOMAIN nvs = Keys /\ DOMAIN cfg = Keys /\ \A k \in Keys : cfg[k] # Missing
  BY DEF IInv, TypeOK
<1>4. pending' = NoStore /\ UNCHANGED <<local, phase, written, form, restarts>>
  BY DEF StoreEnd
<1>5. /\ DOMAIN nvs' = Keys /\ DOMAIN cfg' = Keys
      /\ \A k \in Keys : nvs'[k] # Missing /\ cfg'[k] # Missing
      /\ \A k \in Keys : k # key => nvs'[k] = nvs[k] /\ cfg'[k] = cfg[k]
      /\ nvs'[key] = v /\ cfg'[key] = v
  <2>1. CASE key \in FlashFirst
    <3>1. cfg' = [cfg EXCEPT ![key] = v] /\ nvs' = nvs /\ nvs[key] = v
      BY <1>1, <2>1 DEF StoreEnd, IInv, StoreInv
    <3> QED
      BY <1>1, <1>2, <1>3, <3>1
  <2>2. CASE key \notin FlashFirst
    <3>1. setPrefs(key, v) /\ cfg' = cfg /\ cfg[key] = v
      BY <1>1, <2>2 DEF StoreEnd, IInv, StoreInv
    <3>2. nvs' = [nvs EXCEPT ![key] = v] \/ (nvs' = nvs /\ nvs[key] = v)
      BY <1>1, <1>2, <1>3, <3>1, SetPrefsStores
    <3> QED
      BY <1>1, <1>2, <1>3, <3>1, <3>2
  <2> QED
    BY <2>1, <2>2
<1>6. TypeOK'
  BY <1>4, <1>5 DEF IInv, TypeOK
<1>7. FlashComplete' /\ WriteInv' /\ StoreInv'
  BY <1>1, <1>4, <1>5 DEF FlashComplete, WriteInv, StoreInv
<1>8. PublishInv'
  BY <1>1, <1>4 DEF IInv, PublishInv, Configured
<1>9. RunInv'
  <2> SUFFICES ASSUME Configured(local), NEW k \in Loaded PROVE cfg'[k] = nvs'[k]
    BY <1>4 DEF RunInv, Configured
  <2>1. k \in Keys /\ (cfg[k] = nvs[k] \/ k = key)
    BY <1>1, KeysAssumption DEF IInv, RunInv
  <2> QED
    BY <1>5, <2>1
<1> QED
  BY <1>6, <1>7, <1>8, <1>9 DEF IInv

\* Every step keeps the invariant.
LEMMA NextIInv == IInv /\ [Next]_vars => IInv'
<1> SUFFICES ASSUME IInv, [Next]_vars PROVE IInv'
  OBVIOUS
<1>1. CASE Boot
  BY <1>1, LoadIInv, WriteInitIInv, WriteInitDoneIInv, PublishIInv, ConnectIInv DEF Boot
<1>2. CASE Submit \/ Request
  BY <1>2, FormIInv, StoreBeginIInv, StoreEndIInv DEF Request
<1>3. CASE PowerCycle
  BY <1>3, PowerCycleIInv
<1>4. CASE UNCHANGED vars
  <2>1. TypeOK' /\ FlashComplete' /\ WriteInv'
    BY <1>4 DEF vars, IInv, TypeOK, FlashComplete, WriteInv, Configured
  <2>2. PublishInv' /\ RunInv' /\ StoreInv'
    BY <1>4 DEF vars, IInv, PublishInv, RunInv, StoreInv, Configured
  <2> QED
    BY <2>1, <2>2 DEF IInv
<1> QED
  BY <1>1, <1>2, <1>3, <1>4 DEF Next

\* The invariant holds in every state that can be reached.
LEMMA Invariance == Spec => []IInv
BY InitIInv, NextIInv, PTL DEF Spec

-----------------------------------------------------------------------------
\* The configuration keeps its types over every power loss and every form.
THEOREM TypeCorrect == Spec => []TypeOK
<1>1. IInv => TypeOK
  BY DEF IInv
<1> QED
  BY <1>1, Invariance, PTL

\* No interleaving of forms, interrupted factory writes and power losses
\* leaves a device that has a call with a key missing in flash.
THEOREM FlashIsComplete == Spec => []FlashComplete
<1>1. IInv => FlashComplete
  BY DEF IInv
<1> QED
  BY <1>1, Invariance, PTL

\* What a configured device runs and what a restart would load are the same,
\* but for the key being stored.
THEOREM RunIsStored == Spec => []RunsWhatIsStored
<1>1. IInv => RunsWhatIsStored
  BY DEF IInv, RunInv, RunsWhatIsStored
<1> QED
  BY <1>1, Invariance, PTL

\* A device without a call is an access point that can be given one.
THEOREM CanBeConfigured == Spec => []UnconfiguredCanBeConfigured
<1>1. IInv => UnconfiguredCanBeConfigured
  BY DefaultsAssumption DEF IInv, PublishInv, UnconfiguredCanBeConfigured, Serving
<1> QED
  BY <1>1, Invariance, PTL

\* An interrupted write of the factory values is taken up at the next start.
THEOREM InterruptedWriteRepeats == Spec => []WriteInitRepeats
<1>1. IInv => WriteInitRepeats
  BY DEF IInv, WriteInv, WriteInitRepeats
<1> QED
  BY <1>1, Invariance, PTL

-----------------------------------------------------------------------------
\* An empty flash is DurableConfig's first state.
LEMMA InitDurable == Init => Durable!Init
BY DEF Init, Durable!Init

\* A step that sets one key of a complete flash is a save or changes nothing.
LEMMA PutIsSave ==
    ASSUME NEW k \in Keys, NEW v \in Values[k], \A j \in Keys : nvs[j] # Missing,
           setPrefs(k, v)
    PROVE  [Durable!Next]_nvs
BY DEF setPrefs, Durable!Next, Durable!Save

\* Every step is a save, a factory write or leaves flash alone.
LEMMA StepDurable == IInv /\ [Next]_vars => [Durable!Next]_nvs
<1> SUFFICES ASSUME IInv, [Next]_vars PROVE [Durable!Next]_nvs
  OBVIOUS
<1>1. CASE WriteInit
  <2>1. WriteOrder[written + 1] \in Keys
    <3>1. WriteOrder \in Seq(Keys) /\ written \in Nat
      BY KeysAssumption DEF IInv, TypeOK
    <3>2. written + 1 \in 1 .. Len(WriteOrder)
      BY <1>1, <3>1 DEF WriteInit
    <3> QED
      BY <3>1, <3>2
  <2>2. nvs["call"] \in {Missing, Unset}
    BY <1>1 DEF WriteInit, IInv, WriteInv
  <2> QED
    BY <1>1, <2>1, <2>2 DEF WriteInit, Durable!Next, Durable!FactoryWrite, Durable!Unconfigured
<1>2. CASE StoreBegin
  <2>1. Head(form) \in Keys /\ \A k \in Keys : nvs[k] # Missing
    BY <1>2 DEF StoreBegin, Serving, IInv, TypeOK, FlashComplete
  <2>2. CASE Head(form) \in FlashFirst
    <3>1. PICK v \in Values[Head(form)] : setPrefs(Head(form), v)
      BY <1>2, <2>2 DEF StoreBegin
    <3> QED
      BY <2>1, <3>1, PutIsSave
  <2> QED
    BY <1>2, <2>2 DEF StoreBegin
<1>3. CASE StoreEnd
  <2>1. /\ pending.key \in Keys /\ pending.value \in Values[pending.key]
        /\ \A k \in Keys : nvs[k] # Missing
    BY <1>3 DEF StoreEnd, Serving, IInv, TypeOK, FlashComplete
  <2>2. CASE pending.key \notin FlashFirst
    <3>1. setPrefs(pending.key, pending.value)
      BY <1>3, <2>2 DEF StoreEnd
    <3> QED
      BY <2>1, <3>1, PutIsSave
  <2> QED
    BY <1>3, <2>2 DEF StoreEnd
<1>4. CASE Load \/ WriteInitDone \/ Publish \/ Connect
  BY <1>4 DEF Load, WriteInitDone, Publish, Connect
<1>5. CASE Submit \/ Skip \/ PowerCycle \/ UNCHANGED vars
  BY <1>5 DEF Submit, Skip, PowerCycle, vars
<1> QED
  BY <1>1, <1>2, <1>3, <1>4, <1>5 DEF Next, Boot, Request

\* Over every power loss, flash changes one key at a time, values are saved
\* only where every key is, and only a device without a call is set back.
THEOREM Refinement == Spec => ImplementsDurableConfig
<1>1. IInv /\ [Next]_vars => [Durable!Next]_nvs
  BY StepDurable
<1> QED
  BY <1>1, InitDurable, Invariance, PTL DEF Spec, ImplementsDurableConfig, Durable!Spec
=============================================================================
