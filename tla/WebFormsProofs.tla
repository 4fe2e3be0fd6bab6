--------------------------- MODULE WebFormsProofs ---------------------------
(***************************************************************************)
(* The forms, for any number of browsers, any forms, menus and values that *)
(* the tables of WebForms allow: what a browser is shown and told, and     *)
(* what its forms change.                                                  *)
(***************************************************************************)
EXTENDS WebForms, TLAPS

\* A browser whose call was refused: the error is there, and on its page.
Told ==
    \A b \in Browser : refused[b] =>
        "call" \in ErrorMsg /\ (HasPage(b) => "call" \in page[b].error)

\* A menu on a page, however old, has one of its entries selected.
Selected ==
    \A b \in Browser : HasPage(b) =>
        \A k \in DOMAIN page[b].shows : k \in DOMAIN Menu => page[b].shows[k] \in Offers(k)

\* A value a handler would take, it would take as it is.
Settled(v, k) == v \in DOMAIN Reads[k] => Reads[k][v] = v

AllSettled == \A k \in Keys : Settled(cfg[k], k) /\ Settled(nvs[k], k)

\* RAM and flash differ only where nothing was stored since the factory values.
Stored == \A k \in Loaded : nvs[k] = cfg[k] \/ nvs[k] = Written[k]

\* Before the first restart the wizard's password stands until another is stored.
FirstPassword ==
    restarts = 0 => cfg["ap_pass"] = Password \/ nvs["ap_pass"] # Written["ap_pass"]

\* The pages that browsers show are pages the server has, with all their fields.
Served ==
    \A b \in Browser : HasPage(b) =>
        /\ page[b].at \in DOMAIN FormsOf
        /\ DOMAIN page[b].shows = UNION FormsOf[page[b].at]

FInv ==
    /\ DOMAIN page = Browser /\ DOMAIN refused = Browser /\ restarts \in Nat
    /\ Served /\ Told /\ Selected /\ AllSettled /\ Stored /\ FirstPassword

-----------------------------------------------------------------------------
(* Functions and the tables.                                               *)

\* EXCEPT changes the one argument.
LEMMA Updated ==
    ASSUME NEW S, NEW F, DOMAIN F = S, NEW a \in S, NEW x, NEW G, G = [F EXCEPT ![a] = x]
    PROVE  /\ DOMAIN G = S /\ G[a] = x
           /\ \A c \in S : c # a => G[c] = F[c]
OBVIOUS

\* A browser that is led on shows no page.
LEMMA LedToNone == ASSUME NEW r PROVE "at" \notin DOMAIN LedTo(r)
BY DEF LedTo

\* Where a menu has nothing selected, the first entry shows.
LEMMA OffersShown ==
    ASSUME NEW k \in DOMAIN Menu, NEW v
    PROVE  /\ optionsFeldGenerator(v, k) \in Offers(k)
           /\ v \in Offers(k) => optionsFeldGenerator(v, k) = v
<1>1. 1 \in DOMAIN Menu[k]
  BY FormsAssumption DEF FormsAssumption
<1> QED BY <1>1 DEF optionsFeldGenerator, Offers

\* Menus and numbers are on the pages of the call and of the mode only.
LEMMA PlainElsewhere ==
    ASSUME NEW k, k \in APFields \cup GatewayFields \cup (UNION WLANFields) \cup MessageFields
    PROVE  k \notin DOMAIN Menu /\ k \notin DOMAIN Unit
<1>1. k \notin CallFields \cup ModeFields
  BY DEF APFields, GatewayFields, WLANFields, MessageFields, CallFields, ModeFields
<1> QED BY <1>1, TablesAssumption

\* The fields of a page's forms are fields of its route, and so of its handler.
LEMMA FormFields ==
    ASSUME NEW r \in DOMAIN FormsOf, NEW f \in FormsOf[r]
    PROVE  /\ r \in {"/cc", "/ca", "/cg", "/cl", "/cm", "/sm"}
           /\ f \subseteq Keys \cup MessageFields
           /\ r = "/cc" => f \subseteq CallFields
           /\ r = "/ca" => f \subseteq APFields
           /\ r = "/cg" => f \subseteq GatewayFields
           /\ r = "/cl" => f \in WLANFields
           /\ r = "/cm" => f \subseteq ModeFields
           /\ r = "/sm" => f \subseteq MessageFields
<1>1. f \subseteq Keys \cup MessageFields
  BY FormsAssumption DEF Fields
<1> QED BY <1>1, TablesAssumption

\* The processor of a route fills in every key of its forms.
LEMMA Answered ==
    ASSUME NEW r \in DOMAIN FormsOf, NEW f \in FormsOf[r], NEW k \in f, k \in Keys, NEW config
    PROVE  /\ k \in DOMAIN Processor(r, config)
           /\ Processor(r, config)[k] = Shows(config, k)
<1>0. Keys \cap MessageFields = {}
  BY FormsAssumption
<1>1. CASE r = "/cc"
  BY <1>1, FormFields DEF Processor, ProcessorConfigCall
<1>2. CASE r = "/ca"
  <2>1. k \in APFields
    BY <1>2, FormFields
  <2> QED BY <1>2, <2>1, PlainElsewhere DEF Processor, ProcessorConfigWifiAP, Shows
<1>3. CASE r = "/cg"
  <2>1. k \in GatewayFields
    BY <1>3, FormFields
  <2> QED BY <1>3, <2>1, PlainElsewhere DEF Processor, ProcessorConfigGateway, Shows
<1>4. CASE r = "/cl"
  <2>1. k \in UNION WLANFields
    BY <1>4, FormFields
  <2> QED BY <1>4, <2>1, PlainElsewhere DEF Processor, ProcessorConfigWLAN, Shows
<1>5. CASE r = "/cm"
  BY <1>5, FormFields DEF Processor, ProcessorChangeMode
<1>6. CASE r = "/sm"
  BY <1>0, <1>6, FormFields
<1> QED BY <1>1, <1>2, <1>3, <1>4, <1>5, <1>6, FormFields

\* A page as it is filled in.
LEMMA FilledPage ==
    ASSUME NEW r \in DOMAIN FormsOf, NEW config, NEW errors, NEW p, p = Filled(r, config, errors)
    PROVE  /\ p.at = r /\ p.error = errors
           /\ DOMAIN p.shows = UNION FormsOf[r]
           /\ \A f \in FormsOf[r] : \A k \in f : k \in Keys => p.shows[k] = Shows(config, k)
           /\ \A k \in UNION FormsOf[r] : k \in DOMAIN Menu => p.shows[k] \in Offers(k)
<1> DEFINE answers == Processor(r, config)
           wrong == "wrong placeholder"
           shows == [k \in UNION FormsOf[r] |-> IF k \in DOMAIN answers THEN answers[k] ELSE wrong]
<1>1. p = [at |-> r, error |-> errors, shows |-> shows]
  BY Zenon DEF Filled
<1> HIDE DEF wrong
<1>2. ASSUME NEW f \in FormsOf[r], NEW k \in f, k \in Keys
      PROVE  shows[k] = Shows(config, k)
  <2>1. k \in DOMAIN answers /\ answers[k] = Shows(config, k)
    BY <1>2, Answered
  <2> HIDE DEF answers
  <2> QED BY <2>1, <1>2
<1>4. DOMAIN shows = UNION FormsOf[r]
  OBVIOUS
<1> HIDE DEF shows
<1>3. ASSUME NEW k \in UNION FormsOf[r], k \in DOMAIN Menu
      PROVE  shows[k] \in Offers(k)
  <2>1. PICK f \in FormsOf[r] : k \in f
    BY <1>3
  <2>2. f \subseteq Keys \cup MessageFields
    BY FormFields
  <2>3. k \notin MessageFields
    BY <1>3, PlainElsewhere
  <2>4. k \in Keys
    BY <2>1, <2>2, <2>3
  <2>5. shows[k] = Shows(config, k)
    BY <1>2, <2>1, <2>4
  <2>6. shows[k] = optionsFeldGenerator(config[k], k)
    BY <1>3, <2>5 DEF Shows
  <2> QED BY <1>3, <2>6, OffersShown
<1> QED BY <1>1, <1>2, <1>3, <1>4

-----------------------------------------------------------------------------
(* What a form that is sent does.                                          *)

\* What was accepted of f is stored in RAM and in flash, the rest is left.
Took(f, t) ==
    \A k \in Keys :
        /\ k \in Taken(f, t) => cfg'[k] = Reads[k][t[k]] /\ nvs'[k] = cfg'[k]
        /\ k \notin Taken(f, t) => cfg'[k] = cfg[k] /\ nvs'[k] = nvs[k]

\* An error of the call stays, and a refused call adds it.
Tells(b, t) ==
    \/ "call" \in ErrorMsg
    \/ page[b].at = "/cc" /\ RefusesCall(t)
    => "call" \in ErrorMsg'

\* A handler that takes more fields than the form has takes those of the form.
LEMMA TakenOfForm ==
    ASSUME NEW F, NEW f, NEW t, DOMAIN t = f, f \subseteq F
    PROVE  Taken(F, t) = Taken(f, t)
BY DEF Taken

LEMMA StoreTakes ==
    ASSUME NEW F, NEW f, NEW t, DOMAIN t = f, f \subseteq F, Store(Taken(F, t), t)
    PROVE  Took(f, t)
<1>1. Store(Taken(f, t), t)
  BY TakenOfForm, Zenon
<1>2. ASSUME NEW k \in Keys, k \in Taken(f, t)
      PROVE  cfg'[k] = Reads[k][t[k]] /\ nvs'[k] = cfg'[k]
  BY <1>1, <1>2 DEF Store
<1>3. ASSUME NEW k \in Keys, k \notin Taken(f, t)
      PROVE  cfg'[k] = cfg[k] /\ nvs'[k] = nvs[k]
  BY <1>1, <1>3 DEF Store
<1> QED BY <1>2, <1>3, Zenon DEF Took

\* One form sent: it is of the page shown, what was accepted of it is stored,
\* a refusal is noted, and the browser is led on.
LEMMA Submitted ==
    ASSUME NEW b, NEW f, NEW t, page[b].at \in DOMAIN FormsOf, Submit(b, f, t)
    PROVE  /\ f \in FormsOf[page[b].at] /\ DOMAIN t = f
           /\ Took(f, t) /\ Tells(b, t)
           /\ refused' = [refused EXCEPT ![b] = page[b].at = "/cc" /\ RefusesCall(t)]
           /\ \E r : page' = [page EXCEPT ![b] = LedTo(r)]
           /\ restarts' = restarts
<1> DEFINE at == page[b].at
<1>0. ASSUME NEW r, Sends(b, r, f, t)
      PROVE  /\ at = r /\ f \in FormsOf[at] /\ DOMAIN t = f
             /\ refused' = [refused EXCEPT ![b] = page[b].at = "/cc" /\ RefusesCall(t)]
             /\ restarts' = restarts
  BY <1>0, Zenon DEF Sends
<1>1. CASE SubmitCall(b, f, t)
  <2>1. Sends(b, "/cc", f, t) /\ handleRequestConfigCall(t) /\ \E r : Leads(b, r)
    BY <1>1, Zenon DEF SubmitCall
  <2>2. f \subseteq CallFields
    BY <1>0, <2>1, FormFields
  <2>3. Took(f, t)
    BY <1>0, <2>1, <2>2, StoreTakes, Zenon DEF handleRequestConfigCall
  <2>4. Tells(b, t)
    BY <2>1 DEF handleRequestConfigCall, Tells
  <2> QED BY <1>0, <2>1, <2>3, <2>4, Zenon DEF Leads
<1>2. CASE SubmitAP(b, f, t)
  <2>1. Sends(b, "/ca", f, t) /\ handleRequestConfigAP(t) /\ Leads(b, "/")
    BY <1>2, Zenon DEF SubmitAP
  <2>2. f \subseteq APFields
    BY <1>0, <2>1, FormFields
  <2>3. Took(f, t)
    BY <1>0, <2>1, <2>2, StoreTakes, Zenon DEF handleRequestConfigAP
  <2>4. Tells(b, t)
    BY <1>0, <2>1 DEF handleRequestConfigAP, Tells
  <2> QED BY <1>0, <2>1, <2>3, <2>4, Zenon DEF Leads
<1>3. CASE SubmitGateway(b, f, t)
  <2>1. Sends(b, "/cg", f, t) /\ handleRequestConfigGateway(t) /\ Leads(b, "/")
    BY <1>3, Zenon DEF SubmitGateway
  <2>2. f \subseteq GatewayFields
    BY <1>0, <2>1, FormFields
  <2>3. Took(f, t)
    BY <1>0, <2>1, <2>2, StoreTakes, Zenon DEF handleRequestConfigGateway
  <2>4. Tells(b, t)
    BY <1>0, <2>1 DEF handleRequestConfigGateway, Tells
  <2> QED BY <1>0, <2>1, <2>3, <2>4, Zenon DEF Leads
<1>4. CASE SubmitWLAN(b, f, t)
  <2> DEFINE named == UNION { n \in WLANFields : n \cap SSIDs \cap DOMAIN t # {} }
  <2>1. Sends(b, "/cl", f, t) /\ handleRequestConfigWLAN(t) /\ Leads(b, "/")
    BY <1>4, Zenon DEF SubmitWLAN
  <2>2. f \in WLANFields /\ DOMAIN t = f
    BY <1>0, <2>1, FormFields
  <2>3. f \cap SSIDs \cap DOMAIN t # {}
    BY <2>2 DEF WLANFields, SSIDs
  <2>4. f \subseteq named
    BY <2>2, <2>3
  <2>5. Store(Taken(named, t), t)
    BY <2>1, Zenon DEF handleRequestConfigWLAN
  <2> HIDE DEF named
  <2>6. Took(f, t)
    BY <2>2, <2>4, <2>5, StoreTakes, Zenon
  <2>7. Tells(b, t)
    BY <1>0, <2>1 DEF handleRequestConfigWLAN, Tells
  <2> QED BY <1>0, <2>1, <2>6, <2>7, Zenon DEF Leads
<1>5. CASE SubmitMode(b, f, t)
  <2>1. Sends(b, "/cm", f, t) /\ handleRequestChangeMode(t) /\ Leads(b, "/")
    BY <1>5, Zenon DEF SubmitMode
  <2>2. f \subseteq ModeFields
    BY <1>0, <2>1, FormFields
  <2>3. Took(f, t)
    BY <1>0, <2>1, <2>2, StoreTakes, Zenon DEF handleRequestChangeMode
  <2>4. Tells(b, t)
    BY <1>0, <2>1 DEF handleRequestChangeMode, Tells
  <2> QED BY <1>0, <2>1, <2>3, <2>4, Zenon DEF Leads
<1>6. CASE SubmitMessage(b, f, t)
  <2>1. Sends(b, "/sm", f, t) /\ handleRequestSendMessage(t) /\ Leads(b, "/")
    BY <1>6, Zenon DEF SubmitMessage
  <2>2. f \subseteq MessageFields /\ Keys \cap MessageFields = {}
    BY <1>0, <2>1, FormFields, FormsAssumption
  <2>3. cfg' = cfg /\ nvs' = nvs /\ \A k \in Keys : k \notin Taken(f, t)
    BY <2>1, <2>2 DEF handleRequestSendMessage, Taken
  <2>4. Took(f, t)
    BY <2>3, Zenon DEF Took
  <2>5. Tells(b, t)
    BY <1>0, <2>1 DEF handleRequestSendMessage, Tells
  <2> QED BY <1>0, <2>1, <2>4, <2>5, Zenon DEF Leads
<1> QED BY <1>1, <1>2, <1>3, <1>4, <1>5, <1>6, Zenon DEF Submit

-----------------------------------------------------------------------------
(* The inductive invariant.                                                *)

\* A page as it is filled in is served and has its menus selected.
LEMMA FilledIsGood ==
    ASSUME NEW r \in DOMAIN FormsOf, NEW config, NEW errors, NEW p, p = Filled(r, config, errors)
    PROVE  /\ p.at \in DOMAIN FormsOf /\ p.error = errors
           /\ DOMAIN p.shows = UNION FormsOf[p.at]
           /\ \A k \in DOMAIN p.shows : k \in DOMAIN Menu => p.shows[k] \in Offers(k)
<1>1. p.at = r /\ p.error = errors
  BY FilledPage
<1>2. DOMAIN p.shows = UNION FormsOf[r]
  BY FilledPage
<1>3. \A k \in UNION FormsOf[r] : k \in DOMAIN Menu => p.shows[k] \in Offers(k)
  BY FilledPage
<1> QED BY <1>1, <1>2, <1>3

\* What is stored is settled, whatever was there.
LEMMA TookSettled ==
    ASSUME NEW f, NEW t, AllSettled, Took(f, t)
    PROVE  AllSettled'
<1> SUFFICES ASSUME NEW k \in Keys PROVE Settled(cfg'[k], k) /\ Settled(nvs'[k], k)
  BY DEF AllSettled
<1>1. CASE k \in Taken(f, t)
  <2>1. t[k] \in DOMAIN Reads[k]
    BY <1>1 DEF Taken
  <2>2. Settled(Reads[k][t[k]], k)
    BY <2>1, TablesAssumption DEF Settled
  <2> QED BY <1>1, <2>2, Zenon DEF Took
<1>2. CASE k \notin Taken(f, t)
  BY <1>2, Zenon DEF Took, AllSettled
<1> QED BY <1>1, <1>2

\* What ConfigInit() and ConfigWriteInit() put there is settled, too.
LEMMA DefaultsSettled ==
    ASSUME NEW k \in Keys
    PROVE  Settled(ReadDefault[k], k) /\ Settled(Written[k], k) /\ Settled(Fresh[k], k)
BY TablesAssumption DEF Settled

LEMMA InitFInv == Init => FInv
<1> SUFFICES ASSUME Init PROVE FInv
  OBVIOUS
<1>1. /\ DOMAIN page = Browser /\ DOMAIN refused = Browser
      /\ \A b \in Browser : ~refused[b] /\ page[b] = LedTo("")
  BY DEF Init, NoPage
<1>2. Served /\ Selected /\ Told
  BY <1>1, LedToNone, Zenon DEF Served, Selected, Told, HasPage
<1>3. AllSettled
  BY DefaultsSettled, Zenon DEF Init, AllSettled
<1>4. Stored
  BY DEF Init, Stored
<1>5. FirstPassword
  BY TablesAssumption, Zenon DEF Init, FirstPassword
<1>6. restarts \in Nat
  BY DEF Init
<1> QED BY <1>1, <1>2, <1>3, <1>4, <1>5, <1>6 DEF FInv

\* A browser gets a page, or is led on, or shows what it did; the rest stays.
LEMMA ShownNext ==
    ASSUME FInv, NEW a \in Browser, NEW p, page' = [page EXCEPT ![a] = p],
           "at" \in DOMAIN p => \E r \in DOMAIN FormsOf : p = Filled(r, cfg, ErrorMsg)
    PROVE  /\ DOMAIN page' = Browser /\ Served' /\ Selected'
           /\ \A b \in Browser : HasPage(b)' =>
                 \/ page'[b].error = ErrorMsg
                 \/ HasPage(b) /\ page'[b] = page[b]
<1>1. /\ DOMAIN page' = Browser /\ page'[a] = p
      /\ \A b \in Browser : b # a => page'[b] = page[b]
  BY DEF FInv
<1>2. ASSUME "at" \in DOMAIN p
      PROVE  /\ p.at \in DOMAIN FormsOf /\ p.error = ErrorMsg
             /\ DOMAIN p.shows = UNION FormsOf[p.at]
             /\ \A k \in DOMAIN p.shows : k \in DOMAIN Menu => p.shows[k] \in Offers(k)
  BY <1>2, FilledIsGood, Zenon
<1>3. Served'
  BY <1>1, <1>2, Zenon DEF FInv, Served, HasPage
<1>4. Selected'
  BY <1>1, <1>2, Zenon DEF FInv, Selected, HasPage
<1>5. ASSUME NEW b \in Browser, HasPage(b)'
      PROVE  page'[b].error = ErrorMsg \/ (HasPage(b) /\ page'[b] = page[b])
  BY <1>1, <1>2, <1>5, Zenon DEF HasPage
<1> QED BY <1>1, <1>3, <1>4, <1>5, Zenon

\* Nothing is stored: the configuration is as good as it was.
LEMMA ConfigKept ==
    ASSUME FInv, UNCHANGED <<cfg, nvs, restarts>>
    PROVE  AllSettled' /\ Stored' /\ FirstPassword' /\ restarts' \in Nat
<1>1. cfg' = cfg /\ nvs' = nvs /\ restarts' = restarts
  OBVIOUS
<1> QED BY <1>1, Zenon DEF FInv, AllSettled, Stored, FirstPassword

\* A page without parameters, or the wizard's redirect.
LEMMA AskedFInv ==
    ASSUME FInv, NEW a \in Browser, NEW p, page' = [page EXCEPT ![a] = p],
           "at" \in DOMAIN p => \E r \in DOMAIN FormsOf : p = Filled(r, cfg, ErrorMsg),
           UNCHANGED <<cfg, nvs, TxMsgTo, ErrorMsg, refused, submits, restarts>>
    PROVE  FInv'
<1>1. refused' = refused /\ ErrorMsg' = ErrorMsg /\ UNCHANGED <<cfg, nvs, restarts>>
  OBVIOUS
<1>2. /\ DOMAIN page' = Browser /\ Served' /\ Selected'
      /\ \A b \in Browser : HasPage(b)' =>
            page'[b].error = ErrorMsg \/ (HasPage(b) /\ page'[b] = page[b])
  BY ShownNext, Zenon
<1>3. Told'
  <2>1. ASSUME NEW b \in Browser, refused'[b]
        PROVE  "call" \in ErrorMsg' /\ (HasPage(b)' => "call" \in page'[b].error)
    BY <1>1, <1>2, <2>1, Zenon DEF FInv, Told
  <2> QED BY <2>1, Zenon DEF Told, HasPage
<1>4. DOMAIN refused' = Browser
  BY <1>1, Zenon DEF FInv
<1>5. AllSettled' /\ Stored' /\ FirstPassword' /\ restarts' \in Nat
  BY <1>1, ConfigKept, Zenon
<1> QED BY <1>2, <1>3, <1>4, <1>5, Zenon DEF FInv

LEMMA SubmitFInv ==
    ASSUME FInv, NEW b \in Browser, NEW f, NEW t, HasPage(b), Submit(b, f, t)
    PROVE  FInv'
<1>1. page[b].at \in DOMAIN FormsOf
  BY Zenon DEF FInv, Served
<1>2. /\ Took(f, t) /\ Tells(b, t)
      /\ refused' = [refused EXCEPT ![b] = page[b].at = "/cc" /\ RefusesCall(t)]
      /\ \E r : page' = [page EXCEPT ![b] = LedTo(r)]
      /\ restarts' = restarts
  BY <1>1, Submitted, Zenon
<1>3. PICK r : page' = [page EXCEPT ![b] = LedTo(r)]
  BY <1>2, Zenon
<1>4. DOMAIN page' = Browser /\ Served' /\ Selected'
  BY <1>3, LedToNone, ShownNext, Zenon
<1>5. /\ DOMAIN refused' = Browser
      /\ refused'[b] = (page[b].at = "/cc" /\ RefusesCall(t))
      /\ \A c \in Browser : c # b => refused'[c] = refused[c]
  <2> DEFINE now == page[b].at = "/cc" /\ RefusesCall(t)
  <2>1. refused' = [refused EXCEPT ![b] = now] /\ DOMAIN refused = Browser
    BY <1>2, Zenon DEF FInv
  <2> HIDE DEF now
  <2>2. /\ DOMAIN refused' = Browser /\ refused'[b] = now
        /\ \A c \in Browser : c # b => refused'[c] = refused[c]
    BY <2>1, Updated, Zenon
  <2> QED BY <2>2, Zenon DEF now
<1>6. /\ DOMAIN page' = Browser /\ page'[b] = LedTo(r)
      /\ \A c \in Browser : c # b => page'[c] = page[c]
  BY <1>3, Updated, Zenon DEF FInv
<1>7. Told'
  <2>1. ASSUME NEW c \in Browser, refused'[c]
        PROVE  "call" \in ErrorMsg' /\ (HasPage(c)' => "call" \in page'[c].error)
    <3>1. CASE c = b
      BY <1>2, <1>5, <1>6, <2>1, <3>1, LedToNone, Zenon DEF Tells, HasPage
    <3>2. CASE c # b
      BY <1>2, <1>5, <1>6, <2>1, <3>2, Zenon DEF Tells, HasPage, FInv, Told
    <3> QED BY <3>1, <3>2
  <2> QED BY <2>1, Zenon DEF Told, HasPage
<1>8. AllSettled'
  BY <1>2, TookSettled, Zenon DEF FInv
<1>9. Stored'
  <2>1. ASSUME NEW k \in Loaded
        PROVE  nvs'[k] = cfg'[k] \/ nvs'[k] = Written[k]
    <3>1. k \in Keys
      BY FormsAssumption
    <3> QED BY <1>2, <3>1, Zenon DEF FInv, Stored, Took
  <2> QED BY <2>1, Zenon DEF Stored
<1>10. FirstPassword'
  <2>1. "ap_pass" \in Keys
    BY FormsAssumption
  <2>2. CASE "ap_pass" \in Taken(f, t)
    <3>1. nvs'["ap_pass"] = Reads["ap_pass"][t["ap_pass"]]
      BY <1>2, <2>1, <2>2, Zenon DEF Took
    <3>2. t["ap_pass"] \in DOMAIN Reads["ap_pass"]
      BY <2>2 DEF Taken
    <3>3. nvs'["ap_pass"] # Written["ap_pass"]
      BY <2>1, <3>1, <3>2, TablesAssumption
    <3> QED BY <3>3, Zenon DEF FirstPassword
  <2>3. CASE "ap_pass" \notin Taken(f, t)
    BY <1>2, <2>1, <2>3, Zenon DEF Took, FInv, FirstPassword
  <2> QED BY <2>2, <2>3
<1>11. restarts' \in Nat
  BY <1>2 DEF FInv
<1> QED BY <1>4, <1>5, <1>7, <1>8, <1>9, <1>10, <1>11, Zenon DEF FInv

\* A restart, with the pages left open or one of them gone.
LEMMA SetupFInv ==
    ASSUME FInv, Setup, DOMAIN page' = Browser, Served', Selected'
    PROVE  FInv'
<1>1. /\ restarts' = restarts + 1
      /\ cfg' = [k \in Keys |-> IF k \in Loaded THEN nvs[k] ELSE Fresh[k]]
      /\ nvs' = Written \/ nvs' = nvs
      /\ refused' = [b \in Browser |-> FALSE]
  BY DEF Setup
<1>2. \A k \in Keys : cfg'[k] = nvs[k] \/ cfg'[k] = Fresh[k]
  BY <1>1
<1>3. \A k \in Loaded : cfg'[k] = nvs[k]
  BY <1>1, FormsAssumption
<1>4. DOMAIN refused' = Browser /\ \A b \in Browser : ~refused'[b]
  BY <1>1, Zenon
<1>5. Told'
  BY <1>4, Zenon DEF Told
<1>6. AllSettled'
  BY <1>1, <1>2, DefaultsSettled, Zenon DEF AllSettled, FInv
<1>7. Stored'
  BY <1>1, <1>3, Zenon DEF Stored
<1>8. restarts' \in Nat /\ restarts' # 0
  BY <1>1 DEF FInv
<1>9. FirstPassword'
  BY <1>8, Zenon DEF FirstPassword
<1> QED BY <1>4, <1>5, <1>6, <1>7, <1>8, <1>9, Zenon DEF FInv

LEMMA NextFInv == FInv /\ [Next]_vars => FInv'
<1> SUFFICES ASSUME FInv, [Next]_vars PROVE FInv'
  OBVIOUS
<1>1. ASSUME NEW b \in Browser, NEW r \in DOMAIN FormsOf, Get(b, r)
      PROVE  FInv'
  BY <1>1, AskedFInv, Zenon DEF Get
<1>2. ASSUME NEW b \in Browser, GetFirstRun(b)
      PROVE  FInv'
  BY <1>2, LedToNone, AskedFInv, Zenon DEF GetFirstRun
<1>3. ASSUME NEW b \in Browser, SubmitForm(b)
      PROVE  FInv'
  BY <1>3, SubmitFInv, Zenon DEF SubmitForm
<1>4. CASE Restart
  <2>1. Setup /\ page' = page
    BY <1>4 DEF Restart
  <2>2. DOMAIN page' = Browser /\ Served' /\ Selected'
    BY <2>1, Zenon DEF FInv, Served, Selected, HasPage
  <2> QED BY <2>1, <2>2, SetupFInv, Zenon
<1>5. ASSUME NEW b \in Browser, reboot(b)
      PROVE  FInv'
  <2>1. Setup /\ page' = [page EXCEPT ![b] = LedTo("")]
    BY <1>5, Zenon DEF reboot, NoPage
  <2>2. DOMAIN page' = Browser /\ Served' /\ Selected'
    BY <2>1, LedToNone, ShownNext, Zenon
  <2> QED BY <2>1, <2>2, SetupFInv, Zenon
<1>6. CASE UNCHANGED vars
  <2>1. page' = page /\ refused' = refused /\ ErrorMsg' = ErrorMsg /\ UNCHANGED <<cfg, nvs, restarts>>
    BY <1>6 DEF vars
  <2>2. AllSettled' /\ Stored' /\ FirstPassword' /\ restarts' \in Nat
    BY <2>1, ConfigKept, Zenon
  <2> QED BY <2>1, <2>2, Zenon DEF FInv, Served, Selected, Told, HasPage
<1> QED BY <1>1, <1>2, <1>3, <1>4, <1>5, <1>6, Zenon DEF Next

-----------------------------------------------------------------------------
(* What holds of every device.                                             *)

LEMMA AlwaysFInv == Spec => []FInv
BY InitFInv, NextFInv, PTL DEF Spec

\* A browser whose call was refused (RefusesCall in handleRequestConfigCall())
\* is told on every page it sees until the restart.
THEOREM RefusalTold == Spec => []RefusalIsTold
<1>1. FInv => RefusalIsTold
  BY Zenon DEF FInv, Told, RefusalIsTold
<1> QED BY <1>1, AlwaysFInv, PTL

\* A restart of a configured device shows again what was stored on the pages:
\* only what was never stored since the factory values can differ.
THEOREM RestartKeepsStored == Spec => RestartShowsStored
<1>1. ASSUME FInv, Setup, NEW k \in Loaded, nvs[k] # Written[k]
      PROVE  Shows(cfg', k) = Shows(cfg, k)
  <2>1. k \in Keys
    BY FormsAssumption
  <2>2. cfg' = [j \in Keys |-> IF j \in Loaded THEN nvs[j] ELSE Fresh[j]]
    BY <1>1, Zenon DEF Setup
  <2>3. cfg'[k] = nvs[k]
    BY <2>1, <2>2
  <2>4. nvs[k] = cfg[k]
    BY <1>1, Zenon DEF FInv, Stored
  <2>5. cfg'[k] = cfg[k]
    BY <2>3, <2>4, Zenon
  <2> QED BY <2>5, Zenon DEF Shows
<1>2. FInv => [Setup /\ cfg["call"] # Unset =>
                 \A k \in Loaded : nvs[k] # Written[k] => Shows(cfg', k) = Shows(cfg, k)]_vars
  BY <1>1, Zenon
<1> QED BY <1>2, AlwaysFInv, PTL DEF RestartShowsStored

\* On the first run the form of the call leads on to the access point's, until
\* that has a password of its own.
THEOREM WizardGoesOn == Spec => WizardAsksAP
<1>1. ASSUME FInv, NEW b \in Browser, NEW f, NEW t, HasPage(b), SubmitCall(b, f, t),
             restarts = 0, nvs'["ap_pass"] = Written["ap_pass"]
      PROVE  page'[b] = LedTo("/ca")
  <2>1. Store(Taken(CallFields, t), t) /\ Leads(b, IF cfg'["ap_pass"] = Password THEN "/ca" ELSE "/")
    BY <1>1, Zenon DEF SubmitCall, handleRequestConfigCall
  <2>2. "ap_pass" \in Keys /\ "ap_pass" \notin Taken(CallFields, t)
    BY FormsAssumption DEF Taken, CallFields
  <2>3. cfg'["ap_pass"] = cfg["ap_pass"] /\ nvs'["ap_pass"] = nvs["ap_pass"]
    BY <2>1, <2>2 DEF Store
  <2>4. cfg'["ap_pass"] = Password
    BY <1>1, <2>3, Zenon DEF FInv, FirstPassword
  <2>5. page' = [page EXCEPT ![b] = LedTo("/ca")]
    BY <2>1, <2>4, Zenon DEF Leads
  <2> QED BY <2>5, <1>1, Updated, Zenon DEF FInv
<1>2. FInv => [\A b \in Browser : HasPage(b) => \A f \in FormsOf[page[b].at] :
                  \A t \in Inputted(b, f) :
                      SubmitCall(b, f, t) /\ restarts = 0 /\ nvs'["ap_pass"] = Written["ap_pass"] =>
                          page'[b] = LedTo("/ca")]_vars
  BY <1>1, Zenon
<1> QED BY <1>2, AlwaysFInv, PTL DEF WizardAsksAP

\* What a browser may send in a field with a menu is an entry of the menu.
LEMMA MenuInput ==
    ASSUME FInv, NEW b \in Browser, HasPage(b), NEW f \in FormsOf[page[b].at],
           NEW t \in Inputted(b, f), NEW k \in f, k \in DOMAIN Menu
    PROVE  t[k] \in Offers(k)
<1>0. k \in DOMAIN page[b].shows
  BY DEF FInv, Served
<1>1. page[b].shows[k] \in Offers(k)
  BY <1>0, Zenon DEF FInv, Selected
<1>2. AsShown(b, f)[k] \in Offers(k)
  BY <1>1 DEF AsShown
<1>3. ASSUME NEW j \in f, NEW v \in Inputs(b, j), t = [AsShown(b, f) EXCEPT ![j] = v]
      PROVE  t[k] \in Offers(k)
  <2>1. DOMAIN AsShown(b, f) = f
    BY DEF AsShown
  <2>2. CASE j = k
    <3>1. t[k] = v
      BY <1>3, <2>1, <2>2, Updated, Zenon
    <3>2. v \in Offers(k)
      BY <1>1, <1>3, <2>2 DEF Inputs
    <3> QED BY <3>1, <3>2
  <2>3. CASE j # k
    <3>1. t[k] = AsShown(b, f)[k]
      BY <1>3, <2>1, <2>3, Updated, Zenon
    <3> QED BY <3>1, <1>2
  <2> QED BY <2>2, <2>3
<1>4. t = AsShown(b, f) \/ \E j \in f : \E v \in Inputs(b, j) : t = [AsShown(b, f) EXCEPT ![j] = v]
  BY DEF Inputted
<1> QED BY <1>2, <1>3, <1>4, Zenon

\* What a handler accepts is settled: the menus and the numbers show it.
LEMMA ShowsTaken ==
    ASSUME NEW k \in Keys, NEW v, v \in DOMAIN Reads[k], k \in DOMAIN Menu => v \in Offers(k),
           NEW config, config[k] = Reads[k][v]
    PROVE  Shows(config, k) = IF k \in DOMAIN Unit THEN Rounded(v, Unit[k]) ELSE Reads[k][v]
<1>1. CASE k \in DOMAIN Menu
  <2>1. Reads[k][v] = v /\ k \notin DOMAIN Unit
    BY <1>1, TablesAssumption
  <2> QED BY <1>1, <2>1, OffersShown DEF Shows
<1>2. CASE k \notin DOMAIN Menu /\ k \in DOMAIN Unit
  <2>1. Reads[k][v] = v
    BY <1>2, TablesAssumption
  <2> QED BY <1>2, <2>1 DEF Shows
<1>3. CASE k \notin DOMAIN Menu /\ k \notin DOMAIN Unit
  BY <1>3 DEF Shows
<1> QED BY <1>1, <1>2, <1>3

\* What the handler of a route accepts is what the next page of that route
\* shows, and what flash holds.
THEOREM SubmittedShows == Spec => SubmittedIsShown
<1>1. ASSUME FInv, NEW b \in Browser, HasPage(b), NEW f \in FormsOf[page[b].at],
             NEW t \in Inputted(b, f), Submit(b, f, t), NEW k \in Taken(f, t) \cap Keys
      PROVE  /\ Processor(page[b].at, cfg')[k] =
                   IF k \in DOMAIN Unit THEN Rounded(t[k], Unit[k]) ELSE Reads[k][t[k]]
             /\ nvs'[k] = cfg'[k]
  <2>1. page[b].at \in DOMAIN FormsOf
    BY <1>1, Zenon DEF FInv, Served
  <2>2. Took(f, t)
    BY <1>1, <2>1, Submitted, Zenon
  <2>3. k \in Keys /\ k \in f /\ t[k] \in DOMAIN Reads[k]
    BY <1>1 DEF Taken
  <2>4. cfg'[k] = Reads[k][t[k]] /\ nvs'[k] = cfg'[k]
    BY <1>1, <2>2, <2>3, Zenon DEF Took
  <2>5. k \in DOMAIN Menu => t[k] \in Offers(k)
    BY <1>1, <2>3, MenuInput, Zenon
  <2>6. Shows(cfg', k) = IF k \in DOMAIN Unit THEN Rounded(t[k], Unit[k]) ELSE Reads[k][t[k]]
    BY <2>3, <2>4, <2>5, ShowsTaken, Zenon
  <2>7. Processor(page[b].at, cfg')[k] = Shows(cfg', k)
    BY <2>1, <2>3, Answered, Zenon
  <2> QED BY <2>4, <2>6, <2>7, Zenon
<1>2. FInv => [\A b \in Browser : HasPage(b) =>
                  \A f \in FormsOf[page[b].at] : \A t \in Inputted(b, f) :
                      Submit(b, f, t) => \A k \in Taken(f, t) \cap Keys :
                          /\ Processor(page[b].at, cfg')[k] =
                                IF k \in DOMAIN Unit THEN Rounded(t[k], Unit[k]) ELSE Reads[k][t[k]]
                          /\ nvs'[k] = cfg'[k]]_vars
  BY <1>1, Zenon
<1> QED BY <1>2, AlwaysFInv, PTL DEF SubmittedIsShown

\* A form that is sent back as it came changes nothing but what it cannot show.
THEOREM UntouchedStays == Spec => UntouchedKeeps
<1>1. ASSUME FInv, NEW b \in Browser, UpToDate(b), NEW f \in FormsOf[page[b].at],
             Submit(b, f, AsShown(b, f)), NEW k \in Keys, cfg'[k] # cfg[k], ~CannotShow(k)
      PROVE  FALSE
  <2> DEFINE t == AsShown(b, f)
  <2>1. HasPage(b) /\ page[b].at \in DOMAIN FormsOf
    BY <1>1, Zenon DEF FInv, Served, UpToDate
  <2>2. Took(f, t)
    BY <1>1, <2>1, Submitted, Zenon
  <2>3. k \in Taken(f, t)
    BY <1>1, <2>2, Zenon DEF Took
  <2>4. k \in f /\ t[k] \in DOMAIN Reads[k]
    BY <2>3 DEF Taken
  <2>5. t[k] = page[b].shows[k]
    BY <2>4 DEF AsShown
  <2> DEFINE p == Filled(page[b].at, cfg, {})
  <2>6. page[b].shows = p.shows
    BY <1>1, Zenon DEF UpToDate
  <2> HIDE DEF p
  <2>7. t[k] = Shows(cfg, k)
    <3>1. p = Filled(page[b].at, cfg, {})
      BY DEF p
    <3>2. p.shows[k] = Shows(cfg, k)
      BY <1>1, <2>1, <2>4, <3>1, FilledPage
    <3> QED BY <2>5, <2>6, <3>2, Zenon
  <2> HIDE DEF t
  <2>8. Shows(cfg, k) = cfg[k]
    <3>1. CASE k \in DOMAIN Menu
      <4>1. cfg[k] \in Offers(k)
        BY <1>1, <3>1, Zenon DEF CannotShow
      <4> QED BY <3>1, <4>1, OffersShown DEF Shows
    <3>2. CASE k \notin DOMAIN Menu /\ k \in DOMAIN Unit
      BY <1>1, <3>2, Zenon DEF CannotShow, Shows
    <3>3. CASE k \notin DOMAIN Menu /\ k \notin DOMAIN Unit
      BY <3>3 DEF Shows
    <3> QED BY <3>1, <3>2, <3>3
  <2>9. Reads[k][cfg[k]] = cfg[k]
    BY <1>1, <2>4, <2>7, <2>8, Zenon DEF FInv, AllSettled, Settled
  <2> QED BY <1>1, <2>2, <2>3, <2>7, <2>8, <2>9, Zenon DEF Took
<1>2. FInv => [\A b \in Browser : UpToDate(b) =>
                  \A f \in FormsOf[page[b].at] : Submit(b, f, AsShown(b, f)) =>
                      \A k \in Keys : cfg'[k] # cfg[k] => CannotShow(k)]_vars
  BY <1>1, Zenon
<1> QED BY <1>2, AlwaysFInv, PTL DEF UntouchedKeeps
=============================================================================
