------------------------------ MODULE WebForms ------------------------------
(***************************************************************************)
(* The pages of the web server as a browser sees them: a route answers     *)
(* with a page whose fields its processor fills in with what is stored     *)
(* (the Processor... functions), takes what the browser sends back (the    *)
(* handleRequest... functions) and leads it on to another route, which the *)
(* browser then asks for.  A page may stay open while others store, and    *)
(* over a restart.  The library handles one request at a time, so here a   *)
(* handler is one step; what happens inside it is in ConfigStore.          *)
(***************************************************************************)
EXTENDS Integers, Sequences, FiniteSets

CONSTANTS
    Browser,
    Keys, Loaded,  \* the keys of the configuration; those ConfigInit() reads
    FormsOf,       \* for each route the forms of its page, each the set of its fields
    Menu,          \* for each key with a menu the values it offers, in order
    Unit,          \* for each number the unit of the last digit shown
    Typed,         \* for each field without a menu the texts one may type
    Reads,         \* for each field the texts its handler accepts -> what it stores
    ReadDefault,   \* for each key ConfigInit()'s default
    Written,       \* for each key the value ConfigWriteInit() writes
    Fresh,         \* the cfg of a device that was just switched on
    Unset,         \* the call of an unconfigured device
    Password,      \* the password for which the wizard goes on to the next form
    MaxSubmits, MaxRestarts    \* bounds: requests with parameters, restarts

MessageFields == {"to", "wide", "msg"}
Fields == Keys \cup MessageFields

ASSUME FormsAssumption ==
    /\ Loaded \subseteq Keys /\ {"call", "ap_pass"} \subseteq Loaded
    /\ Keys \cap MessageFields = {}
    /\ \A r \in DOMAIN FormsOf : FormsOf[r] \in SUBSET SUBSET Fields
    /\ \A k \in DOMAIN Menu : Menu[k] \in Seq(DOMAIN Reads[k]) /\ Menu[k] # <<>>
    /\ DOMAIN Reads = Fields
    /\ MaxSubmits \in Nat /\ MaxRestarts \in Nat

VARIABLES
    cfg, nvs,      \* the configuration in RAM and in flash
    TxMsgTo,       \* cfg.TxMsg.to
    ErrorMsg,      \* html_error.ErrorMsg: the kinds of the errors in it
    page,          \* what each browser shows, or the route it is led to
    refused,       \* history: the call a browser sent last was refused
    submits, restarts

vars == <<cfg, nvs, TxMsgTo, ErrorMsg, page, refused, submits, restarts>>

LedTo(r) == [led |-> r]
NoPage == LedTo("")
HasPage(b) == "at" \in DOMAIN page[b]

-----------------------------------------------------------------------------
(* What the processors put into the fields.                                *)

Offers(k) == { Menu[k][i] : i \in DOMAIN Menu[k] }

\* Slip: a menu has no entry selected.
optionsFeldGeneratorUnselected(selected, k) == Menu[k][1]

\* The entry that equals the value is selected; if there is none the browser
\* shows the first.
optionsFeldGenerator(selected, k) == IF selected \in Offers(k) THEN selected ELSE Menu[k][1]

\* String(double, decimals): half a unit is rounded away from zero.
Rounded(v, u) == IF v >= 0 THEN ((v + u \div 2) \div u) * u
                           ELSE -(((u \div 2 - v) \div u) * u)

Shows(config, k) ==
    IF k \in DOMAIN Menu THEN optionsFeldGenerator(config[k], k)
    ELSE IF k \in DOMAIN Unit THEN Rounded(config[k], Unit[k])
    ELSE config[k]

CallFields == {"call", "aprs_ext", "wx_ext", "aprs_symbol", "lat_fix", "lng_fix", "alt_fix"}
APFields == {"ap_ssid", "ap_pass", "web_admin", "web_pass"}
GatewayFields == {"aprs_pass", "aprs_server0", "aprs_server1"}
ModeFields == {"c_run_mode", "c_wifi_mode"}
\* The fields of network n: its name and its password.
WLANFields == { {"lan0_ssid", "lan0_auth"}, {"lan1_ssid", "lan1_auth"},
                {"lan2_ssid", "lan2_auth"}, {"lan3_ssid", "lan3_auth"} }
SSIDs == {"lan0_ssid", "lan1_ssid", "lan2_ssid", "lan3_ssid"}

\* Every field of a form is filled in by the processor of its route and taken
\* by the handler, a form of /cl is one network's; what a handler reads is read
\* the same when it comes again, and numbers and menu entries are taken as they
\* are.  The wizard's password is the one a device runs before it has another,
\* and the one written into flash is none a handler would store.
ASSUME TablesAssumption ==
    /\ \A r \in DOMAIN FormsOf : \A f \in FormsOf[r] :
          /\ r \in {"/cc", "/ca", "/cg", "/cl", "/cm", "/sm"}
          /\ r = "/cc" => f \subseteq CallFields
          /\ r = "/ca" => f \subseteq APFields
          /\ r = "/cg" => f \subseteq GatewayFields
          /\ r = "/cl" => f \in WLANFields
          /\ r = "/cm" => f \subseteq ModeFields
          /\ r = "/sm" => f \subseteq MessageFields
    /\ DOMAIN Menu \cup DOMAIN Unit \subseteq CallFields \cup ModeFields
    /\ DOMAIN Menu \cap DOMAIN Unit = {}
    /\ \A k \in Keys : \A v \in DOMAIN Reads[k] :
          LET read == Reads[k][v] IN
          /\ read \in DOMAIN Reads[k] => Reads[k][read] = read
          /\ v \in {ReadDefault[k], Written[k], Fresh[k]} => read = v
          /\ k \in DOMAIN Unit \/ (k \in DOMAIN Menu /\ v \in Offers(k)) => read = v
          /\ k = "ap_pass" => read # Written[k]
    /\ ReadDefault["ap_pass"] = Password

ProcessorConfigCall(config) == [k \in CallFields \cap Keys |-> Shows(config, k)]
ProcessorConfigWifiAP(config) == [k \in APFields \cap Keys |-> config[k]]
ProcessorConfigGateway(config) == [k \in GatewayFields \cap Keys |-> config[k]]
ProcessorConfigWLAN(config) == [k \in (UNION WLANFields) \cap Keys |-> config[k]]
ProcessorChangeMode(config) == [k \in ModeFields \cap Keys |-> Shows(config, k)]
\* send_msg_form_tmp, which nothing ever assigns.
ProcessorSendMessage == [k \in MessageFields |-> IF k = "wide" THEN "0" ELSE ""]

\* What the processor of a route answers; the other pages have no fields.
Processor(r, config) ==
    CASE r = "/cc" -> ProcessorConfigCall(config)
      [] r = "/ca" -> ProcessorConfigWifiAP(config)
      [] r = "/cg" -> ProcessorConfigGateway(config)
      [] r = "/cl" -> ProcessorConfigWLAN(config)
      [] r = "/cm" -> ProcessorChangeMode(config)
      [] r = "/sm" -> ProcessorSendMessage
      [] OTHER -> <<>>

\* A page with the fields of its forms and the error messages so far.
Filled(r, config, errors) ==
    LET answers == Processor(r, config) IN
    [at |-> r, error |-> errors,
     shows |-> [k \in UNION FormsOf[r] |->
                   IF k \in DOMAIN answers THEN answers[k] ELSE "wrong placeholder"]]

-----------------------------------------------------------------------------
(* What the handlers take from the parameters p.                           *)

\* getWebParam(): parameters that are there and are not refused.
Taken(fields, p) == { k \in fields \cap DOMAIN p : p[k] \in DOMAIN Reads[k] }

\* Slip: flash is not written.
StoreInRAM(fields, p) ==
    /\ cfg' = [k \in Keys |-> IF k \in fields THEN Reads[k][p[k]] ELSE cfg[k]]
    /\ UNCHANGED nvs

\* Slip: RAM takes the value that was read, flash the text as it was typed.
StoreTyped(fields, p) ==
    /\ cfg' = [k \in Keys |-> IF k \in fields THEN Reads[k][p[k]] ELSE cfg[k]]
    /\ nvs' = [k \in Keys |-> IF k \in fields THEN p[k] ELSE nvs[k]]

\* cfg is assigned and setPrefs... writes flash.
Store(fields, p) ==
    /\ cfg' = [k \in Keys |-> IF k \in fields THEN Reads[k][p[k]] ELSE cfg[k]]
    /\ nvs' = [k \in Keys |-> IF k \in fields THEN Reads[k][p[k]] ELSE nvs[k]]

RefusesCall(p) == "call" \in DOMAIN p /\ p["call"] \notin DOMAIN Reads["call"]

\* A refused call replaces whatever error there was.
handleRequestConfigCall(p) ==
    /\ Store(Taken(CallFields, p), p)
    /\ ErrorMsg' = IF RefusesCall(p) THEN {"call"} ELSE ErrorMsg
    /\ UNCHANGED TxMsgTo

handleRequestConfigAP(p) ==
    /\ Store(Taken(APFields, p), p)
    /\ UNCHANGED <<ErrorMsg, TxMsgTo>>

handleRequestConfigGateway(p) ==
    /\ Store(Taken(GatewayFields, p), p)
    /\ UNCHANGED <<ErrorMsg, TxMsgTo>>

\* A password is taken only beside the name of its network.
handleRequestConfigWLAN(p) ==
    /\ Store(Taken(UNION { n \in WLANFields : n \cap SSIDs \cap DOMAIN p # {} }, p), p)
    /\ UNCHANGED <<ErrorMsg, TxMsgTo>>

handleRequestChangeMode(p) ==
    /\ Store(Taken(ModeFields, p), p)
    /\ UNCHANGED <<ErrorMsg, TxMsgTo>>

\* Slip: an error replaces the one before it.
SendMessageAlone(p) ==
    /\ ErrorMsg' = IF {"to", "msg"} \subseteq Taken(MessageFields, p) THEN ErrorMsg ELSE {"message"}
    /\ TxMsgTo' = p["to"]
    /\ UNCHANGED <<cfg, nvs>>

\* A refused message is added to the errors; its receiver is kept all the
\* same.  Nothing is sent.
handleRequestSendMessage(p) ==
    /\ ErrorMsg' = IF {"to", "msg"} \subseteq Taken(MessageFields, p) THEN ErrorMsg
                   ELSE ErrorMsg \cup {"message"}
    /\ TxMsgTo' = p["to"]
    /\ UNCHANGED <<cfg, nvs>>

-----------------------------------------------------------------------------
\* A new device after its first setup(): it runs the defaults of ConfigInit(),
\* while flash holds what ConfigWriteInit() wrote.
Init ==
    /\ cfg = ReadDefault
    /\ nvs = Written
    /\ TxMsgTo = "" /\ ErrorMsg = {}
    /\ page = [b \in Browser |-> NoPage]
    /\ refused = [b \in Browser |-> FALSE]
    /\ submits = 0 /\ restarts = 0

\* A browser that is led to a route asks for it; else it asks for any.
Asks(b, r) == HasPage(b) \/ page[b] = NoPage \/ page[b] = LedTo(r)

\* A route without parameters.  (So are /ca and /cl answered, and so does /cm
\* go on, when the number of parameters is not two.)
Get(b, r) ==
    /\ Asks(b, r)
    /\ r # "/" \/ cfg["call"] # Unset
    /\ page' = [page EXCEPT ![b] = Filled(r, cfg, ErrorMsg)]
    /\ UNCHANGED <<cfg, nvs, TxMsgTo, ErrorMsg, refused, submits, restarts>>

\* "/": on a device without a call the wizard leads to the form of the call.
GetFirstRun(b) ==
    /\ Asks(b, "/")
    /\ cfg["call"] = Unset
    /\ page' = [page EXCEPT ![b] = LedTo("/cc")]
    /\ UNCHANGED <<cfg, nvs, TxMsgTo, ErrorMsg, refused, submits, restarts>>

\* b sends the form f of the page it shows, filled in as t.
Sends(b, r, f, t) ==
    /\ HasPage(b) /\ page[b].at = r
    /\ f \in FormsOf[r] /\ DOMAIN t = f
    /\ submits < MaxSubmits
    /\ submits' = submits + 1
    /\ refused' = [refused EXCEPT ![b] = r = "/cc" /\ RefusesCall(t)]
    /\ UNCHANGED restarts

\* Where the answer leads to.
Leads(b, r) == page' = [page EXCEPT ![b] = LedTo(r)]

\* Slip: the wizard's second page is left out.
SubmitCallToMain(b, f, t) ==
    /\ Sends(b, "/cc", f, t)
    /\ handleRequestConfigCall(t)
    /\ Leads(b, "/")

\* The wizard goes on to the access point while that has the first password.
SubmitCall(b, f, t) ==
    /\ Sends(b, "/cc", f, t)
    /\ handleRequestConfigCall(t)
    /\ Leads(b, IF cfg'["ap_pass"] = Password THEN "/ca" ELSE "/")

SubmitAP(b, f, t) ==
    /\ Sends(b, "/ca", f, t) /\ Cardinality(f) = 2
    /\ handleRequestConfigAP(t)
    /\ Leads(b, "/")

SubmitGateway(b, f, t) ==
    /\ Sends(b, "/cg", f, t)
    /\ handleRequestConfigGateway(t)
    /\ Leads(b, "/")

SubmitWLAN(b, f, t) ==
    /\ Sends(b, "/cl", f, t) /\ Cardinality(f) = 2
    /\ handleRequestConfigWLAN(t)
    /\ Leads(b, "/")

SubmitMode(b, f, t) ==
    /\ Sends(b, "/cm", f, t) /\ Cardinality(f) = 2
    /\ handleRequestChangeMode(t)
    /\ Leads(b, "/")

SubmitMessage(b, f, t) ==
    /\ Sends(b, "/sm", f, t)
    /\ handleRequestSendMessage(t)
    /\ Leads(b, "/")

Submit(b, f, t) ==
    \/ SubmitCall(b, f, t)
    \/ SubmitAP(b, f, t)
    \/ SubmitGateway(b, f, t)
    \/ SubmitWLAN(b, f, t)
    \/ SubmitMode(b, f, t)
    \/ SubmitMessage(b, f, t)

Inputs(b, k) == {page[b].shows[k]} \cup (IF k \in DOMAIN Menu THEN Offers(k) ELSE Typed[k])

\* The form f as it came.
AsShown(b, f) == [k \in f |-> page[b].shows[k]]

\* What b may send: the form as it came, or with one field edited (a bound; the
\* handlers take each field by itself).
Inputted(b, f) == {AsShown(b, f)} \cup
    UNION { { [AsShown(b, f) EXCEPT ![k] = v] : v \in Inputs(b, k) } : k \in f }

SubmitForm(b) ==
    /\ HasPage(b)
    /\ \E f \in FormsOf[page[b].at] : \E t \in Inputted(b, f) : Submit(b, f, t)

\* setup(): ConfigInit() and, without a call, ConfigWriteInit().
Setup ==
    LET read == [k \in Keys |-> IF k \in Loaded THEN nvs[k] ELSE Fresh[k]] IN
    /\ restarts < MaxRestarts
    /\ restarts' = restarts + 1
    /\ cfg' = read
    /\ nvs' = IF read["call"] = Unset THEN Written ELSE nvs
    /\ TxMsgTo' = "" /\ ErrorMsg' = {}
    /\ refused' = [b \in Browser |-> FALSE]
    /\ UNCHANGED submits

\* Power comes back; the browsers keep their pages.
Restart == Setup /\ UNCHANGED page

\* /reboot: the page it leads to is not served before the restart.
reboot(b) == HasPage(b) /\ Setup /\ page' = [page EXCEPT ![b] = NoPage]

Next ==
    \/ \E b \in Browser, r \in DOMAIN FormsOf : Get(b, r)
    \/ \E b \in Browser : GetFirstRun(b)
    \/ \E b \in Browser : SubmitForm(b)
    \/ Restart
    \/ \E b \in Browser : reboot(b)

Spec == Init /\ [][Next]_vars

-----------------------------------------------------------------------------

\* A number with more digits than the form has, a value the menu does not offer.
CannotShow(k) ==
    \/ k \in DOMAIN Unit /\ Rounded(cfg[k], Unit[k]) # cfg[k]
    \/ k \in DOMAIN Menu /\ cfg[k] \notin Offers(k)

UpToDate(b) == HasPage(b) /\ page[b].shows = Filled(page[b].at, cfg, {}).shows

\* A page that is sent back as it came changes nothing in RAM, except where the
\* page could not show the value: every field of every form is filled in by the
\* processor with what the handler of its route stores.
UntouchedKeeps ==
    [][\A b \in Browser : UpToDate(b) =>
          \A f \in FormsOf[page[b].at] : Submit(b, f, AsShown(b, f)) =>
              \A k \in Keys : cfg'[k] # cfg[k] => CannotShow(k)]_vars

\* What the handler accepted is what the next page shows, letter by letter but
\* for the case of the call, and what flash holds.
SubmittedIsShown ==
    [][\A b \in Browser : HasPage(b) =>
          \A f \in FormsOf[page[b].at] : \A t \in Inputted(b, f) :
              Submit(b, f, t) => \A k \in Taken(f, t) \cap Keys :
                  /\ Processor(page[b].at, cfg')[k] =
                        IF k \in DOMAIN Unit THEN Rounded(t[k], Unit[k]) ELSE Reads[k][t[k]]
                  /\ nvs'[k] = cfg'[k]]_vars

\* A restart of a device with a call changes what a form shows only where
\* nothing was stored since the factory values: these are not the values it ran.
RestartShowsStored ==
    [][Setup /\ cfg["call"] # Unset =>
          \A k \in Loaded : nvs[k] # Written[k] => Shows(cfg', k) = Shows(cfg, k)]_vars

\* APRSWebServer.cpp:125, "first run wizard": on the first run the call leads
\* on to the form of the access point, until it has a password of its own.
WizardAsksAP ==
    [][\A b \in Browser : HasPage(b) => \A f \in FormsOf[page[b].at] :
          \A t \in Inputted(b, f) :
              SubmitCall(b, f, t) /\ restarts = 0 /\ nvs'["ap_pass"] = Written["ap_pass"] =>
                  page'[b] = LedTo("/ca")]_vars

\* Who sent a call that is refused finds the error on the page he is led to and
\* on every page after it, over the wizard's redirects and whatever others send
\* meanwhile, until the device restarts.
RefusalIsTold ==
    \A b \in Browser : refused[b] /\ HasPage(b) => "call" \in page[b].error
=============================================================================
