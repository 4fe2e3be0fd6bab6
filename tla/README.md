# A TLA+ model of sLoRaAPRS

sLoRaAPRS is the firmware of a LoRa APRS tracker (ESP32, TTGO T-Beam): a push
button with a menu, an OLED that turns its pages, a web server with forms and a
live GPS page, a configuration kept in flash, GPS, weather sensor and radio. Beside
it stands a second program, the iGate, with a `setup()` and a `loop()` of its own.
This directory holds TLA+ models of its stateful parts, the TLC runs that check
them, and TLAPS proofs of every safety property and action property the passing runs check. Paths below are relative to `src/`
unless a module is named; `lib/sLoRaAPRS/` is left out of file names.

    tlc -workers 2 -config MCButtonHolds.cfg ButtonHolds     # one run
    tlapm ButtonProofs.tla                                   # one proof module

## 1. The system

`src/main.cpp:setup()` loads the configuration, brings up file system, I2C,
radio, WiFi and web server one after the other, creates the menu's first state
and starts three FreeRTOS tasks; `loop()` sleeps for ever. What runs then:

| who | runs | reads and writes |
|---|---|---|
| task `xbutton_tick` | `xOneButton::tick()`, once per millisecond; the click callbacks and the menu's handlers run inside it | the button's fields, the menu's state object, display flags, the display, `cfg.call` |
| task `xws_tick` | `APRSWebServerTick()` every 200 ms | `globalClient`, `cfg` |
| task `tracker_display_CB` (core 1) | next display page every 5 s | the display, `cfg` |
| async_tcp (library) | request handlers, `onWsEvent()` | `cfg`, flash, `globalClient` |
| idle hook | `setGPSData()` | `cfg` |
| radio interrupt | `onReceive()` | `isMessage` |

There is not one lock in the program. Components, what each keeps, and what
makes it correct:

| component | state | operations | correct when |
|---|---|---|---|
| button (`xOneButton.cpp`) | `_state`, `_startTime`, `_stopTime`, `_isLongPressed` | `ticker(level)`, callbacks | each answer uses presses of its own; bouncing is not a click; a press that was taken is answered; over every wrap of the tick |
| menu (`ButtonState.cpp`) | the state object with its item, cursor and copy of the call; `display_change`, `display_update` | single, double and long click per state | flags fit the state; a long press leads out |
| dispatch (`Scheduler.cpp`) | `button_state` | callbacks to handlers | no answer is lost, also over aborts |
| configuration (`Config.cpp`) | NVS, `cfg_q`, global `cfg` | load, factory write, get and set | RAM and flash agree; a crash at any step can be repaired at the next start |
| web forms (`APRSWebServer.cpp`) | `cfg`, flash, the pages browsers keep open | one route, processor and handler per form | a device can always be given a call; a form ends; a form shows what is stored and stores what it shows |
| GPS push (`APRSWebServer.cpp`) | `globalClient`, `last` | connect, disconnect, tick | the pointer never stands on a client that is gone; its client is served |
| display (`TrackerDisplay.cpp`) | mode; the display's cursor, text size, buffer | pages, menu lines | what is shown is a page, and every page is shown |
| radio (`LoRaHandler.cpp`) | `isMessage`, `isSend`, `msg_wait`; the chip's FIFO and mode | `tick`, `processMessage`, `sendMessage`, the interrupt | a message is whole, none is lost in a quiet moment, a transmission is not cut off, afterwards it listens again |
| GPS data (`GPSSensor.cpp`) | the parser; time, date and position in `cfg` | the hook's copying, the push's reading | a page hangs together; the newest position is pushed; what is shown was measured |
| iGate (`iGate.cpp`) | `xQueuesend`, `xQueuereceive`, the connection | `SendToServer`, `clienttcp`, the callbacks, `loop` | messages keep their order and none is sent twice, nor does a segment begin two printed texts; what is queued while the connection is up is written |
| messages (`APRS_MSG.cpp`) | none | conversions and texts | there and back is the same; the text says what was measured |
| WiFi, BME280, I2C, SPIFFS, AXP20x | see section 7 | | |

The hard behaviours, listed with their lines under "hazards" in PROJECT.json:
ticks that wrap, gestures cut by aborts, power loss between two puts, values
that are for half a second in RAM only, a pointer read six times without a
lock, two tasks drawing on one object, pages filled in long before they are sent
back, one text of errors for all browsers, words of a position read while they
are copied, queues that refuse what finds no room, a packet that arrives while
another is read, an end of transmission that is only estimated.

## 2. Modules

| module | models | kind |
|---|---|---|
| `Gestures` | what the callbacks of the button promise | abstract specification |
| `XOneButton` | `xOneButton.cpp` | detailed, refines `Gestures` |
| `ButtonHolds` | `XOneButton` beside an observer of true time | observer; the button's main run uses it |
| `ButtonStates` | `ButtonState.cpp`, flags of `Scheduler.h` | detailed |
| `ButtonTask` | the task: button, dispatch, menu, aborts, restarts | composition, refines `Gestures` |
| `ConfigKeys` | tables: keys, defaults, orders, forms | constants |
| `DurableConfig` | what flash promises over crashes | abstract specification |
| `ConfigStore` | `Config.cpp`, `setup()`, the forms | detailed, refines `DurableConfig` |
| `WebForms` | routes, processors, handlers, wizard and errors as browsers see them | detailed |
| `WebSocketPush` | `onWsEvent()` and the push task | detailed |
| `DisplayPages` | `TrackerDisplay.cpp`, `tracker_display_CB()` | detailed |
| `LoRaAirtime` | the estimate of `sendMessage()` and the true time on air | pure functions |
| `LoRaRadio` | `LoRaHandler.cpp` in its loop, and the chip as it uses it | detailed |
| `GpsSnapshot` | `setGPSData()` and `sendGPSDataJson()`, word by word | detailed |
| `LossyFifo` | what a direction of the iGate promises | abstract specification |
| `IGate` | `iGate.cpp` with its tasks and callbacks | detailed, refines `LossyFifo` in both directions |
| `AprsMsg` | `APRS_MSG.cpp` | pure functions |
| `ButtonProofs` | theorems about `XOneButton`, `ButtonHolds`, `ButtonStates`, `ButtonTask` | proofs |
| `ConfigStoreProofs`, `WebFormsProofs`, `WebSocketPushProofs`, `DisplayPagesProofs`, `GpsSnapshotProofs`, `IGateProofs` | theorems about the module they are named for | proofs |
| `LoRaProofs` | theorems about `LoRaRadio`, `LoRaAirtime`, `AprsMsg` | proofs |
| `MC...` | instances for TLC | |

Definitions named in a comment "Slip: ..." are deliberately wrong variants of
the definition that follows them. No specification uses them; they serve to show
that a property notices such a slip (PROJECT.json "mutants").

### XOneButton

One action per branch of `ticker()`, named for what the branch means; the action
also does what `tick()` does around it (time passes, the pin is sampled), so that
a step reads "some ticks later the pin is seen up or down". The level between two
samples is invisible to the code and to the model. `now` is the FreeRTOS tick
modulo `TickModulus` (2^32), widened to `uint64_t`, whence `Elapsed` modulo
`TimeModulus`. `_state = 0` after a callback is an action of its own (`Return`)
because time passes in the callback (a handler that draws or stores takes up to
half a second) and other tasks run. Branches for functions nobody attaches
(`attachPress`, ...) do nothing and are left out.

### ButtonStates and ButtonTask

`button_state` is the class of the current state object; `setState` makes the
fields those of a new one. Characters are positions in `select_list_call`, with
one value for NUL and one for anything unlisted: that is all the selector's
search tells apart. `call_config_timer` is never created, so
`xTimerStop(NULL, 0)` aborts (`configASSERT`, `include/sdkconfig.h:275`): both
handlers of the selector that begin with it are an `Abort`, followed by
`Restart`. `ButtonTask` joins the two: `callback` of the button selects the
handler, the handler's step and the return of the callback are one step when
the handler comes back, and `Reboot` starts button and menu anew when not.

### ConfigStore

`nvs` is flash, `cfg` the global in RAM, `local` the `Config` of `ConfigInit()`
and then the copy in `cfg_q`, from which `setup()` also takes the WiFi mode it
acts on (no form can run before). `ConfigWriteInit()` is one step per put, from
the *global* `cfg` (not from the one just loaded), as in the code. A form is the
sequence of keys its handler stores; each key is skipped (absent or refused) or
stored in two steps, RAM first or flash first as the handler does it, with the
comparison of `setPrefs...` to the stored value, which a missing key answers
with a fixed value. `PowerCycle` may come between any two steps and stands for
power loss, panic and `reboot()`. Its assumption is that one put of NVS is atomic,
which the library promises. The `String`s inside the `Config` that goes through
`cfg_q` are freed when `ConfigInit()` returns (`Config.cpp:95`); the model takes
the copy for intact, which is what the device shows in practice and what the
code relies on.

### WebForms

The same forms from the other side, one operator per `Processor...` and
`handleRequest...` function and one action per route with parameters. `Shows` is
what a field has in it when the page is sent: a menu without the stored value has
nothing selected and a browser then takes its first entry, a number has six
decimals. A `Submit...` sends all fields of one form of the page, which may have
been filled in before another browser stored or before a restart; each field is
stored if its handler accepts it. `TablesAssumption` says what is common to all tables of
such a server: a form's fields belong to its route, what a handler makes of a value it
makes of it again, menus and numbers are taken as they are. A network's password is taken only beside
its name, and `/ca`, `/cl` and `/cm` only take forms of two fields.

The answer leads the browser on (`LedTo`), and only when it asks for that route is
the page filled in. `ErrorMsg` is one for all browsers: `/cc` replaces it, `/sm`
adds to it, nothing but a restart clears it, and every page shows it. The message form
stores no more than its receiver (`TxMsgTo`). The library handles one request at
a time, so a handler is one step here; its steps, and power loss between them,
are those of `ConfigStore`. A restart, by power or by `/reboot`, comes between
requests.

### WebSocketPush

Every read of `globalClient` is a step (`Read`) and every use of what was read
is another, so the web server's task comes in between; where the compiler may
join a read and a test (`globalClient != NULL && globalClient->status()`), both
outcomes are allowed. `clients` are the library's, in the order of connection
(`Unlist` takes one out wherever it stands);
`dying` is a client whose destructor runs: it sends the disconnect event and
frees the object. Using NULL panics; using a freed client may panic or answer
anything. `Due` is `i > last + 1000` in 32 bits.

### DisplayPages

A page is the sequence of drawing calls of its `write...` function; the two
tasks take calls in any interleaving. What is drawn is a set of texts with row and size, as the
cursor and size of the shared object were at that moment. `Picture(p)` is what
the page is meant to show, read off its calls and not drawn: each text after the
last clear, at the place and in the size set by the call before it. `clean` says whether the page shown was drawn without
a call of the other task in between.

### LoRaRadio

`tick()` and `sendMessage()` have no caller in this version: `setup()` calls
`begin()` and the interrupt is attached, no more. The model puts them in the loop
they were written for, that of `attic/main_old.cpp`: tick, then perhaps send.
`processMessage()` takes two steps (`ReadHead`, `ReadPayload`), since a packet
may come between them, and so does `sendMessage()` (up to the display's
`writeTX()`, then `Transmit`). The chip is modelled from how the code uses it:
one FIFO that a packet or `beginPacket()` takes over, an interrupt that sets
`isMessage`, a transmission that takes the time on air `LoRaAirtime` computes
and that `receive()` cuts off. `msg_wait` is a 32-bit sum in a 64-bit variable.
One packet follows another after its time on air at the earliest (`PacketGap`, that
of the shortest packet), in which the instance's loop comes round twice
(`FastLoop`, `2 * MaxLag < PacketGap`); a packet that begins while the chip already receives one is lost
in the air and is not modelled.

### GpsSnapshot

When a sentence is complete the parser takes its fields over at once (`encode`); the
idle hook then copies what is valid into `cfg`, one word per step, and
`sendGPSDataJson()` reads `cfg`, one word per step, in a task that may run at
any moment of the copying. A double is two words. A word holds the number of
the sentence that measured it, so that a page shows which sentences it is made of.
Only the sentences `RMC` and `GGA` carry fields the parser uses, with a fix or
without. The display reads the same data, but its task preempts the idle task
of its core and shows a page while the hook stands still. The push reads the words
in the order in which the code names them; C++ leaves open in which order the
arguments of one `snprintf()` are read, so `NewestPushed` and `PageHangsTogether` in
the run are about a build that keeps it. The theorem `PagesHangTogether` is for every order of the
words that copying and push share.

### IGate

The text of a message is its number. `value` (in `SendToServer()`), `missatge` (in
`clienttcp`) and `data` (in `onData()`) are sequences of at most one item, so
that what is on its way is their concatenation with the queues (`Outgoing`, `Incoming`): that is the
refinement of `LossyFifo`, once for each direction. There, a step may lose a
stretch of what is on its way; what comes out is `sent`, or `printed`. A full queue refuses after
its wait, `Write` takes as much as TCP has room for and nobody looks at the
result. The callbacks of async_tcp are taken apart where they wait: two
seconds between login and position, and at the full receive queue. After `Close`
nobody connects again.

What the server sends arrives in segments of any length: a line, several, a part of one.
`onData()` copies it by its length into `subbuff` and then queues not that but
128 bytes from `data`. So an item (`Copied`) has the beginning of a segment. The rest
of a longer segment is lost, and behind the end of a shorter one stands what is in memory
there, which `loop()` prints up to the first NUL: `behind` is nothing that can be
printed (0) or a part of any segment that has arrived, chosen anew for each item.
`DownlinkIsFifo` is about the segments that texts begin with (`Beginnings`).
It does not say that a text ends where its segment does, because it need not.

### AprsMsg

Whole numbers stand for the doubles: each converter takes and returns a whole
number, a position is counted in hundredths of a second, humidity and
pressure in tenths. `RoundDiv` is C's `round()`. A double outside the range
of its cast is any value of the type (`TemperatureGivenUpTo53` and `PressureNever`
are about those inside and those outside). `snprintf(rv, sizeof(rv), ...)` gets
the size of a pointer, so `Printed` keeps three characters. `computeWXField()` gives one
less than that and keeps two: the text has its temperature and pressure (`Fahrenheit`,
`Hectopascal`) only before it is cut.

## 3. Runs

| run | module | checks | states |
|---|---|---|---|
| `button` | `ButtonHolds` | types; `AnswersFitState`; `Debounced`; `LongPressHeld`, `ClickHeld` (times measured truly, except over a wrap); refinement of `Gestures`; `PressAnswered`; `ReturnsToRest` | 10 575 |
| `two_click` | `MCButtonStates` | `TwoClickTakes` fails (finding) | |
| `button_task` | `MCButtonTask` | `FlagsFitState`; `SelectorMarksCursor`; refinement of `Gestures`; `LongClickExits`; `AnswerTaken` | 134 024 |
| `config_store` | `MCConfigStore` | types; `FlashComplete`; `RunsWhatIsStored`; `UnconfiguredCanBeConfigured`; `WriteInitRepeats`; refinement of `DurableConfig`; `ComesUp` | 340 857 |
| `config_server1` | `MCConfigStore` | `RunsEveryStoredKey` fails (finding) | |
| `web_forms` | `MCWebForms` | `UntouchedKeeps`; `SubmittedIsShown`; `RestartShowsStored`; `WizardAsksAP`; `RefusalIsTold` | 79 666 |
| `web_push` | `MCWebSocketPush` | `PointsToListed`; `PanicNeedsDisconnect`; `Pushed` | 564 426 |
| `gps` | `MCGpsSnapshot` | `PageHangsTogether`; `NewestPushed` | 397 966 |
| `gps_position` | `MCGpsSnapshot` | `ShowsWhatWasMeasured` fails (finding) | |
| `display` | `MCDisplayPages` | `CleanUnlessOverlapped`; `Recovers`; `AllPagesShown` | 334 849 |
| `lora_radio` | `MCLoRaRadio` | `MessageWhole`; `NeverCut`; `NoneLost`; `ListensAgain` | 936 300 |
| `igate` | `MCIGate` | refinement of `LossyFifo` by both directions (`UplinkIsFifo`, `DownlinkIsFifo`); `SentWhileUp` | 472 144 |

Bounds and why they are enough:

* **Button.** Thresholds 2, 5 and 8 keep the order of 50, 600 and 1000 and leave
  room on either side of each comparison; samples come 1 or 2 ticks apart, so a
  threshold can be hit or stepped over; callbacks take 0 to 3 ticks; 14 tick
  values put a wrap into every phase of a gesture. The observer counts to one
  more than the longest threshold. The proofs need none of this.
* **Menu.** Three listed characters (the last is the one the two loops could
  disagree about), a call with unlisted characters, a short and an empty one; 4 positions.
* **Task.** Smaller thresholds (1, 3, 4) on 8 ticks; the menu's state multiplies.
* **Configuration.** A key of each kind: the call, both modes (flash first,
  number), an extension (RAM first), the symbol (flash first, string) and the
  server that is never loaded; "CHANGEME" is among the calls one can submit; two power losses, so that a
  recovery can be interrupted again. Deadlock is allowed: a device with
  WiFi off has no web server, and after the last power loss of the bound nothing
  more happens.
* **Forms.** A form of every route and a key of each kind: text read in upper case,
  menus, a number with hidden digits, the wizard's password, the server that is not loaded, a
  network with its password. Two browsers, which are symmetric, so that a page can
  be older than what another stored; two submissions and one restart; one field
  is edited per submission, which loses nothing as each field is handled by itself.
* **Push.** Three clients over a limit of two, an interval of 3 and a clock of
  10 values: pushes happen before, over and after the wrap.
* **Display.** One page of the menu at any moment of any page of the display;
  the menu's pages make the same calls, only with other texts.
* **Radio.** Texts of 3 and 22 characters, with an estimate that is too short and
  one that is long enough; a loop late by up to 160 ms in steps of 80; a clock
  of 2000 ms, so that estimates end before, at and after its wrap.
* **GPS.** One word of a group stands for the others, only the latitude keeps both
  of its words; three sentences, so that a page can hold words of the first while
  the third is copied. The words stay in the order of the code.
* **iGate.** A queue of two to the server and of one from it, three messages and
  three segments: both queues fill up, and a text may end with a part of any
  of the three. TCP has room for one text and a half, so a
  text can be cut. Deadlock is allowed: when the connection has ended and
  all messages of the bound are given, nothing more happens.

## 4. Fairness

* `XOneButton`: WF of the task (priority 2, `while (1)`, its only wait is one
  tick), and SF of "a sample sees the button up after it has bounced": nobody
  holds a button for ever, and a release lasts longer than one sample. A
  callback returns because the handlers have no unbounded wait (the abort is a
  separate case in `ButtonTask`).
* `ButtonTask`: the same, and the chip restarts after an abort (panic handler).
* `ConfigStore`: WF of `setup()` and of a request's handler. `Connect` is part
  of it: `WifiConnect()` waits without limit, so `ComesUp` is about a network
  that is there. Nobody has to submit a form.
* `WebSocketPush`: WF of the push task and of the restart; none for clients.
* `WebForms`: none; it has no liveness property.
* `GpsSnapshot`: WF of the idle hook, since every other task sleeps in each of
  its rounds, and of the push, which comes once a second while a browser is
  connected; none for sentences.
* `IGate`: WF of the wait at the queue (it ends after ten ticks), of `clienttcp`,
  of the callbacks' steps and of `loop()`: each sleeps or waits in every round.
  None for the server and the connection.
* `LoRaRadio`: WF of the loop and of time (which is also the chip's); none for
  packets or for sending.
* `DisplayPages`: WF of the display task and of each task's drawing; none for clicks.

## 5. What the checks show

The button never answers a press twice and never drops one that it took; the
menu's flags are right on every path; an interrupted factory write is repeated
because the call in flash stays unset until `setup()` is past it; a value equal to what a
missing key reads as is never lost, because no form runs before flash is
complete; a page is right whatever the other task left in the shared object. The
unlocked pointer is harmless as long as nobody disconnects during a push, and
dangerous exactly then.

A form brings back what it was given, over restarts too, and what an untouched
page changes is only what it had no means to show. The radio reads whole
messages, and misses none, as long as its loop comes round twice in the time of
a packet and it does not send over one that came in.

A refused call is told to who sent it, although its error is kept in one
place for all, because nothing but a restart clears it; the price is that
everyone reads it on every page. A page of GPS data is at most one update apart
in itself, although nothing keeps the hook and the push from running into each
other, because both go through the words in the same order. The iGate loses much,
but what it sends is in order and nothing is sent twice, and so are the beginnings of
what it prints. Behind them a printed text may repeat what was printed before.

Three runs show where the code departs from its own texts (PROJECT.json
"findings"): the double click that should take the call aborts the firmware; the
second APRS server is never loaded; and with a date but no fix the page
shows a position that nobody measured.

Other limits of the code show in the conditions of the properties and in the theorems. A press
over the wrap of the tick is a long press at once (`wrapped` in
`LongPressHeld`). A spike of one sample after a click makes it a double click:
`Debounced` is about the time from its beginning to the sample that ends the
gesture, not about how long it was held. `sendMessage()` waits too short for texts of 3, 4, 8, 13 and 18
characters (theorem `EstimateIsShort`; `NeverCut` excepts them). `test/test_aprs_msg.cpp:50` and
`:52` expect `f2c(0) = -17` and `f2c(123) = 50`, where the code rounds to -18
and 51; `AprsMsg` rounds as the code does.

Conditions in the properties are limits of the code: `wrapped` in `ButtonHolds`
and `LoRaRadio`, `NearWrap` in `Pushed` (close to the wrap of `millis()` the window
for the next push can be narrower than the 200 ms of the task; missed, there is
no push for 49.7 days), `lost` in `PanicNeedsDisconnect`, `alone` in
`CleanUnlessOverlapped`, `calm` in `PageHangsTogether`, a closed connection or a
full TCP in `SentWhileUp`, `Loaded` in `RunsWhatIsStored`, `CannotShow` in `UntouchedKeeps`, and in
`WizardAsksAP` the first start: `ConfigWriteInit()` stores the empty password of the
global `cfg`, so after a restart the wizard's test for the default password
fails and it ends with the call.

## 6. Proofs

Every invariant, action property and refinement that a passing run checks is a
theorem of the module's specification, for every value of its constants (with one
condition, `FastLoop` below). Assumptions are the
named ASSUMEs of the modules, which TLC evaluates in the runs; a theorem that needs
more says so as a hypothesis. Each proof has the same course: an inductive
invariant, one step per action, and the property from it.

**ButtonProofs**, the machine (any thresholds, any width of the tick, any lag):
`TypeCorrect`, `AnswersCorrect`, `DebouncedAlways`, `Refinement`. The inductive
invariant is `TypeOK /\ AnswersFitState /\ Debounced`. Each part needs another:
`isLongPressed <=> state = 6` needs `callback` tied to `state` (or `Return`
could leave it set), and `Debounced` needs the types to know that a difference
taken after the wrap is still large. The refinement takes one step per action:
bouncing maps to a press that is dropped, the second press to one more owed, an
answer to its cost.

*The observer:* `LongPressesHeld`, `ClicksHeld`. Neither is inductive: when the
machine sees the threshold passed, nothing in the property says what the
observer measured on the way. `FirstPressSeen` does: without a wrap the observer has seen
the first press at least as long as the difference of the machine's two times.
`FirstPressSafe` carries that a debounced press went before into the wait for the second.

*The menu:* `MenuTypeCorrect`, `FlagsAlwaysFit`, `CursorMarked`, for any list and
any call. `SelectorMarksCursor` is about two searches of which one is one entry
short; `FindFinds` says where they agree.

*The task:* `TaskRefinement`, `TaskFlagsFit`, `TaskCursorMarked`. A step of the task
is a step of the button, of the menu or of both, so both invariants carry
over. What has to be added is `AbortedInHandler`, the chip is down only in the
middle of a double click or the end of a long press, and so a restart is the end of an
answer that was given and nothing is left owed.

**ConfigStoreProofs** (any keys, forms, values and number of power losses):
`TypeCorrect`, `FlashIsComplete`, `RunIsStored`, `CanBeConfigured`,
`InterruptedWriteRepeats`, `Refinement`. The inductive invariant ties the number
of puts done to which keys are in flash (`WriteInv`), `local` to flash between
load and publish (`PublishInv`), `cfg` to flash when running (`RunInv`) and a
store half done to its two places (`StoreInv`). `FlashComplete` alone is not
inductive: that a store finds all keys present follows from how the device
came up, and that it came up complete from the order of the puts.

**WebFormsProofs** (any browsers, keys, forms, menus and number of restarts, for tables of
which `TablesAssumption` holds): `RefusalTold`, `RestartKeepsStored`, `WizardGoesOn`,
`SubmittedShows`, `UntouchedStays`. The invariant `FInv` is about what is left
over from earlier requests: a page, however old, is one the server has and has an
entry selected in each menu (`Served`, `Selected`); a stored value reads the same
again (`AllSettled`); RAM and flash differ only where flash has its factory value (`Stored`);
the refused browser has the error on its page (`Told`). Four of the
five are action properties: the theorem shows that every step from a state of
the invariant has the property.

**WebSocketPushProofs** (any clients, limit, interval and clock): `TypeCorrect`,
`PointerStands`, `OnlyDisconnectPanics`. `TickHolds` is the strengthening: as
long as nobody disconnected, the pointer is set wherever the tick no longer tests
it, and the client read from it is still listed, even when the pointer
meanwhile stands on another. `WithoutOne` says that leaving the list takes nobody else out.

**DisplayPagesProofs** (any pages of the menu, and any number of them): `CleanPages`.
`AloneDrawn` says for a page half drawn what `CleanUnlessOverlapped` says for one shown: the
buffer has what the page is meant to have up to its last call. That holds
because of how pages are made (`PagesArePages`): each clears first, sets each
text's place just before it, and shows with its last call.

**LoRaProofs**, the radio (any clock, texts, lags and number of pieces of a packet):
`TypeCorrect`; `PacketsWhole` and `PacketsKept` under `FastLoop`, which the instance has and nothing
in the code guarantees; `NothingCut` without it. The
invariants are about time: how old an unread packet can be at each
place of the loop (`Timely`) and where it has been read up to (`Kept`); and that what is left
of a transmission and the time since the call are together no more than air time
and drawing, unless the sum wrapped (`InTime`).

*The estimate* (every length of text): `EstimateIsEnough`, the wait covers the
time on air for every length outside `TooLong`, and `EstimateIsShort`, it does not
for those in it: 3, 4, 8, 13 and 18. `SymbolGroups` solves the rounding of the
payload's symbols. 4 was found by the proof; the run has only the lengths 3 and 22. Both
together, with `TrueAir` (the air times of the instance are those of the formula):
`OnlyShortCut`, a text with 20 characters and one more for each 2.232 ms that drawing
takes is not cut, unless the sum in `msg_wait` wrapped. `writeTX()` draws between the
call and the transmission, so other short texts whose margin is below the drawing
time are cut too.

*The messages* (all whole numbers): `CelsiusAndBack`, `MetersAndBack`,
`MillimetersAndBack` and `MilesAndBack`, each way over the finer unit and back;
`ReadShort` and `ReadInOrder` about positions, which are written with seconds
where APRS reads hundredths of a minute: never ahead, less than 0.41 minutes
behind, and in order; `LongitudeIsCut`, `LatitudeIsCut` and `HemisphereIsLost`,
what three characters leave of them; `WeatherIsLost`, that the weather's text is always two
dots; `HumidityTakesThree`, `TemperatureGivenUpTo53` and `PressureNever`, what its format
is given, which would be wrong also with room for it. The rounding is unfolded
to linear arithmetic; `Parts` takes a position apart and `CutInFirst` and
`CutAll` the texts, so that no theorem needs more than its own numbers.

**GpsSnapshotProofs** (any choice and order of words, any number of sentences):
`TypeCorrect`, `PagesHangTogether`. The invariant says of each word of `cfg`
that it is as the last sentence left it if the hook has passed it, and as the one before did if
not (`Copied`), and of each word on a page that those after it are no older
than the sentence before its own (`PageOrdered`), which is where the common order of the words
comes in. `Grows` carries it through the history `heard`.

**IGateProofs** (any length of the queues, any size of text and buffer):
`TypeCorrect`, `Uplink`, `Downlink`: each step of `IGate` is a step of
`LossyFifo` in each direction, with the types as invariant (what a callback holds
is at most one item). `Begin`, `BeginFew`, `BeginBoth` and `BeginHead` carry concatenations over to
what their items begin with. `Three`, `Stretch` and `InFront` are about where in a
concatenation an item comes, goes or is lost. `FifoKeepsOrder` is proved of `LossyFifo`
by itself, and with it `UplinkInOrder` and `DownlinkInOrder`: what has been sent, or printed texts begin with,
and what is on its way is in order, and nothing is there twice.

Only model-checked: the liveness properties `PressAnswered`, `ReturnsToRest`,
`LongClickExits`, `AnswerTaken`, `ComesUp`, `Pushed`, `NewestPushed`, `Recovers`,
`AllPagesShown`, `ListensAgain` and `SentWhileUp`, since fairness and ENABLED are out of the
prover's reach; and the three properties that fail.

## 7. Not modelled

* Radio: the choice of frequency and IQ mode, and texts over 255 characters
  (the counter is a `uint8_t`; the old callers' buffers are shorter).
* GPS: the parser (a library), the distance from the last position, which
  nothing uses, and characters lost when the idle task gets too little time.
* `APRS_MSG`: `computeTrackInfo()`, and of the weather text the sensor's name.
* BME280, I2C scanner, SPIFFS, AXP20x: I/O during `setup()`.
* WiFi: only that `setup()` waits for it; the access point and its address on
  the display are I/O.
* Web: the files and the script with the server's address, the table of the
  system information (27 rows read as 33), the debug output of `showRequest()`,
  the nine entries the extension's menu reads behind its array (undefined, and
  sent back only if chosen).
* `StateConfigWiFi`, `StateConfigRun`, `kino()`,
  `writeTX()`, `reset()`: never reached. `attic/`: not built.

## 8. Plan

Done, in this order, the part every user touches first: button, menu, their
task; configuration with its crashes; the push; the display; the radio; the
forms with every route; the GPS data; the iGate; the conversions. Then the proofs, each
from a property a run checks, until no safety property was without one.

Left:

1. More lemmas about what liveness rests on and is not itself temporal: that the
   button's machine in each state has a step towards an answer, that the loop of the radio
   comes back to `setReciveMode()` with nothing but time.
2. A model of `setup()` with its tasks, menu and display in one composition,
   which would replace `button_task` and `display`; the two refinements and
   the two invariants of its parts are proved already and would carry over.
