----------------------------- MODULE XOneButton -----------------------------
(***************************************************************************)
(* The push button: class xOneButton (lib/sLoRaAPRS/xOneButton.cpp), run   *)
(* by the task xbutton_tick.  tick() loops for ever: read the pin, call    *)
(* ticker(level), delay one tick.  ticker() is a machine over _state 0, 1, *)
(* 2, 3 and 6 that compares the current tick with _startTime and _stopTime *)
(* and calls the functions main.cpp attached (click, double click, release *)
(* of a long press).                                                       *)
(*                                                                         *)
(* Time is the FreeRTOS tick, a counter modulo TickModulus (2^32) that     *)
(* ticker() zero-extends to uint64_t: a difference that crosses the wrap   *)
(* is taken modulo TimeModulus (2^64).  The level of the pin between two   *)
(* samples is invisible to the code, so a step is "d ticks later the pin   *)
(* is sampled".  A callback runs to its end before _state returns to 0, so *)
(* it is a step of its own: time passes in it, and no sample is taken.     *)
(***************************************************************************)
EXTENDS Integers

CONSTANTS
    DebounceTicks,   \* _debounceTicks
    ClickTicks,      \* _clickTicks
    PressTicks,      \* _pressTicks
    TickModulus,     \* number of values of TickType_t
    TimeModulus,     \* number of values of uint64_t
    MaxLag,          \* bound: the most ticks between two samples
    MaxCallback,     \* bound: the most ticks a callback takes
    DoubleAttached   \* whether a double click function is attached

ASSUME TicksAssumption ==
    /\ DebounceTicks \in Nat /\ ClickTicks \in Nat /\ PressTicks \in Nat
    /\ DoubleAttached \in BOOLEAN

ASSUME ClockAssumption ==
    /\ TickModulus \in Nat /\ TimeModulus \in Nat
    /\ MaxLag \in Nat /\ MaxCallback \in Nat
    /\ 0 < MaxLag /\ MaxLag < TickModulus /\ MaxCallback < TickModulus
    /\ TickModulus < TimeModulus

VARIABLES
    now,             \* xTaskGetTickCount()
    level,           \* the level ticker() was last called with (pressed)
    state,           \* _state
    startTime,       \* _startTime
    stopTime,        \* _stopTime
    isLongPressed,   \* _isLongPressed
    callback         \* the attached function that is running, or "none"

vars == <<now, level, state, startTime, stopTime, isLongPressed, callback>>

Answers == {"click", "doubleClick", "longPressStop"}
Ticks == 0 .. TickModulus - 1

\* The tick counter d ticks after t.
Later(t, d) == IF t + d < TickModulus THEN t + d ELSE t + d - TickModulus

\* The uint64_t difference t - since of two zero-extended ticks.
Elapsed(since, t) == IF since <= t THEN t - since ELSE t - since + TimeModulus

-----------------------------------------------------------------------------
Init ==
    /\ now = 0
    /\ level = FALSE
    /\ state = 0
    /\ startTime = 0
    /\ stopTime = 0
    /\ isLongPressed = FALSE
    /\ callback = "none"

\* tick(): some ticks after the last call, ticker() is called with the level.
Sample(active) ==
    /\ callback = "none"
    /\ level' = active
    /\ \E d \in 1 .. MaxLag : now' = Later(now, d)

\* _state 0: waiting for the pin to be pressed.
Rest ==
    /\ state = 0
    /\ Sample(FALSE)
    /\ UNCHANGED <<state, startTime, stopTime, isLongPressed, callback>>

PressDown ==
    /\ state = 0
    /\ Sample(TRUE)
    /\ state' = 1
    /\ startTime' = now'
    /\ UNCHANGED <<stopTime, isLongPressed, callback>>

\* _state 1: released too quickly, taken for bouncing.
Bounce ==
    /\ state = 1
    /\ Sample(FALSE)
    /\ Elapsed(startTime, now') < DebounceTicks
    /\ state' = 0
    /\ UNCHANGED <<startTime, stopTime, isLongPressed, callback>>

\* Slip: no debouncing of the release.
ReleaseFirstAtOnce ==
    /\ state = 1
    /\ Sample(FALSE)
    /\ state' = 2
    /\ stopTime' = now'
    /\ UNCHANGED <<startTime, isLongPressed, callback>>

ReleaseFirst ==
    /\ state = 1
    /\ Sample(FALSE)
    /\ Elapsed(startTime, now') >= DebounceTicks
    /\ state' = 2
    /\ stopTime' = now'
    /\ UNCHANGED <<startTime, isLongPressed, callback>>

\* Slip: >= for >.
LongPressStartAtLimit ==
    /\ state = 1
    /\ Sample(TRUE)
    /\ Elapsed(startTime, now') >= PressTicks
    /\ state' = 6
    /\ stopTime' = now'
    /\ isLongPressed' = TRUE
    /\ UNCHANGED <<startTime, callback>>

LongPressStart ==
    /\ state = 1
    /\ Sample(TRUE)
    /\ Elapsed(startTime, now') > PressTicks
    /\ state' = 6
    /\ stopTime' = now'
    /\ isLongPressed' = TRUE
    /\ UNCHANGED <<startTime, callback>>

HoldFirst ==
    /\ state = 1
    /\ Sample(TRUE)
    /\ Elapsed(startTime, now') <= PressTicks
    /\ UNCHANGED <<state, startTime, stopTime, isLongPressed, callback>>

\* Slip: waits for a second press without a limit.
ClickTimeEndless == ~DoubleAttached

\* _state 2: a second press or the end of the click time.
ClickTimeOver == ~DoubleAttached \/ Elapsed(startTime, now') > ClickTicks

Click ==
    /\ state = 2
    /\ \E active \in BOOLEAN : Sample(active)
    /\ ClickTimeOver
    /\ callback' = "click"
    /\ UNCHANGED <<state, startTime, stopTime, isLongPressed>>

\* Slip: the states were renumbered, but not here.
PressSecondAsFour ==
    /\ state = 2
    /\ Sample(TRUE)
    /\ ~ClickTimeOver
    /\ Elapsed(stopTime, now') > DebounceTicks
    /\ state' = 4
    /\ startTime' = now'
    /\ UNCHANGED <<stopTime, isLongPressed, callback>>

PressSecond ==
    /\ state = 2
    /\ Sample(TRUE)
    /\ ~ClickTimeOver
    /\ Elapsed(stopTime, now') > DebounceTicks
    /\ state' = 3
    /\ startTime' = now'
    /\ UNCHANGED <<stopTime, isLongPressed, callback>>

AwaitSecond ==
    /\ state = 2
    /\ \E active \in BOOLEAN :
          /\ Sample(active)
          /\ active => Elapsed(stopTime, now') <= DebounceTicks
    /\ ~ClickTimeOver
    /\ UNCHANGED <<state, startTime, stopTime, isLongPressed, callback>>

\* _state 3: the second press; its release completes the double click.
DoubleClick ==
    /\ state = 3
    /\ Sample(FALSE)
    /\ Elapsed(startTime, now') > DebounceTicks
    /\ stopTime' = now'
    /\ callback' = "doubleClick"
    /\ UNCHANGED <<state, startTime, isLongPressed>>

HoldSecond ==
    /\ state = 3
    /\ \E active \in BOOLEAN :
          /\ Sample(active)
          /\ active \/ Elapsed(startTime, now') <= DebounceTicks
    /\ UNCHANGED <<state, startTime, stopTime, isLongPressed, callback>>

\* Slip: _isLongPressed is not cleared.
LongPressStopFlagged ==
    /\ state = 6
    /\ Sample(FALSE)
    /\ stopTime' = now'
    /\ callback' = "longPressStop"
    /\ UNCHANGED <<state, startTime, isLongPressed>>

\* _state 6: a long press, until it is released.
LongPressStop ==
    /\ state = 6
    /\ Sample(FALSE)
    /\ isLongPressed' = FALSE
    /\ stopTime' = now'
    /\ callback' = "longPressStop"
    /\ UNCHANGED <<state, startTime>>

DuringLongPress ==
    /\ state = 6
    /\ Sample(TRUE)
    /\ stopTime' = now'
    /\ isLongPressed' = TRUE
    /\ UNCHANGED <<state, startTime, callback>>

\* Slip: the machine is not restarted.
ReturnInState ==
    /\ callback # "none"
    /\ \E d \in 0 .. MaxCallback : now' = Later(now, d)
    /\ callback' = "none"
    /\ UNCHANGED <<level, state, startTime, stopTime, isLongPressed>>

\* The callback returns to ticker(), which restarts the machine.
Return ==
    /\ callback # "none"
    /\ \E d \in 0 .. MaxCallback : now' = Later(now, d)
    /\ callback' = "none"
    /\ state' = 0
    /\ UNCHANGED <<level, startTime, stopTime, isLongPressed>>

ticker ==
    \/ Rest \/ PressDown
    \/ Bounce \/ ReleaseFirst \/ LongPressStart \/ HoldFirst
    \/ Click \/ PressSecond \/ AwaitSecond
    \/ DoubleClick \/ HoldSecond
    \/ LongPressStop \/ DuringLongPress

Next == ticker \/ Return

Spec == Init /\ [][Next]_vars

\* A sample that sees the button up, later than the bouncing of its press.
SeenReleased == ticker /\ ~level' /\ Elapsed(startTime, now') > DebounceTicks

\* The task never stops sampling, callbacks return, and nobody holds the
\* button for ever: a release outlasts the bouncing, so that (with a sample
\* every millisecond) it is seen again and again.
FairSpec ==
    /\ Spec
    /\ WF_vars(Next)
    /\ SF_vars(SeenReleased)

-----------------------------------------------------------------------------
\* Types, and the two facts that tie _isLongPressed and the callback to _state.
TypeOK ==
    /\ now \in Ticks /\ startTime \in Ticks /\ stopTime \in Ticks
    /\ level \in BOOLEAN
    /\ state \in {0, 1, 2, 3, 6}
    /\ isLongPressed \in BOOLEAN
    /\ callback \in Answers \cup {"none"}

\* ticker() answers a click only from state 2, a double click from 3 and the
\* end of a long press from 6; and isLongPressed() is true exactly from the
\* moment the hold exceeded _pressTicks until the release is answered.
AnswersFitState ==
    /\ callback = "click" => state = 2
    /\ callback = "doubleClick" => state = 3 /\ ~level
    /\ callback = "longPressStop" => state = 6 /\ ~level
    /\ isLongPressed <=> state = 6 /\ callback = "none"
    /\ state = 1 => level

\* Debouncing: whenever a click may still be answered the recorded press
\* lasted at least _debounceTicks, a second press began more than
\* _debounceTicks after the first ended, and getPressedTicks() of a double
\* click is more than _debounceTicks.
Debounced ==
    /\ state = 2 => Elapsed(startTime, stopTime) >= DebounceTicks
    /\ state = 3 /\ callback = "none" => Elapsed(stopTime, startTime) > DebounceTicks
    /\ callback = "doubleClick" => Elapsed(startTime, stopTime) > DebounceTicks

-----------------------------------------------------------------------------
\* What the callbacks promise to main.cpp: every answer uses up presses of
\* its own (see Gestures).  Presses the machine has taken but not answered:
owed ==
    CASE callback = "click"                  -> IF level THEN 1 ELSE 0
      [] callback \in Answers \ {"click"}    -> 0
      [] callback = "none" /\ state = 0      -> IF level THEN 1 ELSE 0
      [] callback = "none" /\ state = 2      -> IF level THEN 2 ELSE 1
      [] callback = "none" /\ state = 3      -> 2
      [] callback = "none" /\ state \in {1, 6} -> 1

Promise == INSTANCE Gestures WITH down <- level, owed <- owed, answer <- callback

\* The button implements the gesture promise.
ImplementsGestures == Promise!Spec

\* A press that was taken as one (released after the debounce time) is
\* answered: as a click, or with a second press as a double click.
PressAnswered == state = 2 ~> callback \in {"click", "doubleClick"}

\* Whatever was pressed, the machine returns to rest.
ReturnsToRest == state # 0 ~> (state = 0 /\ callback = "none")
=============================================================================
