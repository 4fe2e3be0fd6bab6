----------------------------- MODULE ButtonTask -----------------------------
(***************************************************************************)
(* The task xbutton_tick as a whole: the button's machine (XOneButton)     *)
(* calls singleClick_CB, doubleClick_CB and longClick_CB, which reach the  *)
(* current state object through the Scheduler (ButtonStates), before       *)
(* ticker() goes on.  The web server's task may change the call meanwhile, *)
(* and an abort in a handler restarts the chip, button and menu with it.   *)
(***************************************************************************)
EXTENDS XOneButton, ButtonStates

taskVars == <<vars, menuVars>>

TaskInit == Init /\ MenuInit

TickerStep == running /\ ticker /\ UNCHANGED menuVars

\* Slip: no function for the double click.
HandlerNoDouble ==
    \/ callback = "click" /\ singleClick
    \/ callback = "longPressStop" /\ longClick

\* Scheduler::singleClick, doubleClick, longClick for the callback that runs.
Handler ==
    \/ callback = "click" /\ singleClick
    \/ callback = "doubleClick" /\ doubleClick
    \/ callback = "longPressStop" /\ longClick

Dispatch == Handler /\ running' /\ Return

DispatchAborts == Handler /\ ~running' /\ UNCHANGED vars

OtherTask == WebSetsCall /\ UNCHANGED vars

\* Slip: _state survives.
RebootInState ==
    /\ Restart
    /\ now' = 0 /\ level' = FALSE
    /\ startTime' = 0 /\ stopTime' = 0
    /\ isLongPressed' = FALSE /\ callback' = "none"
    /\ UNCHANGED state

\* The globals are initialised again and the tick starts from 0.
Reboot ==
    /\ Restart
    /\ now' = 0 /\ level' = FALSE /\ state' = 0
    /\ startTime' = 0 /\ stopTime' = 0
    /\ isLongPressed' = FALSE /\ callback' = "none"

TaskNext == TickerStep \/ Dispatch \/ DispatchAborts \/ OtherTask \/ Reboot

\* The task runs on and the chip restarts after an abort; the button is let go
\* for longer than it bounces (see XOneButton).
TaskSpec ==
    /\ TaskInit /\ [][TaskNext]_taskVars
    /\ WF_taskVars(TickerStep) /\ WF_taskVars(Dispatch \/ DispatchAborts) /\ WF_taskVars(Reboot)
    /\ SF_taskVars(running /\ SeenReleased /\ UNCHANGED menuVars)

-----------------------------------------------------------------------------
\* Over handlers, aborts in a handler and restarts the menu is still moved by
\* presses of its own: no restart replays or loses half of a gesture.
TaskImplementsGestures == Promise!Spec

\* ButtonState.cpp:90, "long click exit": a long press in a configuration
\* state ends in StateDefault (by way of a restart from the selector).
LongClickExits ==
    (button_state \in ConfigStates /\ isLongPressed) ~> button_state = "StateDefault"

\* An answer of the button is always taken by the menu or ends in a restart:
\* no callback is left hanging.
AnswerTaken == callback # "none" ~> callback = "none"
=============================================================================
