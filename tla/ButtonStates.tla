---------------------------- MODULE ButtonStates ----------------------------
(***************************************************************************)
(* The menu behind the button: the state objects of ButtonState.cpp that   *)
(* Scheduler::singleClick, doubleClick and longClick dispatch to, and the  *)
(* display flags of the Scheduler they set.  setState() replaces the       *)
(* current object by a new one and deletes the old, so the fields of an    *)
(* object (the menu item, the selector's position) begin anew.             *)
(*                                                                         *)
(* A character is its place in select_list_call: 0 .. ListSize - 1 are the *)
(* listed ones, ListSize stands for the NUL that String::charAt returns    *)
(* past the end, ListSize + 1 for any character that is not in the list.   *)
(*                                                                         *)
(* call_config_timer is NULL for ever (its creation is commented out), so  *)
(* xTimerStop(call_config_timer, 0) fails configASSERT and the firmware    *)
(* aborts; main.cpp then builds everything anew (restart).  The timer was   *)
(* to call kino(), so nothing ever edits the selector's copy of the call.   *)
(***************************************************************************)
EXTENDS Integers

CONSTANTS
    ListSize,    \* characters in select_list_call (37)
    LastPos,     \* last position of the call that can be edited (7)
    Calls        \* calls cfg.call may hold: functions from 0 .. LastPos

Char == 0 .. ListSize + 1

ASSUME SelectorAssumption ==
    /\ ListSize \in Nat \ {0} /\ LastPos \in Nat
    /\ Calls # {} /\ Calls \subseteq [0 .. LastPos -> Char]

MenuItems == 3       \* max_items
NoItem == -1         \* button_config_mode of a new StateConfigMenue

VARIABLES
    button_state,        \* class of the object taskScheduler.button_state points to
    display_change,      \* Scheduler::display_change
    display_update,      \* Scheduler::display_update
    button_config_mode,  \* StateConfigMenue: the item shown
    selector,            \* ConfigStringSelector: its fields
    cfgCall,             \* cfg.call
    running              \* FALSE from an abort to the end of the restart

menuVars == <<button_state, display_change, display_update,
              button_config_mode, selector, cfgCall, running>>

States == {"StateDefault", "StateDisplayMode", "StateConfigMenue", "ConfigStringSelector"}
ConfigStates == {"StateConfigMenue", "ConfigStringSelector"}

\* Slip: the search stops one character early.
FindShort(c, limit) == IF c < limit - 1 THEN c ELSE limit

\* for (idx = 0; idx < limit; idx++) if (c == _select_list[idx]) break;
Find(c, limit) == IF c < limit THEN c ELSE limit

NoSelector == [tmp |-> CHOOSE c \in Calls : TRUE, pos |-> 0, idx |-> 0]

\* ConfigStringSelector::ConfigStringSelector
NewSelector == [tmp |-> cfgCall, pos |-> 0, idx |-> Find(cfgCall[0], ListSize - 1)]

-----------------------------------------------------------------------------
MenuInit ==
    /\ button_state = "StateDefault"
    /\ display_change = TRUE
    /\ display_update = TRUE
    /\ button_config_mode = NoItem
    /\ selector = NoSelector
    /\ cfgCall \in Calls
    /\ running = TRUE

\* setState(taskScheduler, new <class>): the fields are those of a new object.
setState(class) ==
    /\ button_state' = class
    /\ button_config_mode' = NoItem
    /\ selector' = IF class = "ConfigStringSelector" THEN NewSelector ELSE NoSelector

Show(change, update) == display_change' = change /\ display_update' = update

\* configASSERT(xTimer) fails: abort(), the panic handler restarts the chip.
Abort ==
    /\ running' = FALSE
    /\ UNCHANGED <<button_state, display_change, display_update,
                   button_config_mode, selector, cfgCall>>

Enabled(class) == running /\ button_state = class

DefaultSingleClick ==
    /\ Enabled("StateDefault")
    /\ Show(FALSE, display_update)
    /\ setState("StateDisplayMode")
    /\ UNCHANGED <<cfgCall, running>>

DefaultDoubleClick == Enabled("StateDefault") /\ UNCHANGED menuVars

DefaultLongClick ==
    /\ Enabled("StateDefault")
    /\ Show(FALSE, FALSE)
    /\ setState("StateConfigMenue")
    /\ UNCHANGED <<cfgCall, running>>

\* nextDisplayMode() of the Scheduler only logs, next_display_time is always 0.
DisplayModeSingleClick == Enabled("StateDisplayMode") /\ UNCHANGED menuVars

DisplayModeDoubleClick ==
    /\ Enabled("StateDisplayMode")
    /\ Show(TRUE, display_update)
    /\ setState("StateDefault")
    /\ UNCHANGED <<cfgCall, running>>

\* Slip: display_change is forgotten.
LongClickUnflagged ==
    /\ Enabled("StateDisplayMode") \/ Enabled("StateConfigMenue")
    /\ Show(display_change, TRUE)
    /\ setState("StateDefault")
    /\ UNCHANGED <<cfgCall, running>>

\* Slip: the menu starts over.
LongClickRestartsMenu ==
    /\ Enabled("StateDisplayMode") \/ Enabled("StateConfigMenue")
    /\ Show(FALSE, FALSE)
    /\ setState("StateConfigMenue")
    /\ UNCHANGED <<cfgCall, running>>

\* AbstracButtonState::longClick, inherited by StateDisplayMode and StateConfigMenue.
AbstractLongClick ==
    /\ Enabled("StateDisplayMode") \/ Enabled("StateConfigMenue")
    /\ Show(TRUE, TRUE)
    /\ setState("StateDefault")
    /\ UNCHANGED <<cfgCall, running>>

ConfigMenueSingleClick ==
    /\ Enabled("StateConfigMenue")
    /\ button_config_mode' = IF button_config_mode < MenuItems - 1
                             THEN button_config_mode + 1 ELSE 0
    /\ UNCHANGED <<button_state, display_change, display_update, selector, cfgCall, running>>

\* Item 0 opens the selector; entering items 1 and 2 is commented out, and no
\* item at all only shows an error.
ConfigMenueDoubleClick ==
    /\ Enabled("StateConfigMenue")
    /\ IF button_config_mode = 0
       THEN /\ setState("ConfigStringSelector")
            /\ UNCHANGED <<display_change, display_update, cfgCall, running>>
       ELSE UNCHANGED menuVars

SelectorSingleClick ==
    /\ Enabled("ConfigStringSelector")
    /\ LET pos == IF selector.pos + 1 > LastPos THEN 0 ELSE selector.pos + 1 IN
       selector' = [selector EXCEPT !.pos = pos,
                                    !.idx = Find(selector.tmp[pos], ListSize)]
    /\ UNCHANGED <<button_state, display_change, display_update,
                   button_config_mode, cfgCall, running>>

\* Both call xTimerStop(NULL, 0) first: nothing after it is reached.
SelectorDoubleClick == Enabled("ConfigStringSelector") /\ Abort

SelectorLongClick == Enabled("ConfigStringSelector") /\ Abort

singleClick ==
    \/ DefaultSingleClick \/ DisplayModeSingleClick
    \/ ConfigMenueSingleClick \/ SelectorSingleClick

doubleClick ==
    \/ DefaultDoubleClick \/ DisplayModeDoubleClick
    \/ ConfigMenueDoubleClick \/ SelectorDoubleClick

longClick == DefaultLongClick \/ AbstractLongClick \/ SelectorLongClick

\* handleRequestConfigCall() in the web server's task assigns cfg.call.
WebSetsCall ==
    /\ running
    /\ cfgCall' \in Calls
    /\ UNCHANGED <<button_state, display_change, display_update,
                   button_config_mode, selector, running>>

\* setup() after an abort; the call is loaded anew (see ConfigStore).
Restart ==
    /\ ~running
    /\ running' = TRUE
    /\ Show(TRUE, TRUE)
    /\ setState("StateDefault")
    /\ cfgCall' \in Calls

MenuNext == singleClick \/ doubleClick \/ longClick \/ WebSetsCall \/ Restart

MenuSpec == MenuInit /\ [][MenuNext]_menuVars

-----------------------------------------------------------------------------
SelectorType ==
    [tmp : Calls, pos : 0 .. LastPos, idx : 0 .. ListSize]

MenuTypeOK ==
    /\ button_state \in States
    /\ display_change \in BOOLEAN /\ display_update \in BOOLEAN
    /\ button_config_mode \in NoItem .. MenuItems - 1
    /\ selector \in SelectorType
    /\ cfgCall \in Calls
    /\ running \in BOOLEAN

\* Whatever way the menu was entered and left, the Scheduler's flags say what
\* may be drawn: pages turn by themselves only in StateDefault, and nothing
\* but the menu updates the display in a configuration state.
FlagsFitState ==
    /\ display_change <=> button_state = "StateDefault"
    /\ display_update <=> button_state \notin ConfigStates

\* The character the selector has marked is the one at the cursor, for every
\* listed character: the constructor's search stops one short of the list,
\* singleClick()'s does not, and both must find the same.
SelectorMarksCursor ==
    button_state = "ConfigStringSelector" =>
        LET c == selector.tmp[selector.pos] IN c < ListSize => selector.idx = c

\* ButtonState.h:89, the selector's hint "2click takes": a double click in the
\* selector takes the call and the program goes on.
TwoClickTakes == [][SelectorDoubleClick => running']_menuVars
=============================================================================
