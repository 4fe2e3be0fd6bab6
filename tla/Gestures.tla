------------------------------ MODULE Gestures ------------------------------
(***************************************************************************)
(* What the button promises to the functions attached to it in main.cpp    *)
(* (lines 81-83): answers come one at a time, and each of them uses up     *)
(* presses of its own: one for a click or a long press, two for a double   *)
(* click.  A press may be dropped (bouncing), never answered twice.        *)
(***************************************************************************)
EXTENDS Integers

VARIABLES
    down,    \* the button, as it was last seen
    owed,    \* presses seen and not answered yet
    answer   \* the answer being given, or "none"

vars == <<down, owed, answer>>

Answers == {"click", "doubleClick", "longPressStop"}

Cost(a) == IF a = "doubleClick" THEN 2 ELSE 1

Init == down = FALSE /\ owed = 0 /\ answer = "none"

\* What may be owed after the button is seen in position d: a press that
\* begins may be counted, a press that ends may be dropped.
OwedAfter(d) ==
    {owed} \cup (IF ~down /\ d THEN {owed + 1} ELSE {})
           \cup (IF down /\ ~d /\ owed > 0 THEN {owed - 1} ELSE {})

See ==
    /\ answer = "none"
    /\ down' \in BOOLEAN
    /\ owed' \in OwedAfter(down')
    /\ UNCHANGED answer

Answer ==
    /\ answer = "none"
    /\ down' \in BOOLEAN
    /\ answer' \in Answers
    /\ \E n \in OwedAfter(down') :
          /\ n >= Cost(answer')
          /\ owed' = n - Cost(answer')

Done ==
    /\ answer # "none"
    /\ answer' = "none"
    /\ UNCHANGED <<down, owed>>

Next == See \/ Answer \/ Done

Spec == Init /\ [][Next]_vars
=============================================================================
