----------------------------- MODULE ButtonHolds -----------------------------
(***************************************************************************)
(* XOneButton beside an observer that measures, in true ticks, how long    *)
(* the button was really seen held: what the comments of the class say of  *)
(* its times is about these, not about the modular tick the code reads.    *)
(* The observer only watches: it never constrains the button.              *)
(***************************************************************************)
EXTENDS XOneButton

CONSTANTS HoldCap        \* bound: holds are measured up to here

ASSUME HoldCapAssumption ==
    HoldCap \in Nat /\ HoldCap > PressTicks /\ HoldCap > DebounceTicks

VARIABLES
    held,      \* true ticks the button has been seen down without a break
    safe,      \* completed holds of _debounceTicks or more since the last answer (up to 2)
    wrapped    \* the tick counter wrapped since the machine last rested

holdVars == <<held, safe, wrapped>>

Passed == IF now <= now' THEN now' - now ELSE now' - now + TickModulus

AtMost(n, cap) == IF n < cap THEN n ELSE cap

AtRest(s, c, l) == s = 0 /\ c = "none" /\ ~l

Measure ==
    LET hold == AtMost(held + Passed, HoldCap) IN
    /\ held' = IF level /\ level' THEN hold ELSE 0
    /\ safe' = IF AtRest(state', callback', level') \/ (callback # "none" /\ callback' = "none")
               THEN 0
               ELSE IF level /\ ~level' /\ hold >= DebounceTicks THEN AtMost(safe + 1, 2)
               ELSE safe
    /\ wrapped' = /\ wrapped \/ now' < now
                  /\ ~AtRest(state', callback', level')

HoldsInit == Init /\ held = 0 /\ safe = 0 /\ wrapped = FALSE

HoldsNext == Next /\ Measure

HoldsSpec == HoldsInit /\ [][HoldsNext]_<<vars, holdVars>>

\* The fairness of XOneButton; the observer has none of its own.
HoldsFairSpec ==
    /\ HoldsSpec
    /\ WF_<<vars, holdVars>>(HoldsNext)
    /\ SF_<<vars, holdVars>>(SeenReleased /\ Measure)

-----------------------------------------------------------------------------
\* isLongPressed() turns true only when the button was really held longer than
\* _pressTicks without a break, unless the tick wrapped on the way.
LongPressHeld == isLongPressed => held > PressTicks \/ wrapped

\* A click answers a press that was really held at least _debounceTicks,
\* unless the tick wrapped on the way.
ClickHeld == callback = "click" => safe >= 1 \/ wrapped
=============================================================================
