----------------------------- MODULE ButtonProofs ----------------------------
(***************************************************************************)
(* The button for every choice of the thresholds and of the clock: its     *)
(* types, what ties its answers to its state, debouncing, and the          *)
(* refinement of Gestures step by step (XOneButton); what it measures is   *)
(* what the hand did (ButtonHolds); the menu behind it (ButtonStates); and *)
(* the two together, over aborts and restarts (ButtonTask).                *)
(***************************************************************************)
EXTENDS XOneButton, ButtonHolds, ButtonTask, TLAPS

-----------------------------------------------------------------------------
(* The button by itself.                                                   *)

\* The tick stays a tick, however often it wraps.
LEMMA LaterIsTick ==
    ASSUME NEW t \in Ticks, NEW d \in Nat, d < TickModulus
    PROVE  Later(t, d) \in Ticks
BY ClockAssumption DEF Later, Ticks

\* A sample takes the level and moves the tick.
LEMMA SampleTypes ==
    ASSUME TypeOK, NEW active \in BOOLEAN, Sample(active)
    PROVE  callback = "none" /\ level' = active /\ now' \in Ticks
<1>1. PICK d \in 1 .. MaxLag : now' = Later(now, d)
  BY DEF Sample
<1>2. d \in Nat /\ d < TickModulus
  BY ClockAssumption
<1>3. now' \in Ticks
  BY <1>1, <1>2, LaterIsTick DEF TypeOK
<1> QED
  BY <1>3 DEF Sample

\* What the two kinds of sample show.
LEMMA SampleDown == Sample(TRUE) => callback = "none" /\ level'
BY Zenon DEF Sample

\* A sample that sees the button up.
LEMMA SampleUp == Sample(FALSE) => callback = "none" /\ ~level'
BY Zenon DEF Sample

\* The machine starts with its types.
LEMMA InitTypeOK == Init => TypeOK
<1> SUFFICES ASSUME Init PROVE TypeOK
  OBVIOUS
<1>1. 0 \in Ticks
  BY ClockAssumption DEF Ticks
<1> QED
  BY <1>1, Zenon DEF Init, TypeOK

\* Every call of ticker() and every return of a callback keeps the types.
LEMMA NextTypeOK == TypeOK /\ [Next]_vars => TypeOK'
<1> SUFFICES ASSUME TypeOK, [Next]_vars PROVE TypeOK'
  OBVIOUS
<1> USE DEF TypeOK
<1>1. CASE Rest
  BY <1>1, SampleTypes DEF Rest
<1>2. CASE PressDown
  BY <1>2, SampleTypes DEF PressDown
<1>3. CASE Bounce
  BY <1>3, SampleTypes DEF Bounce
<1>4. CASE ReleaseFirst
  BY <1>4, SampleTypes DEF ReleaseFirst
<1>5. CASE LongPressStart
  BY <1>5, SampleTypes DEF LongPressStart
<1>6. CASE HoldFirst
  BY <1>6, SampleTypes DEF HoldFirst
<1>7. CASE Click
  BY <1>7, SampleTypes DEF Click, Answers
<1>8. CASE PressSecond
  BY <1>8, SampleTypes DEF PressSecond
<1>9. CASE AwaitSecond
  BY <1>9, SampleTypes DEF AwaitSecond
<1>10. CASE DoubleClick
  BY <1>10, SampleTypes DEF DoubleClick, Answers
<1>11. CASE HoldSecond
  BY <1>11, SampleTypes DEF HoldSecond
<1>12. CASE LongPressStop
  BY <1>12, SampleTypes DEF LongPressStop, Answers
<1>13. CASE DuringLongPress
  BY <1>13, SampleTypes DEF DuringLongPress
<1>14. CASE Return
  <2>1. PICK d \in 0 .. MaxCallback : now' = Later(now, d)
    BY <1>14 DEF Return
  <2>2. d \in Nat /\ d < TickModulus
    BY ClockAssumption
  <2>3. now' \in Ticks
    BY <2>1, <2>2, LaterIsTick
  <2> QED
    BY <1>14, <2>3 DEF Return
<1>15. CASE UNCHANGED vars
  BY <1>15 DEF vars
<1> QED
  BY <1>1, <1>2, <1>3, <1>4, <1>5, <1>6, <1>7, <1>8, <1>9, <1>10, <1>11,
     <1>12, <1>13, <1>14, <1>15 DEF Next, ticker

\* The variables of the button keep their types (for every threshold and clock).
THEOREM TypeCorrect == Spec => []TypeOK
<1>1. Init => TypeOK
  BY InitTypeOK
<1>2. TypeOK /\ [Next]_vars => TypeOK'
  BY NextTypeOK
<1> QED
  BY <1>1, <1>2, PTL DEF Spec

-----------------------------------------------------------------------------
\* A step of ticker() is taken while no callback runs; these are the facts
\* the invariants below are inductive with.
IInv == TypeOK /\ AnswersFitState /\ Debounced

\* The machine starts with the invariant.
LEMMA InitIInv == Init => IInv
<1> SUFFICES ASSUME Init PROVE IInv
  OBVIOUS
<1>1. TypeOK
  BY InitTypeOK
<1>2. AnswersFitState
  BY DEF Init, AnswersFitState
<1>3. Debounced
  BY DEF Init, Debounced
<1> QED
  BY <1>1, <1>2, <1>3 DEF IInv

\* Every step keeps the answers tied to the state.
LEMMA NextAnswersFitState == IInv /\ [Next]_vars => AnswersFitState'
<1> SUFFICES ASSUME IInv, [Next]_vars PROVE AnswersFitState'
  OBVIOUS
<1> USE DEF IInv, AnswersFitState
<1>1. CASE Rest
  BY <1>1, SampleUp DEF Rest
<1>2. CASE PressDown
  BY <1>2, SampleDown DEF PressDown
<1>3. CASE Bounce
  BY <1>3, SampleUp DEF Bounce
<1>4. CASE ReleaseFirst
  BY <1>4, SampleUp DEF ReleaseFirst
<1>5. CASE LongPressStart
  BY <1>5, SampleDown DEF LongPressStart
<1>6. CASE HoldFirst
  BY <1>6, SampleDown DEF HoldFirst
<1>7. CASE Click
  BY <1>7, SampleTypes DEF Click
<1>8. CASE PressSecond
  BY <1>8, SampleDown DEF PressSecond
<1>9. CASE AwaitSecond
  BY <1>9, SampleTypes DEF AwaitSecond
<1>10. CASE DoubleClick
  BY <1>10, SampleUp DEF DoubleClick
<1>11. CASE HoldSecond
  BY <1>11, SampleTypes DEF HoldSecond
<1>12. CASE LongPressStop
  BY <1>12, SampleUp DEF LongPressStop
<1>13. CASE DuringLongPress
  BY <1>13, SampleDown DEF DuringLongPress
<1>14. CASE Return
  BY <1>14 DEF Return
<1>15. CASE UNCHANGED vars
  BY <1>15 DEF vars
<1> QED
  BY <1>1, <1>2, <1>3, <1>4, <1>5, <1>6, <1>7, <1>8, <1>9, <1>10, <1>11,
     <1>12, <1>13, <1>14, <1>15 DEF Next, ticker

\* Every step keeps the debounced times.
LEMMA NextDebounced == IInv /\ [Next]_vars => Debounced'
<1> SUFFICES ASSUME IInv, [Next]_vars PROVE Debounced'
  OBVIOUS
<1> USE DEF IInv, Debounced
<1>1. CASE Rest
  BY <1>1, SampleUp DEF Rest
<1>2. CASE PressDown
  BY <1>2, SampleDown DEF PressDown
<1>3. CASE Bounce
  BY <1>3, SampleUp DEF Bounce
<1>4. CASE ReleaseFirst
  BY <1>4, SampleUp DEF ReleaseFirst
<1>5. CASE LongPressStart
  BY <1>5, SampleDown DEF LongPressStart
<1>6. CASE HoldFirst
  BY <1>6, SampleDown DEF HoldFirst
<1>7. CASE Click
  BY <1>7, SampleTypes DEF Click
<1>8. CASE PressSecond
  BY <1>8, SampleDown DEF PressSecond
<1>9. CASE AwaitSecond
  BY <1>9, SampleTypes DEF AwaitSecond
<1>10. CASE DoubleClick
  BY <1>10, SampleUp DEF DoubleClick
<1>11. CASE HoldSecond
  BY <1>11, SampleTypes DEF HoldSecond
<1>12. CASE LongPressStop
  BY <1>12, SampleUp DEF LongPressStop
<1>13. CASE DuringLongPress
  BY <1>13, SampleDown DEF DuringLongPress
<1>14. CASE Return
  BY <1>14 DEF Return
<1>15. CASE UNCHANGED vars
  BY <1>15 DEF vars
<1> QED
  BY <1>1, <1>2, <1>3, <1>4, <1>5, <1>6, <1>7, <1>8, <1>9, <1>10, <1>11,
     <1>12, <1>13, <1>14, <1>15 DEF Next, ticker

\* Every call of ticker() and every return keeps the invariant.
LEMMA NextIInv == IInv /\ [Next]_vars => IInv'
BY NextTypeOK, NextAnswersFitState, NextDebounced DEF IInv

\* ticker() answers a gesture only from the state that stands for it, and
\* isLongPressed() is true exactly while a long press is held.
THEOREM AnswersCorrect == Spec => []AnswersFitState
<1>1. IInv => AnswersFitState
  BY DEF IInv
<1> QED
  BY <1>1, InitIInv, NextIInv, PTL DEF Spec

\* Whatever answers a click or a double click was debounced, on a tick that
\* wraps as well as before.
THEOREM DebouncedAlways == Spec => []Debounced
<1>1. IInv => Debounced
  BY DEF IInv
<1> QED
  BY <1>1, InitIInv, NextIInv, PTL DEF Spec

-----------------------------------------------------------------------------
\* The refinement of Gestures, one step at a time.
LEMMA InitPromise == Init => Promise!Init
BY DEF Init, Promise!Init, owed

\* Every step is a step of Gestures or leaves its variables alone.
LEMMA StepPromise == IInv /\ IInv' /\ [Next]_vars => [Promise!Next]_Promise!vars
<1> SUFFICES ASSUME IInv, IInv', [Next]_vars PROVE [Promise!Next]_Promise!vars
  OBVIOUS
<1> USE DEF IInv, TypeOK, AnswersFitState, owed, Promise!Next, Promise!vars,
        Promise!OwedAfter, Promise!Cost, Promise!Answers, Answers
<1>1. CASE Rest
  BY <1>1, SampleUp DEF Rest, Promise!See
<1>2. CASE PressDown
  <2> HIDE DEF owed
  <2>1. callback = "none" /\ callback' = "none" /\ level' /\ owed' = 1
    BY <1>2, SampleDown DEF PressDown, owed
  <2>2. level' = TRUE
    BY <2>1, Zenon
  <2>3. CASE level
    <3>1. owed = 1
      BY <1>2, <2>1, <2>3 DEF PressDown, owed
    <3> QED
      BY <2>1, <2>2, <3>1 DEF Promise!See
  <2>4. CASE ~level
    <3>1. owed = 0
      BY <1>2, <2>1, <2>4 DEF PressDown, owed
    <3> QED
      BY <2>1, <2>2, <2>4, <3>1 DEF Promise!See
  <2> QED
    BY <2>3, <2>4
<1>3. CASE Bounce
  BY <1>3, SampleUp DEF Bounce, Promise!See
<1>4. CASE ReleaseFirst
  BY <1>4, SampleUp DEF ReleaseFirst, Promise!See
<1>5. CASE LongPressStart
  BY <1>5, SampleDown DEF LongPressStart, Promise!See
<1>6. CASE HoldFirst
  BY <1>6, SampleDown DEF HoldFirst, Promise!See
<1>7. CASE Click
  BY <1>7, SampleTypes DEF Click, Promise!Answer
<1>8. CASE PressSecond
  <2> HIDE DEF owed
  <2>1. callback = "none" /\ callback' = "none" /\ level' /\ owed' = 2
    BY <1>8, SampleDown DEF PressSecond, owed
  <2>2. level' = TRUE
    BY <2>1, Zenon
  <2>3. CASE level
    <3>1. owed = 2
      BY <1>8, <2>1, <2>3 DEF PressSecond, owed
    <3> QED
      BY <2>1, <2>2, <3>1 DEF Promise!See
  <2>4. CASE ~level
    <3>1. owed = 1
      BY <1>8, <2>1, <2>4 DEF PressSecond, owed
    <3> QED
      BY <2>1, <2>2, <2>4, <3>1 DEF Promise!See
  <2> QED
    BY <2>3, <2>4
<1>9. CASE AwaitSecond
  BY <1>9, SampleTypes DEF AwaitSecond, Promise!See
<1>10. CASE DoubleClick
  BY <1>10, SampleUp DEF DoubleClick, Promise!Answer
<1>11. CASE HoldSecond
  BY <1>11, SampleTypes DEF HoldSecond, Promise!See
<1>12. CASE LongPressStop
  BY <1>12, SampleUp DEF LongPressStop, Promise!Answer
<1>13. CASE DuringLongPress
  BY <1>13, SampleDown DEF DuringLongPress, Promise!See
<1>14. CASE Return
  BY <1>14 DEF Return, Promise!Done
<1>15. CASE UNCHANGED vars
  BY <1>15 DEF vars
<1> QED
  BY <1>1, <1>2, <1>3, <1>4, <1>5, <1>6, <1>7, <1>8, <1>9, <1>10, <1>11,
     <1>12, <1>13, <1>14, <1>15 DEF Next, ticker

\* The button implements the gesture promise: whatever the thresholds and the
\* clock, no press is answered twice and no answer is given without its presses.
THEOREM Refinement == Spec => ImplementsGestures
<1>1. Init => Promise!Init
  BY InitPromise
<1>2. IInv /\ IInv' /\ [Next]_vars => [Promise!Next]_Promise!vars
  BY StepPromise
<1> QED
  BY <1>1, <1>2, InitIInv, NextIInv, PTL DEF Spec, ImplementsGestures, Promise!Spec

-----------------------------------------------------------------------------
(* The observer of the holds.                                              *)

\* How far it measures and counts.
Capped == held \in 0 .. HoldCap /\ safe \in 0 .. 2

\* As long as the tick has not wrapped, the observer has seen the first press
\* at least as long as the machine's clock says.
FirstPressSeen ==
    state = 1 /\ ~wrapped =>
        startTime <= now /\ held >= AtMost(now - startTime, HoldCap)

\* A machine that waits for a second press has been given a first.
FirstPressSafe == state = 2 => safe >= 1 \/ wrapped

HInv ==
    /\ IInv /\ Capped
    /\ FirstPressSeen /\ FirstPressSafe
    /\ isLongPressed => level
    /\ LongPressHeld

\* The thresholds, as numbers.
LEMMA Thresholds ==
    /\ DebounceTicks \in Nat /\ PressTicks \in Nat /\ HoldCap \in Nat
    /\ DebounceTicks < HoldCap /\ PressTicks < HoldCap
<1>1. DebounceTicks \in Nat /\ PressTicks \in Nat
  BY TicksAssumption, Zenon
<1> QED
  BY <1>1, HoldCapAssumption

LEMMA InitHInv == HoldsInit => HInv
<1> SUFFICES ASSUME HoldsInit PROVE HInv
  OBVIOUS
<1>1. IInv
  BY InitIInv DEF HoldsInit
<1>2. Capped
  <2>1. held = 0 /\ safe = 0
    BY DEF HoldsInit
  <2> QED
    BY <2>1, Thresholds DEF Capped
<1>3. FirstPressSeen /\ FirstPressSafe /\ (isLongPressed => level) /\ LongPressHeld
  BY DEF HoldsInit, Init, FirstPressSeen, FirstPressSafe, LongPressHeld
<1> QED
  BY <1>1, <1>2, <1>3 DEF HInv

\* What is at most n and the cap.
LEMMA AtMostIs ==
    ASSUME NEW n \in Nat
    PROVE  /\ AtMost(n, HoldCap) \in 0 .. HoldCap
           /\ n < HoldCap => AtMost(n, HoldCap) = n
           /\ ~(n < HoldCap) => AtMost(n, HoldCap) = HoldCap
<1>1. n < HoldCap => AtMost(n, HoldCap) = n
  BY Zenon DEF AtMost
<1>2. ~(n < HoldCap) => AtMost(n, HoldCap) = HoldCap
  BY Zenon DEF AtMost
<1> QED
  BY <1>1, <1>2, Thresholds

\* A hold h of which the machine saw the ticks from s to t, at u.
LEMMA Grown ==
    ASSUME NEW s \in Ticks, NEW t \in Ticks, NEW u \in Ticks, s <= t, t <= u,
           NEW h \in 0 .. HoldCap, h >= AtMost(t - s, HoldCap),
           NEW g, g = AtMost(h + (u - t), HoldCap)
    PROVE  /\ s <= u /\ g \in 0 .. HoldCap /\ g >= AtMost(u - s, HoldCap)
           /\ Elapsed(s, u) >= DebounceTicks => g >= DebounceTicks
           /\ Elapsed(s, u) > PressTicks => g > PressTicks
<1>1. s \in Nat /\ t \in Nat /\ u \in Nat /\ s <= u /\ h \in Nat
  BY Thresholds DEF Ticks
<1>2. t - s \in Nat /\ u - s \in Nat /\ h + (u - t) \in Nat
  BY <1>1
<1>3. g \in 0 .. HoldCap /\ g >= AtMost(u - s, HoldCap)
  <2>1. /\ g \in 0 .. HoldCap /\ AtMost(u - s, HoldCap) \in 0 .. HoldCap
        /\ h + (u - t) < HoldCap => g = h + (u - t)
        /\ ~(h + (u - t) < HoldCap) => g = HoldCap
    BY <1>2, AtMostIs
  <2>2. CASE h + (u - t) < HoldCap
    <3>1. t - s < HoldCap => AtMost(t - s, HoldCap) = t - s
      BY <1>2, AtMostIs
    <3>2. ~(t - s < HoldCap) => AtMost(t - s, HoldCap) = HoldCap
      BY <1>2, AtMostIs
    <3>3. u - s < HoldCap /\ g >= u - s
      BY <1>1, <2>1, <2>2, <3>1, <3>2, Thresholds
    <3>4. AtMost(u - s, HoldCap) = u - s
      BY <1>2, <3>3, AtMostIs
    <3> QED
      BY <2>1, <3>3, <3>4
  <2>3. CASE ~(h + (u - t) < HoldCap)
    BY <2>1, <2>3, Thresholds
  <2> QED
    BY <2>2, <2>3
<1>4. Elapsed(s, u) = u - s
  BY <1>1 DEF Elapsed
<1>5. /\ u - s < HoldCap => AtMost(u - s, HoldCap) = u - s
      /\ ~(u - s < HoldCap) => AtMost(u - s, HoldCap) = HoldCap
  BY <1>2, AtMostIs
<1> QED
  BY <1>1, <1>2, <1>3, <1>4, <1>5, Thresholds

\* A hold that was long enough stays so.
LEMMA StillLong ==
    ASSUME NEW t \in Ticks, NEW u \in Ticks, t <= u,
           NEW h \in 0 .. HoldCap, h > PressTicks,
           NEW g, g = AtMost(h + (u - t), HoldCap)
    PROVE  g > PressTicks
<1>1. h + (u - t) \in Nat /\ h + (u - t) >= h
  BY Thresholds DEF Ticks
<1> QED
  BY <1>1, AtMostIs, Thresholds

\* The ticks that pass between two.
LEMMA TicksBetween ==
    ASSUME NEW t \in Ticks, NEW u \in Ticks
    PROVE  (IF t <= u THEN u - t ELSE u - t + TickModulus) \in Nat
BY ClockAssumption DEF Ticks

LEMMA PassedTicks ==
    ASSUME now \in Ticks, now' \in Ticks
    PROVE  Passed \in Nat /\ (now <= now' => Passed = now' - now)
<1>1. Passed \in Nat
  BY TicksBetween, Zenon DEF Passed
<1>2. now <= now' => Passed = now' - now
  BY Zenon DEF Passed
<1> QED
  BY <1>1, <1>2

Hold == AtMost(held + Passed, HoldCap)

\* The observer's own steps.
LEMMA MeasureSteps ==
    ASSUME Capped, now \in Ticks, now' \in Ticks, Measure
    PROVE  /\ Capped' /\ Hold \in 0 .. HoldCap
           /\ level /\ level' => held' = Hold
           /\ ~AtRest(state', callback', level') =>
                /\ ~wrapped' => ~wrapped /\ now <= now' /\ Hold = AtMost(held + (now' - now), HoldCap)
                /\ callback = "none" =>
                     /\ safe' \in {safe, AtMost(safe + 1, 2)}
                     /\ level /\ ~level' /\ Hold >= DebounceTicks => safe' = AtMost(safe + 1, 2)
<1>1. held + Passed \in Nat
  BY PassedTicks, Thresholds DEF Capped
<1>2. Hold \in 0 .. HoldCap
  BY <1>1, AtMostIs DEF Hold
<1>3. held' = IF level /\ level' THEN Hold ELSE 0
  BY Zenon DEF Measure, Hold
<1>4. safe' = IF AtRest(state', callback', level') \/ (callback # "none" /\ callback' = "none")
              THEN 0
              ELSE IF level /\ ~level' /\ Hold >= DebounceTicks THEN AtMost(safe + 1, 2)
              ELSE safe
  BY Zenon DEF Measure, Hold
<1>5. held' \in 0 .. HoldCap
  <2>1. 0 \in 0 .. HoldCap
    BY Thresholds
  <2> QED
    BY <1>2, <1>3, <2>1, Zenon
<1>6. safe' \in 0 .. 2
  <2>1. 0 \in 0 .. 2 /\ AtMost(safe + 1, 2) \in 0 .. 2 /\ safe \in 0 .. 2
    BY DEF Capped, AtMost
  <2> QED
    BY <1>4, <2>1, Zenon
<1>7. ASSUME ~AtRest(state', callback', level'), ~wrapped'
      PROVE  ~wrapped /\ now <= now' /\ Hold = AtMost(held + (now' - now), HoldCap)
  <2>1. ~wrapped /\ ~(now' < now)
    BY <1>7, Zenon DEF Measure
  <2>2. now <= now'
    BY <2>1 DEF Ticks
  <2> QED
    BY <2>1, <2>2, PassedTicks, Zenon DEF Hold
<1> QED
  BY <1>2, <1>3, <1>4, <1>5, <1>6, <1>7, Zenon DEF Capped

\* Where each step leaves the machine.
LEMMA StateAfter ==
    /\ Rest \/ Bounce \/ Return => state' = 0
    /\ ReleaseFirst \/ Click \/ AwaitSecond => state' = 2
    /\ PressSecond \/ DoubleClick \/ HoldSecond => state' = 3
    /\ LongPressStart \/ LongPressStop \/ DuringLongPress => state' = 6
    /\ PressDown \/ HoldFirst => state' = 1
<1>1. Rest \/ Bounce \/ Return => state' = 0
  BY Zenon DEF Rest, Bounce, Return
<1>2. ReleaseFirst \/ Click \/ AwaitSecond => state' = 2
  BY Zenon DEF ReleaseFirst, Click, AwaitSecond
<1>3. PressSecond \/ DoubleClick \/ HoldSecond => state' = 3
  BY Zenon DEF PressSecond, DoubleClick, HoldSecond
<1>4. LongPressStart \/ LongPressStop \/ DuringLongPress => state' = 6
  BY Zenon DEF LongPressStart, LongPressStop, DuringLongPress
<1>5. PressDown \/ HoldFirst => state' = 1
  BY Zenon DEF PressDown, HoldFirst
<1> QED
  BY <1>1, <1>2, <1>3, <1>4, <1>5

LEMMA NextFirstPressSeen == HInv /\ TypeOK' /\ HoldsNext => FirstPressSeen'
<1> SUFFICES ASSUME HInv, TypeOK', HoldsNext, state' = 1, ~wrapped'
             PROVE  startTime' <= now' /\ held' >= AtMost(now' - startTime', HoldCap)
  BY Zenon DEF FirstPressSeen
<1>0. now \in Ticks /\ now' \in Ticks /\ startTime \in Ticks /\ Capped /\ Measure
      /\ AnswersFitState /\ FirstPressSeen
  BY Zenon DEF HInv, IInv, TypeOK, HoldsNext
<1>1. CASE PressDown
  <2>1. startTime' = now'
    BY <1>1, Zenon DEF PressDown
  <2>2. held' \in 0 .. HoldCap
    BY <1>0, MeasureSteps, Zenon DEF Capped
  <2>3. \A t \in Ticks, h \in 0 .. HoldCap : t <= t /\ h >= AtMost(t - t, HoldCap)
    BY Thresholds DEF Ticks, AtMost
  <2> QED
    BY <1>0, <2>1, <2>2, <2>3, Zenon
<1>2. CASE HoldFirst
  <2>1. state = 1 /\ level' /\ startTime' = startTime
    BY <1>2, SampleDown, Zenon DEF HoldFirst
  <2>2. level
    BY <1>0, <2>1, Zenon DEF AnswersFitState
  <2>3. ~wrapped /\ now <= now' /\ held' = AtMost(held + (now' - now), HoldCap)
    BY <1>0, <2>1, <2>2, MeasureSteps, Zenon DEF AtRest
  <2>4. startTime <= now /\ held >= AtMost(now - startTime, HoldCap) /\ held \in 0 .. HoldCap
    BY <1>0, <2>1, <2>3, Zenon DEF FirstPressSeen, Capped
  <2> QED
    BY <1>0, <2>1, <2>3, <2>4, Grown, Zenon
<1>3. PressDown \/ HoldFirst
  <2>1. Next
    BY DEF HoldsNext
  <2> QED
    BY <2>1, StateAfter DEF Next, ticker
<1> QED
  BY <1>1, <1>2, <1>3

LEMMA NextFirstPressSafe == HInv /\ TypeOK' /\ HoldsNext => FirstPressSafe'
<1> SUFFICES ASSUME HInv, TypeOK', HoldsNext, state' = 2, ~wrapped'
             PROVE  safe' >= 1
  BY Zenon DEF FirstPressSafe
<1>0. now \in Ticks /\ now' \in Ticks /\ startTime \in Ticks /\ Capped /\ Measure
      /\ AnswersFitState /\ FirstPressSeen /\ FirstPressSafe
  BY Zenon DEF HInv, IInv, TypeOK, HoldsNext
<1>1. ~AtRest(state', callback', level')
  BY DEF AtRest
<1>2. ~wrapped /\ now <= now' /\ Hold = AtMost(held + (now' - now), HoldCap)
  BY <1>0, <1>1, MeasureSteps, Zenon
<1>3. CASE ReleaseFirst
  <2>1. state = 1 /\ callback = "none" /\ ~level' /\ Elapsed(startTime, now') >= DebounceTicks
    BY <1>3, SampleUp, Zenon DEF ReleaseFirst
  <2>2. level /\ startTime <= now /\ held >= AtMost(now - startTime, HoldCap)
        /\ held \in 0 .. HoldCap
    BY <1>0, <1>2, <2>1, Zenon DEF AnswersFitState, FirstPressSeen, Capped
  <2>3. Hold >= DebounceTicks
    BY <1>0, <1>2, <2>1, <2>2, Grown, Zenon
  <2>4. safe' = AtMost(safe + 1, 2)
    BY <1>0, <1>1, <2>1, <2>2, <2>3, MeasureSteps, Zenon
  <2> QED
    BY <1>0, <2>4 DEF AtMost, Capped
<1>4. CASE state = 2 /\ callback = "none"
  <2>1. safe >= 1 /\ safe \in 0 .. 2
    BY <1>0, <1>2, <1>4, Zenon DEF FirstPressSafe, Capped
  <2>2. safe' \in {safe, AtMost(safe + 1, 2)}
    BY <1>0, <1>1, <1>4, MeasureSteps, Zenon
  <2> QED
    BY <2>1, <2>2 DEF AtMost
<1>5. ReleaseFirst \/ (state = 2 /\ callback = "none")
  <2>1. Next
    BY DEF HoldsNext
  <2>2. Click \/ AwaitSecond => state = 2 /\ callback = "none"
    BY Zenon DEF Click, AwaitSecond, Sample
  <2> QED
    BY <2>1, <2>2, StateAfter DEF Next, ticker
<1> QED
  BY <1>3, <1>4, <1>5

\* The long press begins in one step and goes on in another.
LEMMA LongPressSteps ==
    AnswersFitState /\ Next /\ isLongPressed' =>
        \/ LongPressStart
        \/ DuringLongPress /\ isLongPressed
<1> SUFFICES ASSUME AnswersFitState, Next, isLongPressed', ~LongPressStart
             PROVE  DuringLongPress /\ isLongPressed
  OBVIOUS
<1>1. CASE DuringLongPress
  BY <1>1, Zenon DEF DuringLongPress, Sample, AnswersFitState
<1>2. CASE LongPressStop
  BY <1>2, Zenon DEF LongPressStop
<1>3. ASSUME UNCHANGED isLongPressed, state # 6 \/ callback # "none" PROVE FALSE
  BY <1>3, Zenon DEF AnswersFitState
<1>4. CASE Return
  BY <1>3, <1>4, Zenon DEF Return
<1>5. CASE Rest \/ PressDown \/ Bounce \/ ReleaseFirst \/ HoldFirst
  <2>1. state \in {0, 1} /\ UNCHANGED isLongPressed
    BY <1>5, Zenon DEF Rest, PressDown, Bounce, ReleaseFirst, HoldFirst
  <2>2. state # 6
    BY <2>1
  <2> QED
    BY <1>3, <2>1, <2>2
<1>6. CASE Click \/ PressSecond \/ AwaitSecond \/ DoubleClick \/ HoldSecond
  <2>1. state \in {2, 3} /\ UNCHANGED isLongPressed
    BY <1>6, Zenon DEF Click, PressSecond, AwaitSecond, DoubleClick, HoldSecond
  <2>2. state # 6
    BY <2>1
  <2> QED
    BY <1>3, <2>1, <2>2
<1> QED
  BY <1>1, <1>2, <1>4, <1>5, <1>6 DEF Next, ticker

LEMMA NextLongPressHeld ==
    HInv /\ TypeOK' /\ HoldsNext => (isLongPressed => level)' /\ LongPressHeld'
<1> SUFFICES ASSUME HInv, TypeOK', HoldsNext, isLongPressed'
             PROVE  level' /\ (~wrapped' => held' > PressTicks)
  BY Zenon DEF LongPressHeld
<1>0. now \in Ticks /\ now' \in Ticks /\ startTime \in Ticks /\ Capped /\ Measure /\ Next
      /\ AnswersFitState /\ FirstPressSeen /\ (isLongPressed => level) /\ LongPressHeld
  BY Zenon DEF HInv, IInv, TypeOK, HoldsNext
<1>1. LongPressStart \/ (DuringLongPress /\ isLongPressed)
  BY <1>0, LongPressSteps, Zenon
<1>2. level'
  BY <1>1, SampleDown, Zenon DEF LongPressStart, DuringLongPress
<1>3. ~AtRest(state', callback', level')
  BY <1>2, Zenon DEF AtRest
<1>4. ASSUME ~wrapped'
      PROVE  /\ ~wrapped /\ now <= now' /\ held \in 0 .. HoldCap
             /\ level => held' = AtMost(held + (now' - now), HoldCap)
  BY <1>0, <1>2, <1>3, <1>4, MeasureSteps, Zenon DEF Capped
<1>5. ASSUME LongPressStart, ~wrapped' PROVE held' > PressTicks
  <2>1. state = 1 /\ Elapsed(startTime, now') > PressTicks
    BY <1>5, Zenon DEF LongPressStart
  <2>2. level /\ startTime <= now /\ held >= AtMost(now - startTime, HoldCap)
    BY <1>0, <1>4, <1>5, <2>1, Zenon DEF AnswersFitState, FirstPressSeen
  <2> QED
    BY <1>0, <1>4, <1>5, <2>1, <2>2, Grown, Zenon
<1>6. ASSUME DuringLongPress, isLongPressed, ~wrapped' PROVE held' > PressTicks
  <2>1. level /\ held > PressTicks
    BY <1>0, <1>4, <1>6, Zenon DEF LongPressHeld
  <2> QED
    BY <1>0, <1>4, <1>6, <2>1, StillLong, Zenon
<1> QED
  BY <1>1, <1>2, <1>5, <1>6, Zenon

LEMMA NextHInv == HInv /\ [HoldsNext]_<<vars, holdVars>> => HInv'
<1> SUFFICES ASSUME HInv, [HoldsNext]_<<vars, holdVars>> PROVE HInv'
  OBVIOUS
<1>1. CASE HoldsNext
  <2>1. IInv' /\ TypeOK'
    BY <1>1, NextIInv DEF HInv, HoldsNext, IInv
  <2>2. Capped'
    BY <1>1, <2>1, MeasureSteps, Zenon DEF HInv, IInv, TypeOK, HoldsNext
  <2> QED
    BY <1>1, <2>1, <2>2, NextFirstPressSeen, NextFirstPressSafe, NextLongPressHeld DEF HInv
<1>2. CASE UNCHANGED <<vars, holdVars>>
  <2>1. IInv'
    BY <1>2, NextIInv DEF HInv
  <2> QED
    BY <1>2, <2>1 DEF HInv, Capped, FirstPressSeen, FirstPressSafe, LongPressHeld,
                      vars, holdVars
<1> QED
  BY <1>1, <1>2

\* isLongPressed() is true only when the button was really held longer than
\* _pressTicks without a break, unless the tick wrapped on the way.
THEOREM LongPressesHeld == HoldsSpec => []LongPressHeld
BY InitHInv, NextHInv, PTL DEF HoldsSpec, HInv

\* singleClick_CB is called only for a press that was really held at least
\* _debounceTicks, unless the tick wrapped on the way.
THEOREM ClicksHeld == HoldsSpec => []ClickHeld
<1>1. HInv => ClickHeld
  BY DEF HInv, IInv, AnswersFitState, FirstPressSafe, ClickHeld
<1> QED
  BY <1>1, InitHInv, NextHInv, PTL DEF HoldsSpec
-----------------------------------------------------------------------------
(* The menu.                                                               *)

\* Every position of a call holds a character.
LEMMA CallAt ==
    ASSUME NEW c \in Calls, NEW i \in 0 .. LastPos
    PROVE  c[i] \in Char
BY SelectorAssumption

LEMMA FindFinds ==
    ASSUME NEW c \in Char
    PROVE  /\ Find(c, ListSize) \in 0 .. ListSize
           /\ Find(c, ListSize - 1) \in 0 .. ListSize
           /\ c < ListSize => Find(c, ListSize) = c /\ Find(c, ListSize - 1) = c
BY SelectorAssumption DEF Char, Find

MenuInv == MenuTypeOK /\ FlagsFitState /\ SelectorMarksCursor

\* The fields of a new object: no selector, or one that marks its first
\* character.
LEMMA NewObject ==
    ASSUME NEW class \in States, cfgCall \in Calls, setState(class)
    PROVE  /\ button_state' = class /\ button_config_mode' = NoItem
           /\ selector' \in SelectorType /\ SelectorMarksCursor'
<1>1. 0 \in 0 .. LastPos /\ 0 \in 0 .. ListSize
  BY SelectorAssumption
<1>2. cfgCall[0] \in Char
  BY <1>1, CallAt
<1>3. NewSelector \in SelectorType
  BY <1>1, <1>2, FindFinds DEF NewSelector, SelectorType
<1>4. NoSelector \in SelectorType
  BY <1>1, SelectorAssumption DEF NoSelector, SelectorType
<1>5. CASE class = "ConfigStringSelector"
  <2>1. selector' = NewSelector
    BY <1>5 DEF setState
  <2>2. NewSelector.tmp = cfgCall /\ NewSelector.pos = 0
        /\ NewSelector.idx = Find(cfgCall[0], ListSize - 1)
    BY DEF NewSelector
  <2>3. cfgCall[0] < ListSize => NewSelector.idx = cfgCall[0]
    BY <1>2, <2>2, FindFinds
  <2> QED
    BY <1>3, <1>5, <2>1, <2>2, <2>3 DEF setState, SelectorMarksCursor
<1>6. CASE class # "ConfigStringSelector"
  BY <1>4, <1>6 DEF setState, SelectorMarksCursor
<1> QED
  BY <1>5, <1>6 DEF setState

LEMMA InitMenuInv == MenuInit => MenuInv
<1> SUFFICES ASSUME MenuInit PROVE MenuInv
  OBVIOUS
<1>1. NoSelector \in SelectorType
  <2>1. 0 \in 0 .. LastPos /\ 0 \in 0 .. ListSize
    BY SelectorAssumption
  <2> QED
    BY <2>1, SelectorAssumption DEF NoSelector, SelectorType
<1>2. NoItem \in NoItem .. MenuItems - 1
  BY DEF NoItem, MenuItems
<1> QED
  BY <1>1, <1>2, Zenon DEF MenuInit, MenuInv, MenuTypeOK, FlagsFitState, SelectorMarksCursor,
     States, ConfigStates

\* The three gestures, in every state, and what comes between them.
LEMMA NextMenuInv == MenuInv /\ [MenuNext]_menuVars => MenuInv'
<1> SUFFICES ASSUME MenuInv, [MenuNext]_menuVars PROVE MenuInv'
  OBVIOUS
<1> USE DEF MenuInv
<1>0. /\ "StateDefault" \in States /\ "StateDisplayMode" \in States
      /\ "StateConfigMenue" \in States /\ "ConfigStringSelector" \in States
      /\ NoItem \in NoItem .. MenuItems - 1
      /\ cfgCall \in Calls
  BY DEF States, NoItem, MenuItems, MenuTypeOK
<1>1. ASSUME UNCHANGED <<button_state, selector>> PROVE SelectorMarksCursor'
  BY <1>1 DEF SelectorMarksCursor
<1>2. ASSUME UNCHANGED <<button_state, display_change, display_update,
                         button_config_mode, selector>>,
              cfgCall' \in Calls, running' \in BOOLEAN
       PROVE  MenuInv'
  BY <1>1, <1>2, Zenon DEF MenuTypeOK, FlagsFitState
<1>3. UNCHANGED menuVars => MenuInv'
  <2>1. UNCHANGED menuVars => /\ UNCHANGED <<button_state, display_change, display_update,
                                             button_config_mode, selector>>
                              /\ cfgCall' = cfgCall /\ running' = running
    BY Zenon DEF menuVars
  <2>2. cfgCall \in Calls /\ running \in BOOLEAN
    BY DEF MenuTypeOK
  <2> QED
    BY <1>2, <2>1, <2>2, Zenon
<1>4. CASE DefaultSingleClick
  <2>1. setState("StateDisplayMode") /\ UNCHANGED <<cfgCall, running>>
        /\ display_change' = FALSE /\ display_update' = display_update
        /\ button_state = "StateDefault"
    BY <1>4, Zenon DEF DefaultSingleClick, Show, Enabled
  <2>2. /\ button_state' = "StateDisplayMode" /\ button_config_mode' = NoItem
        /\ selector' \in SelectorType /\ SelectorMarksCursor'
    BY <1>0, <2>1, NewObject
  <2> QED
    BY <1>0, <2>1, <2>2, Zenon DEF MenuTypeOK, FlagsFitState, ConfigStates
<1>5. CASE DefaultLongClick
  <2>1. setState("StateConfigMenue") /\ UNCHANGED <<cfgCall, running>>
        /\ display_change' = FALSE /\ display_update' = FALSE
    BY <1>5, Zenon DEF DefaultLongClick, Show
  <2>2. /\ button_state' = "StateConfigMenue" /\ button_config_mode' = NoItem
        /\ selector' \in SelectorType /\ SelectorMarksCursor'
    BY <1>0, <2>1, NewObject
  <2> QED
    BY <1>0, <2>1, <2>2, Zenon DEF MenuTypeOK, FlagsFitState, ConfigStates
<1>6. CASE DisplayModeDoubleClick
  <2>1. setState("StateDefault") /\ UNCHANGED <<cfgCall, running>>
        /\ display_change' = TRUE /\ display_update' = display_update
        /\ button_state = "StateDisplayMode"
    BY <1>6, Zenon DEF DisplayModeDoubleClick, Show, Enabled
  <2>2. /\ button_state' = "StateDefault" /\ button_config_mode' = NoItem
        /\ selector' \in SelectorType /\ SelectorMarksCursor'
    BY <1>0, <2>1, NewObject
  <2> QED
    BY <1>0, <2>1, <2>2, Zenon DEF MenuTypeOK, FlagsFitState, ConfigStates
<1>7. CASE AbstractLongClick
  <2>1. setState("StateDefault") /\ UNCHANGED <<cfgCall, running>>
        /\ display_change' = TRUE /\ display_update' = TRUE
    BY <1>7, Zenon DEF AbstractLongClick, Show
  <2>2. /\ button_state' = "StateDefault" /\ button_config_mode' = NoItem
        /\ selector' \in SelectorType /\ SelectorMarksCursor'
    BY <1>0, <2>1, NewObject
  <2> QED
    BY <1>0, <2>1, <2>2, Zenon DEF MenuTypeOK, FlagsFitState, ConfigStates
<1>8. CASE ConfigMenueSingleClick
  <2>1. button_config_mode' \in NoItem .. MenuItems - 1
    BY <1>8 DEF ConfigMenueSingleClick, MenuTypeOK, NoItem, MenuItems
  <2> QED
    BY <1>1, <1>8, <2>1, Zenon DEF ConfigMenueSingleClick, MenuTypeOK, FlagsFitState
<1>9. CASE ConfigMenueDoubleClick
  <2>1. CASE button_config_mode = 0
    <3>1. setState("ConfigStringSelector")
          /\ UNCHANGED <<display_change, display_update, cfgCall, running>>
          /\ button_state = "StateConfigMenue"
      BY <1>9, <2>1, Zenon DEF ConfigMenueDoubleClick, Enabled
    <3>2. /\ button_state' = "ConfigStringSelector" /\ button_config_mode' = NoItem
          /\ selector' \in SelectorType /\ SelectorMarksCursor'
      BY <1>0, <3>1, NewObject
    <3> QED
      BY <1>0, <3>1, <3>2, Zenon DEF MenuTypeOK, FlagsFitState, ConfigStates
  <2>2. CASE button_config_mode # 0
    BY <1>3, <1>9, <2>2, Zenon DEF ConfigMenueDoubleClick
  <2> QED
    BY <2>1, <2>2
<1>10. CASE SelectorSingleClick
  <2> DEFINE pos == IF selector.pos + 1 > LastPos THEN 0 ELSE selector.pos + 1
             idx == Find(selector.tmp[pos], ListSize)
  <2>1. selector \in SelectorType
    BY DEF MenuTypeOK
  <2>2. pos \in 0 .. LastPos /\ selector.tmp \in Calls
    BY <2>1, SelectorAssumption DEF SelectorType
  <2>3. selector.tmp[pos] \in Char
    BY <2>2, CallAt, Zenon
  <2>4. idx \in 0 .. ListSize /\ (selector.tmp[pos] < ListSize => idx = selector.tmp[pos])
    BY <2>3, FindFinds, Zenon
  <2>5. selector' = [selector EXCEPT !.pos = pos, !.idx = idx]
    BY <1>10 DEF SelectorSingleClick
  <2> HIDE DEF pos, idx
  <2>6. selector' \in SelectorType /\ selector'.tmp = selector.tmp
        /\ selector'.pos = pos /\ selector'.idx = idx
    BY <2>1, <2>2, <2>4, <2>5 DEF SelectorType
  <2>7. SelectorMarksCursor'
    BY <2>4, <2>6, Zenon DEF SelectorMarksCursor
  <2> QED
    BY <1>10, <2>6, <2>7, Zenon DEF SelectorSingleClick, MenuTypeOK, FlagsFitState
<1>11. CASE SelectorDoubleClick \/ SelectorLongClick
  BY <1>0, <1>2, <1>11, Zenon DEF SelectorDoubleClick, SelectorLongClick, Abort
<1>12. CASE WebSetsCall
  BY <1>0, <1>2, <1>12, Zenon DEF WebSetsCall, MenuTypeOK
<1>13. CASE Restart
  <2>1. setState("StateDefault") /\ running' = TRUE /\ cfgCall' \in Calls
        /\ display_change' = TRUE /\ display_update' = TRUE
    BY <1>13, Zenon DEF Restart, Show
  <2>2. /\ button_state' = "StateDefault" /\ button_config_mode' = NoItem
        /\ selector' \in SelectorType /\ SelectorMarksCursor'
    BY <1>0, <2>1, NewObject
  <2> QED
    BY <1>0, <2>1, <2>2, Zenon DEF MenuTypeOK, FlagsFitState, ConfigStates
<1>14. CASE DefaultDoubleClick \/ DisplayModeSingleClick \/ UNCHANGED menuVars
  BY <1>3, <1>14, Zenon DEF DefaultDoubleClick, DisplayModeSingleClick
<1> QED
  BY <1>4, <1>5, <1>6, <1>7, <1>8, <1>9, <1>10, <1>11, <1>12, <1>13, <1>14
     DEF MenuNext, singleClick, doubleClick, longClick

\* The menu's variables keep their types, whatever gestures reach it in
\* whatever order, over aborts and restarts.
THEOREM MenuTypeCorrect == MenuSpec => []MenuTypeOK
BY InitMenuInv, NextMenuInv, PTL DEF MenuSpec, MenuInv

\* The Scheduler's flags say what may be drawn, whatever way the menu was
\* entered and left.
THEOREM FlagsAlwaysFit == MenuSpec => []FlagsFitState
BY InitMenuInv, NextMenuInv, PTL DEF MenuSpec, MenuInv

\* The constructor's search, one short of the list, and singleClick()'s find
\* the character at the cursor, for every list and every call.
THEOREM CursorMarked == MenuSpec => []SelectorMarksCursor
BY InitMenuInv, NextMenuInv, PTL DEF MenuSpec, MenuInv

-----------------------------------------------------------------------------
(* The task: button and menu together.                                     *)

\* The chip is down only after an abort, which a double click or the end of a
\* long press brought about: the handler never returned to ticker().
AbortedInHandler == ~running => callback \in {"doubleClick", "longPressStop"}

TaskInv == IInv /\ MenuInv /\ AbortedInHandler

LEMMA InitTaskInv == TaskInit => TaskInv
<1>1. TaskInit => IInv /\ MenuInv
  BY InitIInv, InitMenuInv DEF TaskInit
<1>2. TaskInit => AbortedInHandler
  BY DEF TaskInit, MenuInit, AbortedInHandler
<1> QED
  BY <1>1, <1>2 DEF TaskInv

\* What the Scheduler calls is a step of the menu.
LEMMA HandlerIsMenuStep == Handler => MenuNext
BY Zenon DEF Handler, MenuNext

\* A click never aborts.
LEMMA ClickRunsOn == singleClick => running'
<1>1. ASSUME DefaultSingleClick PROVE running /\ running' = running
  BY <1>1, Zenon DEF DefaultSingleClick, Enabled
<1>2. ASSUME DisplayModeSingleClick PROVE running /\ running' = running
  BY <1>2, Zenon DEF DisplayModeSingleClick, Enabled, menuVars
<1>3. ASSUME ConfigMenueSingleClick PROVE running /\ running' = running
  BY <1>3, Zenon DEF ConfigMenueSingleClick, Enabled
<1>4. ASSUME SelectorSingleClick PROVE running /\ running' = running
  BY <1>4, Zenon DEF SelectorSingleClick, Enabled
<1>5. ASSUME running /\ running' = running PROVE running'
  BY <1>5, Zenon
<1> QED
  BY <1>1, <1>2, <1>3, <1>4, <1>5, Zenon DEF singleClick

\* After a restart the button is as it was in the beginning.
LEMMA RebootInit == Reboot => Init'
BY Zenon DEF Reboot, Init

LEMMA InitIInvAgain == Init' => IInv'
BY InitIInv, PTL

LEMMA NextTaskInv == TaskInv /\ [TaskNext]_taskVars => TaskInv'
<1> SUFFICES ASSUME TaskInv, [TaskNext]_taskVars PROVE TaskInv'
  OBVIOUS
<1>0. IInv /\ MenuInv /\ AbortedInHandler
  BY DEF TaskInv
<1>1. CASE TickerStep
  <2>1. [Next]_vars /\ [MenuNext]_menuVars /\ running'
    BY <1>1, Zenon DEF TickerStep, Next, menuVars
  <2> QED
    BY <1>0, <2>1, NextIInv, NextMenuInv DEF TaskInv, AbortedInHandler
<1>2. CASE Dispatch
  <2>1. [Next]_vars /\ [MenuNext]_menuVars /\ running'
    BY <1>2, HandlerIsMenuStep, Zenon DEF Dispatch, Next
  <2> QED
    BY <1>0, <2>1, NextIInv, NextMenuInv DEF TaskInv, AbortedInHandler
<1>3. CASE DispatchAborts
  <2>1. [Next]_vars /\ [MenuNext]_menuVars /\ callback' = callback
    BY <1>3, HandlerIsMenuStep, Zenon DEF DispatchAborts, vars
  <2>2. callback \in {"doubleClick", "longPressStop"}
    BY <1>3, ClickRunsOn, Zenon DEF DispatchAborts, Handler
  <2> QED
    BY <1>0, <2>1, <2>2, NextIInv, NextMenuInv DEF TaskInv, AbortedInHandler
<1>4. CASE OtherTask
  <2>1. [Next]_vars /\ [MenuNext]_menuVars /\ callback' = callback /\ running' = running
    BY <1>4, Zenon DEF OtherTask, WebSetsCall, MenuNext, vars
  <2> QED
    BY <1>0, <2>1, NextIInv, NextMenuInv DEF TaskInv, AbortedInHandler
<1>5. CASE Reboot
  <2>1. IInv'
    BY <1>5, RebootInit, InitIInvAgain
  <2>2. [MenuNext]_menuVars /\ running'
    BY <1>5, Zenon DEF Reboot, Restart, MenuNext
  <2> QED
    BY <1>0, <2>1, <2>2, NextMenuInv DEF TaskInv, AbortedInHandler
<1>6. CASE UNCHANGED taskVars
  <2>1. [Next]_vars /\ [MenuNext]_menuVars /\ callback' = callback /\ running' = running
    BY <1>6, Zenon DEF taskVars, vars, menuVars
  <2> QED
    BY <1>0, <2>1, NextIInv, NextMenuInv DEF TaskInv, AbortedInHandler
<1> QED
  BY <1>1, <1>2, <1>3, <1>4, <1>5, <1>6 DEF TaskNext

\* A restart is, for those who count presses, the end of the answer that was
\* given when the handler aborted: nothing is owed any more.
LEMMA StepTaskPromise == TaskInv /\ TaskInv' /\ [TaskNext]_taskVars => [Promise!Next]_Promise!vars
<1> SUFFICES ASSUME TaskInv, TaskInv', [TaskNext]_taskVars PROVE [Promise!Next]_Promise!vars
  OBVIOUS
<1>1. CASE Reboot
  <2>1. callback \in {"doubleClick", "longPressStop"} /\ ~level
    BY <1>1, Zenon DEF Reboot, Restart, TaskInv, AbortedInHandler, IInv, AnswersFitState
  <2>2. level \in BOOLEAN /\ level' = FALSE /\ state' = 0 /\ callback' = "none"
    BY <1>1, Zenon DEF Reboot, TaskInv, IInv, TypeOK
  <2>3. owed = 0
    BY <2>1 DEF owed, Answers
  <2>4. owed' = 0
    BY <2>2 DEF owed, Answers
  <2>5. level' = level /\ callback # "none"
    BY <2>1, <2>2, Zenon
  <2> QED
    BY <2>2, <2>3, <2>4, <2>5 DEF Promise!Next, Promise!Done
<1>2. ASSUME [Next]_vars PROVE [Promise!Next]_Promise!vars
  BY <1>2, StepPromise DEF TaskInv
<1>3. CASE TickerStep
  BY <1>2, <1>3, Zenon DEF TickerStep, Next
<1>4. CASE Dispatch
  BY <1>2, <1>4, Zenon DEF Dispatch, Next
<1>5. CASE DispatchAborts \/ OtherTask
  BY <1>2, <1>5, Zenon DEF DispatchAborts, OtherTask
<1>6. CASE UNCHANGED taskVars
  BY <1>2, <1>6, Zenon DEF taskVars
<1> QED
  BY <1>1, <1>3, <1>4, <1>5, <1>6 DEF TaskNext

\* Over handlers, aborts in a handler and restarts no press is answered twice,
\* and none moves the menu without its presses.
THEOREM TaskRefinement == TaskSpec => TaskImplementsGestures
<1>1. TaskInit => Promise!Init
  BY InitPromise DEF TaskInit
<1> QED
  BY <1>1, InitTaskInv, NextTaskInv, StepTaskPromise, PTL
     DEF TaskSpec, TaskImplementsGestures, Promise!Spec

\* The same flags, when it is the button that moves the menu.
THEOREM TaskFlagsFit == TaskSpec => []FlagsFitState
BY InitTaskInv, NextTaskInv, PTL DEF TaskSpec, TaskInv, MenuInv

\* The same cursor, while the web server's task changes the call.
THEOREM TaskCursorMarked == TaskSpec => []SelectorMarksCursor
BY InitTaskInv, NextTaskInv, PTL DEF TaskSpec, TaskInv, MenuInv
=============================================================================
