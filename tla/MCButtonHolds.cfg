CONSTANTS
    DebounceTicks = 2
    ClickTicks = 5
    PressTicks = 8
    TickModulus = 14
    TimeModulus = 100
    MaxLag = 2
    MaxCallback = 3
    DoubleAttached = TRUE
    HoldCap = 9
SPECIFICATION HoldsFairSpec
INVARIANTS TypeOK AnswersFitState Debounced LongPressHeld ClickHeld
PROPERTIES ImplementsGestures PressAnswered ReturnsToRest
