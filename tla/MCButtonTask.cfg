CONSTANTS
    DebounceTicks = 1
    ClickTicks = 3
    PressTicks = 4
    TickModulus = 8
    TimeModulus = 100
    MaxLag = 2
    MaxCallback = 1
    DoubleAttached = TRUE
    ListSize = 3
    LastPos = 3
    Calls <- MCCalls
SPECIFICATION TaskSpec
INVARIANTS FlagsFitState SelectorMarksCursor
PROPERTIES TaskImplementsGestures LongClickExits AnswerTaken
