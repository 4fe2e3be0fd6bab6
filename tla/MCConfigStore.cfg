CONSTANTS
    Missing = Missing
    Keys <- MCKeys
    Loaded <- MCLoaded
    Values <- MCValues
    ReadDefault <- MCReadDefault
    GlobalDefault <- MCGlobalDefault
    Written <- MCWritten
    MissingValue <- MCMissingValue
    WriteOrder <- MCWriteOrder
    Forms <- MCForms
    FlashFirst <- MCFlashFirst
    Unset <- MCUnset
    Off = 0
    AP = 1
    Client = 2
    Tracker = 0
    MaxRestarts = 2
SPECIFICATION FairSpec
INVARIANTS TypeOK FlashComplete RunsWhatIsStored UnconfiguredCanBeConfigured WriteInitRepeats
PROPERTIES ImplementsDurableConfig ComesUp
CHECK_DEADLOCK FALSE
