CONSTANTS
    MenuPages = {"Cnfg Mode"}
    MaxMenuPages = 1
SPECIFICATION FairSpec
INVARIANT CleanUnlessOverlapped
PROPERTIES Recovers AllPagesShown
