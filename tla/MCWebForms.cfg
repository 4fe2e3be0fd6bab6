CONSTANTS
    Browser = {b1, b2}
    Keys <- MCKeys
    Loaded <- MCLoaded
    FormsOf <- MCFormsOf
    Menu <- MCMenu
    Unit <- MCUnit
    Typed <- MCTyped
    Reads <- MCReads
    ReadDefault <- MCReadDefault
    Written <- MCWritten
    Fresh <- MCFresh
    Unset = "CHANGEME"
    Password = "letmein42"
    MaxSubmits = 2
    MaxRestarts = 1
SYMMETRY BrowserSymmetry
SPECIFICATION Spec
INVARIANT RefusalIsTold
PROPERTIES UntouchedKeeps SubmittedIsShown RestartShowsStored WizardAsksAP
