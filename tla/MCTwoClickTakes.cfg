CONSTANTS
    ListSize = 3
    LastPos = 3
    Calls <- MCCalls
SPECIFICATION MenuSpec
PROPERTY TwoClickTakes
