CONSTANTS
    Validity = 3
    NumTry = 3
    MaxHeight = 8
SPECIFICATION SendSpec
INVARIANT ConfirmedIsExecuted
PROPERTIES
    TimeoutIsFinal
    CallEnds
