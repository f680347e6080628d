SPECIFICATION Spec
CONSTANTS
    InitSteps = 2
    StepRetries = 2
    MainRetries = 0
    ErrorLimit = 1
    SdLimit = 1
    EndTicks = 2
    CutTicks = {1}
    ResetTicks = 1
    MaxFaults = 3
INVARIANTS TypeOK LoggedInHere WatchOffWhileLinked
PROPERTY ComesBack
