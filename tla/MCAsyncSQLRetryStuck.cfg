CONSTANTS
    MaxMsg = 2
    MaxRetry = 1
    SemMax = 2
    ConnectFails = FALSE
    Stops = {"drain"}
SPECIFICATION FairSpec
PROPERTY RetriedIsFinished
