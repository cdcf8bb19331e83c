CONSTANTS
    MaxMsg = 3
    MaxRetry = 2
    SemMax = 2
    ConnectFails = TRUE
    Stops = {"drain", "quit"}
SPECIFICATION FairSpec
INVARIANTS TypeOK InOrderOnce OneAnswerEach NothingLostWhileRunning NoLostWakeup LossBoundedByRetries
PROPERTIES ImplementsChannel QuitReturns DrainEnds QueryIsTaken QueryIsFinished
