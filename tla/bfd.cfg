SPECIFICATION FairSpec
CONSTANTS
    Nodes <- MCNodes
    RetryTime = 3
    NumDiscr = 3
    Setups <- MCSetups
INVARIANT ThreadsMatchState
INVARIANT StatusReported
INVARIANT DetectsDeath
PROPERTY NoFalseDown
PROPERTY Converges
