SPECIFICATION FairSpec
CONSTANTS
    Range = 4
    down_timer_adverts = 3
    MaxDelay = 1
    Setups <- MCSetups
INVARIANT DualBounded
INVARIANT TakesOverInTime
PROPERTY TakesOverAfterSilence
PROPERTY PreemptsAfterDelay
PROPERTY Converges
