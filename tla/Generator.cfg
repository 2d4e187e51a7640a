SPECIFICATION FairSpec
CONSTANTS
    Configs <- GeneratorConfigs
    MaxPaymentAttempts = 2
    MaxViews = 1
    MaxJourneys = 3
    Lateness = 2
CHECK_DEADLOCK FALSE
INVARIANTS
    TypeOK
    CleanExitDelivered
    CausallyValid
    TimesForward
    TakeoverAfterPurchase
    InjectedVerdicts
PROPERTIES
    RunEnds
