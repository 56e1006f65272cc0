SPECIFICATION FairSpec
CONSTANTS
    Seconds = 2
    Tokens = 2
    Counts = 2
    MaxNb = 1
    MaxTrans = 2
    Started = {"mac", "alc"}
    Commands = {"period", "resync", "version", "rejoin"}
    MaxAnswers = 2
    MaxCalls = 3
INVARIANTS AlcTimeRight ServiceGoesOn
PROPERTIES AlcLossReported
CHECK_DEADLOCK FALSE
