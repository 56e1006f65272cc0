SPECIFICATION FairSpec
CONSTANTS
    MaxDays = 2
    Infinite = 3
    MaxCalls = 6
INVARIANTS TasksInHand DutyCycleBack ReportsGoOn
PROPERTIES UplinkClosed
CHECK_DEADLOCK FALSE
