SPECIFICATION FairSpec
CONSTANTS
    FifoSize = 15
    DefaultWl = 9
    Wls = {4, 9}
    RvecMin = 1
    MaxSysc = 6
    Rates = {0, 50}
    Intervals = {0}
    Rooms = {7, 12}
    Payloads <- SomePayloads
    Tag = 2
    Octets = 4
    Words = 32
    MaxRecords = 3
    MaxOrders = 3
INVARIANTS TypeOK Areas  RecordsBack
PROPERTIES Drains
CHECK_DEADLOCK FALSE
