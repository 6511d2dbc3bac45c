SPECIFICATION FairSpec
CONSTANTS
    FromFlights = {f1, f2}
    ToFlights = {f1}
    HotKeys = {"from"}
    Readers = {r1}
    RouteTTL = 2
    HotTTL = 1
    FallbackTTL = 2
    MaxChanges = 2
    MaxFaults = 1
INVARIANTS
    TypeOK
    StaleOnlyIfMissed
    SearchIsComplete
PROPERTIES
    StaleEnds
CHECK_DEADLOCK FALSE
