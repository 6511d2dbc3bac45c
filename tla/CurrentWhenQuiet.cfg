SPECIFICATION Spec
CONSTANTS
    FromFlights = {f1, f2}
    ToFlights = {f1}
    HotKeys = {}
    Readers = {r1}
    RouteTTL = 2
    HotTTL = 1
    FallbackTTL = 2
    MaxChanges = 2
    MaxFaults = 0
INVARIANTS
    CurrentWhenQuiet
CHECK_DEADLOCK FALSE
