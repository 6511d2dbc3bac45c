\* The hot list of one origin, which lists one flight.
SPECIFICATION FairDemandSpec
CONSTANTS
    FromFlights = {f1}
    ToFlights = {f1}
    HotKeys = {"from"}
    Readers = {}
    RouteTTL = 1
    HotTTL = 1
    FallbackTTL = 2
    MaxChanges = 2
    MaxFaults = 1
    Threshold = 2
    MetricTTL = 2
    MaxMishaps = 1
INVARIANTS
    DemandTypeOK
    NoDemandForgotten
    PopularWasSearched
PROPERTIES
    PopularIsPrewarmed
    DemandFades
CHECK_DEADLOCK FALSE
