\* Every booking is decided; also the run in which a request may name a seat twice.
SPECIFICATION FairSpec
CONSTANTS
    departureTime = 1
    Flights = {f1}
    Seats = {A1, A2}
    BookingIds = {b1, b2}
    PaymentIds = {p1, p2}
    Crons = {c1}
    DepartureTime <- MCDepartureTime
    InitialReservation = 2
    RetryExtension = 1
    MaxRetries = 1
    BatchSize = 1
    MaxCopies = 2
    MaxLockWait = 0
    RequestsUntil = 1
    MaxTime = 3
INVARIANTS
    SoldOutIsClosed
PROPERTIES
    NeverReopened
    EventuallyDecided
    DepartsInTheEnd
CHECK_DEADLOCK FALSE
