SPECIFICATION PipeSpec
CONSTANTS
    departureTime = 0
    Flights = {f1}
    Seats = {A1}
    BookingIds = {b1}
    PaymentIds = {p1, p2}
    Crons = {c1}
    DepartureTime <- MCDepartureTime
    InitialReservation = 1
    RetryExtension = 1
    MaxRetries = 1
    BatchSize = 1
    MaxCopies = 1
    MaxLockWait = 0
    RequestsUntil = 0
    MaxTime = 1
    Partitions = {k1, k2}
    Exposed = {}
    MaxByHand = 0
    MaxFaults = 2
    PartitionOf <- MCPartitionOf
INVARIANTS
    TicketNotRefunded
CHECK_DEADLOCK FALSE
