SPECIFICATION RowSpec
CONSTANTS
    departureTime = 0
    arraySeats = {A1, A2, A3}
    Flights = {f1}
    Seats = {A1}
    BookingIds = {b1, b2}
    PaymentIds = {p1, p2}
    Crons = {c1}
    Connections = {d1, d2}
    Sweeper = d0
    DepartureTime <- MCDepartureTime
    InitialReservation = 1
    RetryExtension = 2
    MaxRetries = 1
    BatchSize = 1
    MaxCopies = 1
    MaxLockWait = 1
    ArrivalsUntil = 0
    RequestsUntil = 1
    MaxTime = 2
SYMMETRY RowSymmetry
INVARIANTS
    SnapshotIsCurrent
    NoDeadlock
PROPERTIES
    ActsAtomically
CHECK_DEADLOCK FALSE
