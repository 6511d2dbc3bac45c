SPECIFICATION Spec
CONSTANTS
    departureTime = 2
    Flights = {f1}
    Seats = {A1, A2}
    BookingIds = {b1, b2}
    PaymentIds = {p1, p2}
    Crons = {c1}
    DepartureTime <- MCDepartureTime
    InitialReservation = 2
    RetryExtension = 1
    MaxRetries = 1
    BatchSize = 1
    MaxCopies = 2
    MaxLockWait = 0
    RequestsUntil = 2
    MaxTime = 2
INVARIANTS
    FullMeansAllSeats
CHECK_DEADLOCK FALSE
