SPECIFICATION Spec
CONSTANTS
    departureTime = 2
    Flights = {f1}
    Seats = {A1, A2}
    BookingIds = {b1, b2}
    PaymentIds = {p1, p2, p3}
    Crons = {c1, c2}
    DepartureTime <- MCDepartureTime
    InitialReservation = 2
    RetryExtension = 1
    MaxRetries = 1
    BatchSize = 2
    MaxCopies = 1
    MaxLockWait = 1
    RequestsUntil = 2
    MaxTime = 4
SYMMETRY IdSymmetry
INVARIANTS
    TypeOK
    SeatLedger
    SeatExclusive
    CleanupCoversLive
    StatusMirrorsActive
    TerminalClosesPayments
    SuccessSettled
    AttemptsBounded
PROPERTIES
    TerminalIsFinal
    NoFalseExpiry
    ConfirmedOnUnrefunded
    SellsSeats
CHECK_DEADLOCK FALSE
