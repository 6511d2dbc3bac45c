SPECIFICATION FairPipeSpec
CONSTANTS
    departureTime = 1
    Flights = {f1}
    Seats = {A1}
    BookingIds = {b1}
    PaymentIds = {p1, p2}
    Crons = {c1}
    DepartureTime <- MCDepartureTime
    InitialReservation = 1
    RetryExtension = 1
    MaxRetries = 1
    BatchSize = 1
    MaxCopies = 1
    MaxLockWait = 0
    RequestsUntil = 0
    MaxTime = 1
    Partitions = {k1, k2}
    Exposed = {p1}
    MaxByHand = 1
    MaxFaults = 1
    PartitionOf <- MCPartitionOf
INVARIANTS
    PipeTypeOK
    RowTellsLastPost
    CommittedWasTried
    HandledIsSettled
    OnlyPaidIsSettled
PROPERTIES
    RedeliveryIsNoOp
    PaidIsSettled
CHECK_DEADLOCK FALSE
