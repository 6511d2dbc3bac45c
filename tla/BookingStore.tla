---------------------------- MODULE BookingStore ----------------------------
(***************************************************************************)
(* The booking database: the four PostgreSQL tables and every transaction  *)
(* the services run on them, one action per committed transaction.         *)
(*                                                                         *)
(*   api             CreateBooking, RetryPayment                           *)
(*   booking-worker  ProcessPaymentCallback                                *)
(*   cron-worker     RunCleanup, one action per row of the batch, and      *)
(*                   DepartureSweep                                        *)
(*                                                                         *)
(* Each transaction locks the rows it reads (SELECT ... FOR UPDATE) before *)
(* it decides anything, which is why one step may stand for it; RowLocks   *)
(* takes the transactions apart and shows that this is so.                 *)
(***************************************************************************)
EXTENDS Naturals, FiniteSets, Sequences, Functions

CONSTANTS
    Flights,             \* rows of flights, all made by the seeder
    Seats,               \* constants.AllSeats
    BookingIds,          \* the bi_<uuid> that requests may draw
    PaymentIds,          \* the pi_<uuid> that requests may draw
    Crons,               \* cron-worker processes running the cleanup loop
    DepartureTime,       \* flights.departure_time
    InitialReservation,  \* cfg.InitialReservationMinutes
    RetryExtension,      \* cfg.RetryExtensionMinutes
    MaxRetries,          \* cfg.MaxRetries
    BatchSize,           \* the 100 that runCleanup passes to RunCleanup
    MaxCopies,           \* bound: times a request may name the same seat
    MaxLockWait,         \* bound: age of a request's clock reading at commit
    RequestsUntil,       \* bound: no request arrives later
    MaxTime              \* bound: the clock stops here

ASSUME ConstantsAssumption ==
    /\ DepartureTime \in [Flights -> Nat]
    /\ InitialReservation \in Nat /\ RetryExtension \in Nat
    /\ MaxRetries \in Nat /\ BatchSize \in Nat \ {0} /\ MaxCopies \in Nat
    /\ MaxLockWait \in Nat /\ RequestsUntil \in Nat /\ MaxTime \in Nat
    /\ IsFiniteSet(Seats) /\ Seats # {}

VARIABLES
    flights,    \* [Flights -> Flight]
    bookings,   \* booking_intents: a function from the ids in use to rows
    payments,   \* payment_intents: likewise
    cleanup,    \* booking_intent_cleanup: booking id -> expiry
    batch,      \* rows each cron has fetched and not yet processed
    refunded,   \* payment intents for which a REFUND line was logged
    now         \* the wall clock, in minutes

vars == <<flights, bookings, payments, cleanup, batch, refunded, now>>

-----------------------------------------------------------------------------
(* Rows.  A text[] column is the function that counts each seat in it.     *)

SeatList == [Seats -> Nat]
NoSeats == [s \in Seats |-> 0]
Taken(list) == {s \in Seats : list[s] > 0}
Length(list) == SumFunction(list)
TotalSeats == Cardinality(Seats)

FlightStatus == {"SCHEDULED", "FULLY_BOOKED", "DEPARTED"}
BookingStatus == {"PENDING", "PAYMENT_FAILED", "CONFIRMED", "EXPIRED"}
PaymentStatus == {"INITIATED", "SUCCESS", "FAILED", "EXPIRED"}
CallbackStatus == {"SUCCESS", "FAILED"}

IsTerminal(status) == status \in {"CONFIRMED", "EXPIRED"}
IsRetryable(status) == status \in {"PENDING", "PAYMENT_FAILED"}

Flight == [status : FlightStatus, reserved : SeatList, booked : SeatList]
Booking == [flight : Flights, seats : SeatList, active : PaymentIds,
            status : BookingStatus, retryCount : Nat, expiresAt : Nat]
Payment == [booking : BookingIds, status : PaymentStatus]

EmptyTable == [k \in {} |-> k]
\* INSERT of a row whose key is new.
Insert(table, key, row) ==
    [k \in DOMAIN table \union {key} |-> IF k = key THEN row ELSE table[k]]
\* DELETE ... WHERE booking_intent_id = key: no row, no effect.
Delete(table, key) == Restrict(table, DOMAIN table \ {key})

\* Mistake: the filtered array is not the one that is stored.
RemoveSeatsUnstored(from, toRemove) == from

\* removeSeats and removeSeatsSlice: every copy of a named seat goes.
RemoveSeats(from, toRemove) ==
    [s \in Seats |-> IF toRemove[s] > 0 THEN 0 ELSE from[s]]
\* array_cat, and the append in the confirming callback.
AppendSeats(to, more) == [s \in Seats |-> to[s] + more[s]]

\* Mistake: the UPDATE is left out.
ExpireInitiatedOmitted(table, b, keep) == table

\* UPDATE payment_intents SET status = 'EXPIRED'
\*   WHERE booking_intent_id = b AND status = 'INITIATED', sparing those in keep.
ExpireInitiated(table, b, keep) ==
    [p \in DOMAIN table |->
        IF table[p].booking = b /\ table[p].status = "INITIATED" /\ p \notin keep
        THEN [table[p] EXCEPT !.status = "EXPIRED"] ELSE table[p]]

SetPayment(p, status) == [payments EXCEPT ![p].status = status]

Init ==
    /\ flights = [f \in Flights |->
           [status |-> "SCHEDULED", reserved |-> NoSeats, booked |-> NoSeats]]
    /\ bookings = EmptyTable /\ payments = EmptyTable /\ cleanup = EmptyTable
    /\ batch = [c \in Crons |-> << >>]
    /\ refunded = {}
    /\ now = 0

-----------------------------------------------------------------------------
(* api.  Both requests read the clock before they wait for a row lock, so  *)
(* a request that commits now computed its expiry at an earlier time t.    *)

RequestTimes == {t \in 0..now : now - t <= MaxLockWait}

\* Request bodies: binding:"required,min=1" refuses an empty seat list;
\* nothing refuses a seat named twice.
SeatRequests == {list \in [Seats -> 0..MaxCopies] : Taken(list) # {}}

\* Mistake: only the seats already sold count as taken.
SeatsAvailableBooked(row, list) == Taken(list) \intersect Taken(row.booked) = {}

SeatsAvailable(row, list) ==
    Taken(list) \intersect (Taken(row.reserved) \union Taken(row.booked)) = {}

CreateBooking(b, p, f, list, t) ==
    /\ now <= RequestsUntil
    /\ b \notin DOMAIN bookings /\ p \notin DOMAIN payments
    /\ flights[f].status = "SCHEDULED"
    /\ SeatsAvailable(flights[f], list)
    /\ flights' = [flights EXCEPT ![f].reserved = AppendSeats(flights[f].reserved, list)]
    /\ bookings' = Insert(bookings, b,
           [flight |-> f, seats |-> list, active |-> p, status |-> "PENDING",
            retryCount |-> 0, expiresAt |-> t + InitialReservation])
    /\ payments' = Insert(payments, p, [booking |-> b, status |-> "INITIATED"])
    /\ cleanup' = Insert(cleanup, b, t + InitialReservation)
    /\ UNCHANGED <<batch, refunded, now>>

\* Mistake: one retry too many.
MayRetryOnceMore(bi) ==
    ~IsTerminal(bi.status) /\ IsRetryable(bi.status) /\ bi.retryCount <= MaxRetries

MayRetry(bi) ==
    ~IsTerminal(bi.status) /\ IsRetryable(bi.status) /\ bi.retryCount < MaxRetries

\* Mistake: the status is not set back to PENDING.
RetriedAsIs(bi, p, expiry) ==
    [bi EXCEPT !.active = p, !.retryCount = bi.retryCount + 1, !.expiresAt = expiry]

Retried(bi, p, expiry) ==
    [bi EXCEPT !.active = p, !.status = "PENDING", !.retryCount = bi.retryCount + 1,
               !.expiresAt = expiry]

\* Mistake: only the booking gets the new expiry.
SetExpiryOmitted(b, expiry) == cleanup

\* UPDATE booking_intent_cleanup SET expiry ... WHERE: no row, no effect.
SetExpiry(b, expiry) ==
    [k \in DOMAIN cleanup |-> IF k = b THEN expiry ELSE cleanup[k]]

RetryPayment(b, p, t) ==
    /\ now <= RequestsUntil
    /\ b \in DOMAIN bookings /\ p \notin DOMAIN payments
    /\ MayRetry(bookings[b])
    /\ bookings' = [bookings EXCEPT ![b] = Retried(bookings[b], p, t + RetryExtension)]
    /\ payments' = Insert(payments, p, [booking |-> b, status |-> "INITIATED"])
    /\ cleanup' = SetExpiry(b, t + RetryExtension)
    /\ UNCHANGED <<flights, batch, refunded, now>>

-----------------------------------------------------------------------------
(* booking-worker: ProcessPaymentCallback, one action per branch.  A       *)
(* callback that names no payment intent is logged and dropped (no step).  *)

\* Mistake: the terminal branch is missing.
IsActivePIUndecided(bi, p) == p = bi.active
\* Mistake: any payment intent of the booking will do.
IsActivePIOfBooking(bi, p) == ~IsTerminal(bi.status)

\* p is what its booking, still undecided, is waiting for.
IsActivePI(bi, p) == ~IsTerminal(bi.status) /\ p = bi.active

\* Mistake: a late success is recorded and not refunded.
RefundIfPaidNever(p, status) == refunded' = refunded

\* Mistake: a late callback is refunded whatever it says.
RefundIfPaidAlways(p, status) == refunded' = refunded \union {p}

\* The code logs a refund and sends none: the log line is all there is.
RefundIfPaid(p, status) ==
    refunded' = IF status = "SUCCESS" THEN refunded \union {p} ELSE refunded

\* Mistake: off by one.
IsFullLate(booked) == Length(booked) > TotalSeats

IsFull(booked) == Length(booked) >= TotalSeats

\* The flight row once the seats of bi are sold.
Confirmed(row, bi) ==
    LET newBooked == AppendSeats(row.booked, bi.seats) IN
        [reserved |-> RemoveSeats(row.reserved, bi.seats),
         booked |-> newBooked,
         status |-> IF IsFull(newBooked) THEN "FULLY_BOOKED" ELSE row.status]

\* The active payment intent of a live booking succeeded.
ConfirmBooking(p) ==
    LET b == payments[p].booking
        bi == bookings[b]
    IN  /\ IsActivePI(bi, p)
        /\ bookings' = [bookings EXCEPT ![b].status = "CONFIRMED"]
        /\ flights' = [flights EXCEPT ![bi.flight] = Confirmed(flights[bi.flight], bi)]
        /\ payments' = ExpireInitiated(SetPayment(p, "SUCCESS"), b, {p})
        /\ cleanup' = Delete(cleanup, b)
        /\ UNCHANGED <<batch, refunded, now>>

\* Mistake: the payment's status is written to the booking.
FailBookingStatus(p) ==
    LET b == payments[p].booking IN
        /\ IsActivePI(bookings[b], p)
        /\ bookings' = [bookings EXCEPT ![b].status = "FAILED"]
        /\ payments' = SetPayment(p, "FAILED")
        /\ UNCHANGED <<flights, cleanup, batch, refunded, now>>

\* Mistake: a failed booking is taken off the cleanup table.
FailBookingUncovered(p) ==
    LET b == payments[p].booking IN
        /\ IsActivePI(bookings[b], p)
        /\ bookings' = [bookings EXCEPT ![b].status = "PAYMENT_FAILED"]
        /\ payments' = SetPayment(p, "FAILED")
        /\ cleanup' = Delete(cleanup, b)
        /\ UNCHANGED <<flights, batch, refunded, now>>

\* The active payment intent of a live booking failed: the seats stay held.
FailBooking(p) ==
    LET b == payments[p].booking IN
        /\ IsActivePI(bookings[b], p)
        /\ bookings' = [bookings EXCEPT ![b].status = "PAYMENT_FAILED"]
        /\ payments' = SetPayment(p, "FAILED")
        /\ UNCHANGED <<flights, cleanup, batch, refunded, now>>

\* A payment intent that a retry has replaced: recorded, and refunded if paid.
StaleCallback(p, status) ==
    LET bi == bookings[payments[p].booking] IN
        /\ ~IsTerminal(bi.status) /\ p # bi.active
        /\ payments' = SetPayment(p, status)
        /\ RefundIfPaid(p, status)
        /\ UNCHANGED <<flights, bookings, cleanup, batch, now>>

\* Mistake: a callback for a decided booking is dropped.
TerminalCallbackDropped(p, status) ==
    /\ IsTerminal(bookings[payments[p].booking].status)
    /\ UNCHANGED vars

\* The booking is CONFIRMED or EXPIRED already: recorded, and refunded if paid.
TerminalCallback(p, status) ==
    /\ IsTerminal(bookings[payments[p].booking].status)
    /\ payments' = SetPayment(p, status)
    /\ RefundIfPaid(p, status)
    /\ UNCHANGED <<flights, bookings, cleanup, batch, now>>

ProcessPaymentCallback(p, status) ==
    /\ p \in DOMAIN payments
    /\ \/ TerminalCallback(p, status)
       \/ status = "SUCCESS" /\ ConfirmBooking(p)
       \/ status = "FAILED" /\ FailBooking(p)
       \/ StaleCallback(p, status)

-----------------------------------------------------------------------------
(* cron-worker.  RunCleanup reads the overdue rows outside any transaction *)
(* and then gives each of them a transaction of its own.                   *)

Overdue == {b \in DOMAIN cleanup : cleanup[b] <= now}

\* WHERE expiry <= now ORDER BY expiry ASC LIMIT batchSize
IsOldestFirst(q) ==
    /\ IsInjective(q)
    /\ \A i, j \in DOMAIN q : i < j => cleanup[q[i]] <= cleanup[q[j]]
    /\ \A b \in Overdue \ Range(q) :
           Len(q) = BatchSize /\ \A i \in DOMAIN q : cleanup[q[i]] <= cleanup[b]

CleanupBatches == {q \in UNION {[1..n -> Overdue] : n \in 1..BatchSize} : IsOldestFirst(q)}

RunCleanup(c) ==
    /\ batch[c] = << >>
    /\ \E q \in CleanupBatches : batch' = [batch EXCEPT ![c] = q]
    /\ UNCHANGED <<flights, bookings, payments, cleanup, refunded, now>>

\* Mistake: the fetched row is trusted.
IsDueAsFetched(bi) == TRUE

\* The expiry in force, read again under the row lock.
IsDue(bi) == bi.expiresAt <= now
\* Mistake: the sold seats are not counted.
HasRoomUnreserved(reserved, booked) == Length(reserved) < TotalSeats

HasRoom(reserved, booked) == Length(reserved) + Length(booked) < TotalSeats

RowDone(c) == batch' = [batch EXCEPT ![c] = Tail(@)]

\* The booking was decided after the row was fetched.
CleanupDecided(c) ==
    LET b == Head(batch[c]) IN
        /\ batch[c] # << >>
        /\ IsTerminal(bookings[b].status)
        /\ cleanup' = Delete(cleanup, b)
        /\ RowDone(c)
        /\ UNCHANGED <<flights, bookings, payments, refunded, now>>

\* A retry moved the expiry after the row was fetched.
CleanupExtended(c) ==
    LET b == Head(batch[c]) IN
        /\ batch[c] # << >>
        /\ ~IsTerminal(bookings[b].status) /\ ~IsDue(bookings[b])
        /\ cleanup' = SetExpiry(b, bookings[b].expiresAt)
        /\ RowDone(c)
        /\ UNCHANGED <<flights, bookings, payments, refunded, now>>

\* The flight row once the seats of bi are no longer held.
Released(row, bi) ==
    LET newReserved == RemoveSeats(row.reserved, bi.seats)
        reopened == row.status = "FULLY_BOOKED" /\ HasRoom(newReserved, row.booked)
    IN  [row EXCEPT !.reserved = newReserved,
                    !.status = IF reopened THEN "SCHEDULED" ELSE row.status]

ExpireBooking(c) ==
    LET b == Head(batch[c])
        bi == bookings[b]
    IN  /\ batch[c] # << >>
        /\ ~IsTerminal(bi.status) /\ IsDue(bi)
        /\ bookings' = [bookings EXCEPT ![b].status = "EXPIRED"]
        /\ payments' = ExpireInitiated(payments, b, {})
        /\ flights' = [flights EXCEPT ![bi.flight] = Released(flights[bi.flight], bi)]
        /\ cleanup' = Delete(cleanup, b)
        /\ RowDone(c)
        /\ UNCHANGED <<refunded, now>>

ProcessCleanupRow(c) == CleanupDecided(c) \/ CleanupExtended(c) \/ ExpireBooking(c)

\* The row's transaction fails and rolls back: logged, on to the next row.
CleanupRowError(c) ==
    /\ batch[c] # << >>
    /\ RowDone(c)
    /\ UNCHANGED <<flights, bookings, payments, cleanup, refunded, now>>

\* The cron process dies: its batch lived in memory only.
CronCrash(c) ==
    /\ batch[c] # << >>
    /\ batch' = [batch EXCEPT ![c] = << >>]
    /\ UNCHANGED <<flights, bookings, payments, cleanup, refunded, now>>

\* Mistake: only flights on sale are swept.
IsDepartedOrFull(row) == row.status # "SCHEDULED"

\* status NOT IN ('DEPARTED')
IsDeparted(row) == row.status = "DEPARTED"

\* NOW() is the time t at which the statement began: it too waits for rows.
\* A row that was DEPARTED then, and was sold out while the statement waited
\* for others, is not among those it updates.
DepartureSweep(t) ==
    LET due == {f \in Flights : DepartureTime[f] < t /\ ~IsDeparted(flights[f])} IN
        /\ due # {}
        /\ \E swept \in SUBSET due :
               /\ {f \in due : flights[f].status = "SCHEDULED"} \subseteq swept
               /\ flights' = [f \in Flights |->
                      IF f \in swept THEN [flights[f] EXCEPT !.status = "DEPARTED"]
                      ELSE flights[f]]
        /\ UNCHANGED <<bookings, payments, cleanup, batch, refunded, now>>

Tick ==
    /\ now < MaxTime
    /\ now' = now + 1
    /\ UNCHANGED <<flights, bookings, payments, cleanup, batch, refunded>>

-----------------------------------------------------------------------------

CronStep(c) ==
    \/ RunCleanup(c)
    \/ ProcessCleanupRow(c)
    \/ CleanupRowError(c)
    \/ CronCrash(c)

Next ==
    \/ \E b \in BookingIds, p \in PaymentIds, f \in Flights :
           \E list \in SeatRequests, t \in RequestTimes : CreateBooking(b, p, f, list, t)
    \/ \E b \in BookingIds, p \in PaymentIds : \E t \in RequestTimes : RetryPayment(b, p, t)
    \/ \E p \in PaymentIds, status \in CallbackStatus : ProcessPaymentCallback(p, status)
    \/ \E c \in Crons : CronStep(c)
    \/ \E t \in RequestTimes : DepartureSweep(t)
    \/ Tick

Spec == Init /\ [][Next]_vars

\* The clock and the cron's tickers never stop.  A row's transaction and its
\* process may fail, but not for ever: strong fairness, because the row is
\* pending only between a fetch and a failure.
Fairness ==
    /\ WF_vars(Tick)
    /\ \A c \in Crons : WF_vars(RunCleanup(c)) /\ SF_vars(ProcessCleanupRow(c))
    /\ WF_vars(\E t \in RequestTimes : DepartureSweep(t))

FairSpec == Spec /\ Fairness

-----------------------------------------------------------------------------
(* Properties.                                                             *)

\* Every row has the shape of its table, every reference resolves, and every
\* fetched cleanup row names a booking.
TypeOK ==
    /\ flights \in [Flights -> Flight]
    /\ DOMAIN bookings \subseteq BookingIds /\ bookings \in [DOMAIN bookings -> Booking]
    /\ DOMAIN payments \subseteq PaymentIds /\ payments \in [DOMAIN payments -> Payment]
    /\ \A p \in DOMAIN payments : payments[p].booking \in DOMAIN bookings
    /\ DOMAIN cleanup \subseteq DOMAIN bookings /\ cleanup \in [DOMAIN cleanup -> Nat]
    /\ batch \in [Crons -> Seq(DOMAIN bookings)]
    /\ refunded \subseteq DOMAIN payments
    /\ now \in Nat

IsLive(b) == ~IsTerminal(bookings[b].status)
Wants(b, f, s) == bookings[b].flight = f /\ bookings[b].seats[s] > 0

\* Two bookings of a flight share a seat only if one of them has expired:
\* what the availability check of CreateBooking is for, across confirmations,
\* expiries and retries of the bookings that hold the seats.
SeatExclusive ==
    \A a, b \in DOMAIN bookings, s \in Seats :
        /\ bookings[a].flight = bookings[b].flight
        /\ bookings[a].seats[s] > 0 /\ bookings[b].seats[s] > 0
        /\ bookings[a].status # "EXPIRED" /\ bookings[b].status # "EXPIRED"
        => a = b

\* The two arrays of a flight agree with booking_intents: a seat is in
\* reserved_seats exactly for a live booking of it and in booked_seats exactly
\* for a confirmed one, as often as the booking names it.  No transaction
\* loses a held seat, and none leaves one behind.
SeatLedger ==
    \A f \in Flights, s \in Seats :
        /\ \A b \in DOMAIN bookings :
              /\ Wants(b, f, s) /\ IsLive(b) => flights[f].reserved[s] = bookings[b].seats[s]
              /\ Wants(b, f, s) /\ bookings[b].status = "CONFIRMED"
                    => flights[f].booked[s] = bookings[b].seats[s]
        /\ flights[f].reserved[s] > 0 => \E b \in DOMAIN bookings : Wants(b, f, s) /\ IsLive(b)
        /\ flights[f].booked[s] > 0
              => \E b \in DOMAIN bookings : Wants(b, f, s) /\ bookings[b].status = "CONFIRMED"

\* A booking has a cleanup row while it is live and no longer, and the row
\* carries the booking's own expiry: the cron will look at every held seat.
CleanupCoversLive ==
    /\ DOMAIN cleanup = {b \in DOMAIN bookings : IsLive(b)}
    /\ \A b \in DOMAIN cleanup : cleanup[b] = bookings[b].expiresAt

\* The status of a live booking is that of its active payment attempt, which
\* belongs to it: PENDING while the attempt is open, PAYMENT_FAILED once failed.
StatusMirrorsActive ==
    \A b \in DOMAIN bookings :
        /\ bookings[b].active \in DOMAIN payments
        /\ payments[bookings[b].active].booking = b
        /\ IsLive(b) => payments[bookings[b].active].status =
               (IF bookings[b].status = "PENDING" THEN "INITIATED" ELSE "FAILED")

\* A decided booking leaves no payment attempt open.
TerminalClosesPayments ==
    \A p \in DOMAIN payments :
        ~IsLive(payments[p].booking) => payments[p].status # "INITIATED"

\* Every successful payment bought its booking or was refunded, whatever the
\* order of callbacks, retries and expiries.
SuccessSettled ==
    \A p \in DOMAIN payments :
        LET bi == bookings[payments[p].booking] IN
            payments[p].status = "SUCCESS" =>
                p \in refunded \/ (bi.status = "CONFIRMED" /\ bi.active = p)

\* A booking has one payment attempt for its creation and one for each retry
\* counted, and never more than MaxRetries of the latter.
AttemptsBounded ==
    \A b \in DOMAIN bookings :
        /\ Cardinality({p \in DOMAIN payments : payments[p].booking = b})
              = bookings[b].retryCount + 1
        /\ bookings[b].retryCount <= MaxRetries

\* A flight takes no more bookings once booked_seats is as long as the flight
\* is large, and is closed as full only then.
SoldOutIsClosed ==
    \A f \in Flights :
        /\ flights[f].status = "SCHEDULED" => Length(flights[f].booked) < TotalSeats
        /\ flights[f].status = "FULLY_BOOKED" => Length(flights[f].booked) >= TotalSeats

\* Nothing changes a booking once it is CONFIRMED or EXPIRED: late callbacks,
\* retries and a second cron's copy of its cleanup row included.
TerminalIsFinal ==
    [][\A b \in DOMAIN bookings : ~IsLive(b) =>
           b \in DOMAIN bookings' /\ bookings'[b] = bookings[b]]_vars

\* A cron never expires a booking before the expiry that is in force when its
\* transaction runs, however old the row it fetched.
NoFalseExpiry ==
    [][\A b \in DOMAIN bookings :
           IsLive(b) /\ bookings'[b].status = "EXPIRED" => bookings[b].expiresAt <= now]_vars

\* A payment that was refunded is never afterwards the one a booking is
\* confirmed on, and a booking is confirmed only on a successful payment.
ConfirmedOnUnrefunded ==
    [][\A b \in DOMAIN bookings :
           IsLive(b) /\ bookings'[b].status = "CONFIRMED" =>
               /\ bookings'[b].active \notin refunded
               /\ payments'[bookings'[b].active].status = "SUCCESS"]_vars

\* A flight that was closed, as full or as departed, never takes bookings
\* again: the branch of the cleanup that reopens one is never taken.
NeverReopened ==
    [][\A f \in Flights :
           flights[f].status # "SCHEDULED" => flights'[f].status # "SCHEDULED"]_vars

\* Every booking is decided in the end: no seat is held for ever, even when
\* no callback comes and crons fail or crash.
EventuallyDecided ==
    \A b \in BookingIds : b \in DOMAIN bookings ~> (b \in DOMAIN bookings /\ ~IsLive(b))

\* A booking takes free seats of its flight, all at once, and in the end owns
\* all of them or gives all of them back, and no other step touches a seat: the
\* two text[] columns implement the seat map of SeatSale.
SeatState(f, s) ==
    IF flights[f].booked[s] > 0 THEN "sold"
    ELSE IF flights[f].reserved[s] > 0 THEN "held" ELSE "free"
Stage(status) == CASE status = "CONFIRMED" -> "owns"
                   [] status = "EXPIRED" -> "gone"
                   [] OTHER -> "holds"
Sale == INSTANCE SeatSale WITH
    seat <- [f \in Flights |-> [s \in Seats |-> SeatState(f, s)]],
    claim <- [b \in DOMAIN bookings |-> [flight |-> bookings[b].flight,
                 seats |-> Taken(bookings[b].seats), stage |-> Stage(bookings[b].status)]]
SellsSeats == Sale!SaleSpec

\* Every flight whose time passes is DEPARTED in the end and stays so, although
\* callbacks close it as full and cleanups release its seats meanwhile.
DepartsInTheEnd ==
    \A f \in Flights : DepartureTime[f] < MaxTime => <>[](flights[f].status = "DEPARTED")

(* What the documents say and the code does not do. *)

\* HLD.md:116 "`FULLY_BOOKED` | All 30 seats are in `bookedSeats`": a flight that
\* is closed as full has sold each of its seats.
FullMeansAllSeats ==
    \A f \in Flights : flights[f].status = "FULLY_BOOKED" => Taken(flights[f].booked) = Seats
=============================================================================
