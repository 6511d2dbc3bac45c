------------------------- MODULE BookingStoreProofs -------------------------
(***************************************************************************)
(* Theorems of BookingStore, for every value of its constants.             *)
(***************************************************************************)
EXTENDS BookingStore, SumProofs, SequenceTheorems, FiniteSetTheorems, TLAPS

-----------------------------------------------------------------------------
(* What the table operators return.                                        *)

\* Expiring the open attempts of b changes no key, no owner and no status
\* but that of the INITIATED attempts of b outside keep.
LEMMA ExpireInitiatedLemma ==
    ASSUME NEW t, t \in [DOMAIN t -> Payment], NEW b, NEW keep
    PROVE  /\ DOMAIN ExpireInitiated(t, b, keep) = DOMAIN t
           /\ ExpireInitiated(t, b, keep) \in [DOMAIN t -> Payment]
           /\ \A p \in DOMAIN t :
                 /\ ExpireInitiated(t, b, keep)[p].booking = t[p].booking
                 /\ ExpireInitiated(t, b, keep)[p].status =
                       IF t[p].booking = b /\ t[p].status = "INITIATED" /\ p \notin keep
                       THEN "EXPIRED" ELSE t[p].status
  BY DEF ExpireInitiated, Payment, PaymentStatus

\* The status of one attempt changes, nothing else.
LEMMA SetPaymentLemma ==
    ASSUME TypeOK, NEW p \in DOMAIN payments, NEW status \in PaymentStatus
    PROVE  /\ DOMAIN SetPayment(p, status) = DOMAIN payments
           /\ SetPayment(p, status) \in [DOMAIN payments -> Payment]
           /\ SetPayment(p, status)[p].status = status
           /\ \A q \in DOMAIN payments :
                 /\ SetPayment(p, status)[q].booking = payments[q].booking
                 /\ q # p => SetPayment(p, status)[q].status = payments[q].status
  BY DEF SetPayment, TypeOK, Payment

\* Removing seats leaves none of the named seats and every other one.
LEMMA RemoveSeatsLemma ==
    ASSUME NEW l \in SeatList, NEW r \in SeatList
    PROVE  /\ RemoveSeats(l, r) \in SeatList
           /\ \A s \in Seats : RemoveSeats(l, r)[s] = IF r[s] > 0 THEN 0 ELSE l[s]
  BY DEF RemoveSeats, SeatList

\* Appending adds the counts.
LEMMA AppendSeatsLemma ==
    ASSUME NEW l \in SeatList, NEW r \in SeatList
    PROVE  /\ AppendSeats(l, r) \in SeatList
           /\ \A s \in Seats : AppendSeats(l, r)[s] = l[s] + r[s]
  BY DEF AppendSeats, SeatList

\* What a confirmation makes of the flight row.
LEMMA ConfirmedLemma ==
    ASSUME NEW row \in Flight, NEW bi \in Booking
    PROVE  /\ Confirmed(row, bi) \in Flight
           /\ Confirmed(row, bi).reserved = RemoveSeats(row.reserved, bi.seats)
           /\ Confirmed(row, bi).booked = AppendSeats(row.booked, bi.seats)
  <1>1. /\ row.reserved \in SeatList /\ row.booked \in SeatList /\ row.status \in FlightStatus
        /\ bi.seats \in SeatList
    BY DEF Flight, Booking
  <1>2. /\ RemoveSeats(row.reserved, bi.seats) \in SeatList
        /\ AppendSeats(row.booked, bi.seats) \in SeatList
    BY <1>1, RemoveSeatsLemma, AppendSeatsLemma
  <1> QED
    BY <1>1, <1>2 DEF Confirmed, Flight, FlightStatus

\* What an expiry makes of the flight row.
LEMMA ReleasedLemma ==
    ASSUME NEW row \in Flight, NEW bi \in Booking
    PROVE  /\ Released(row, bi) \in Flight
           /\ Released(row, bi).reserved = RemoveSeats(row.reserved, bi.seats)
           /\ Released(row, bi).booked = row.booked
  <1> DEFINE newReserved == RemoveSeats(row.reserved, bi.seats)
             newStatus == IF row.status = "FULLY_BOOKED" /\ HasRoom(newReserved, row.booked)
                          THEN "SCHEDULED" ELSE row.status
  <1>1. Released(row, bi) = [row EXCEPT !.reserved = newReserved, !.status = newStatus]
    BY DEF Released
  <1>2. newReserved \in SeatList /\ newStatus \in FlightStatus
    BY RemoveSeatsLemma DEF Flight, Booking, FlightStatus
  <1> HIDE DEF newReserved, newStatus
  <1>3. /\ Released(row, bi) \in Flight
        /\ Released(row, bi).reserved = newReserved
        /\ Released(row, bi).booked = row.booked
    BY <1>1, <1>2 DEF Flight
  <1> QED
    BY <1>3 DEF newReserved

-----------------------------------------------------------------------------
(* Type correctness.                                                       *)

LEMMA InitType == Init => TypeOK
  <1> SUFFICES ASSUME Init PROVE TypeOK
    OBVIOUS
  <1> USE DEF Init
  <1>1. flights \in [Flights -> Flight]
    BY DEF Flight, FlightStatus, NoSeats, SeatList
  <1>2. bookings = EmptyTable /\ DOMAIN bookings = {}
    BY DEF EmptyTable
  <1>3. payments = EmptyTable /\ DOMAIN payments = {}
    BY DEF EmptyTable
  <1>4. cleanup = EmptyTable /\ DOMAIN cleanup = {}
    BY DEF EmptyTable
  <1>5. /\ bookings \in [DOMAIN bookings -> Booking]
        /\ payments \in [DOMAIN payments -> Payment]
        /\ cleanup \in [DOMAIN cleanup -> Nat]
    BY <1>2, <1>3, <1>4 DEF EmptyTable
  <1>6. batch \in [Crons -> Seq(DOMAIN bookings)]
    OBVIOUS
  <1> QED
    BY <1>1, <1>2, <1>3, <1>4, <1>5, <1>6 DEF TypeOK

\* A request's clock reading is a natural number.
LEMMA RequestTimesNat == TypeOK => RequestTimes \subseteq Nat
  BY DEF TypeOK, RequestTimes

LEMMA CreateBookingType ==
    ASSUME TypeOK, NEW b \in BookingIds, NEW p \in PaymentIds, NEW f \in Flights,
           NEW list \in SeatRequests, NEW t \in RequestTimes, CreateBooking(b, p, f, list, t)
    PROVE  TypeOK'
  <1> DEFINE expiry == t + InitialReservation
             bi == [flight |-> f, seats |-> list, active |-> p, status |-> "PENDING",
                    retryCount |-> 0, expiresAt |-> expiry]
             pi == [booking |-> b, status |-> "INITIATED"]
  <1>1. expiry \in Nat
    BY RequestTimesNat, ConstantsAssumption
  <1>2. list \in SeatList
    BY DEF SeatRequests, SeatList
  <1>3. bi \in Booking /\ pi \in Payment
    BY <1>1, <1>2 DEF Booking, BookingStatus, Payment, PaymentStatus
  <1>4. /\ bookings' = Insert(bookings, b, bi)
        /\ payments' = Insert(payments, p, pi)
        /\ cleanup' = Insert(cleanup, b, expiry)
        /\ flights' = [flights EXCEPT ![f].reserved = AppendSeats(flights[f].reserved, list)]
        /\ UNCHANGED <<batch, refunded, now>>
    BY DEF CreateBooking
  <1> HIDE DEF expiry, bi, pi
  <1>5. DOMAIN bookings' = DOMAIN bookings \union {b} /\ bookings' \in [DOMAIN bookings' -> Booking]
    BY <1>3, <1>4 DEF TypeOK, Insert
  <1>6. /\ DOMAIN payments' = DOMAIN payments \union {p}
        /\ payments' \in [DOMAIN payments' -> Payment]
        /\ payments'[p] = pi
        /\ \A q \in DOMAIN payments : q # p => payments'[q] = payments[q]
    BY <1>3, <1>4 DEF TypeOK, Insert
  <1>7. DOMAIN cleanup' = DOMAIN cleanup \union {b} /\ cleanup' \in [DOMAIN cleanup' -> Nat]
    BY <1>1, <1>4 DEF TypeOK, Insert
  <1>8. flights' \in [Flights -> Flight]
    BY <1>2, <1>4, AppendSeatsLemma DEF TypeOK, Flight
  <1>9. \A q \in DOMAIN payments' : payments'[q].booking \in DOMAIN bookings'
    BY <1>5, <1>6 DEF TypeOK, pi
  <1>10. batch' \in [Crons -> Seq(DOMAIN bookings')]
    BY <1>4, <1>5 DEF TypeOK
  <1> QED
    BY <1>4, <1>5, <1>6, <1>7, <1>8, <1>9, <1>10 DEF TypeOK

LEMMA RetryPaymentType ==
    ASSUME TypeOK, NEW b \in BookingIds, NEW p \in PaymentIds, NEW t \in RequestTimes,
           RetryPayment(b, p, t)
    PROVE  TypeOK'
  <1> DEFINE expiry == t + RetryExtension
             bi == [bookings[b] EXCEPT !.active = p, !.status = "PENDING",
                                       !.retryCount = bookings[b].retryCount + 1,
                                       !.expiresAt = expiry]
             pi == [booking |-> b, status |-> "INITIATED"]
  <1>1. expiry \in Nat
    BY RequestTimesNat, ConstantsAssumption
  <1>2. pi \in Payment
    BY DEF Payment, PaymentStatus
  <1>3. /\ b \in DOMAIN bookings
        /\ bookings' = [bookings EXCEPT ![b] = bi]
        /\ payments' = Insert(payments, p, pi)
        /\ cleanup' = [k \in DOMAIN cleanup |-> IF k = b THEN expiry ELSE cleanup[k]]
        /\ UNCHANGED <<flights, batch, refunded, now>>
    BY DEF RetryPayment, MayRetry, Retried, SetExpiry
  <1>4. bi \in Booking
    <2>1. bookings[b] \in Booking /\ bookings[b].retryCount + 1 \in Nat
      BY <1>3 DEF TypeOK, Booking
    <2> QED
      BY <1>1, <2>1 DEF Booking, BookingStatus
  <1> HIDE DEF expiry, bi, pi
  <1>5. DOMAIN bookings' = DOMAIN bookings /\ bookings' \in [DOMAIN bookings' -> Booking]
    BY <1>3, <1>4 DEF TypeOK
  <1>6. /\ DOMAIN payments' = DOMAIN payments \union {p}
        /\ payments' \in [DOMAIN payments' -> Payment]
        /\ payments'[p] = pi
        /\ \A q \in DOMAIN payments : q # p => payments'[q] = payments[q]
    BY <1>2, <1>3 DEF TypeOK, Insert
  <1>7. DOMAIN cleanup' = DOMAIN cleanup /\ cleanup' \in [DOMAIN cleanup' -> Nat]
    BY <1>1, <1>3 DEF TypeOK
  <1>8. \A q \in DOMAIN payments' : payments'[q].booking \in DOMAIN bookings'
    BY <1>3, <1>5, <1>6 DEF TypeOK, pi
  <1> QED
    BY <1>3, <1>5, <1>6, <1>7, <1>8 DEF TypeOK

\* An update that leaves every key and every owner where it was keeps the
\* references right: what the callbacks and the crons have in common.
LEMMA UpdateType ==
    ASSUME TypeOK,
           flights' \in [Flights -> Flight],
           DOMAIN bookings' = DOMAIN bookings, bookings' \in [DOMAIN bookings -> Booking],
           DOMAIN payments' = DOMAIN payments, payments' \in [DOMAIN payments -> Payment],
           \A p \in DOMAIN payments : payments'[p].booking = payments[p].booking,
           DOMAIN cleanup' \subseteq DOMAIN cleanup, cleanup' \in [DOMAIN cleanup' -> Nat],
           batch' \in [Crons -> Seq(DOMAIN bookings)],
           refunded' \subseteq DOMAIN payments,
           now' \in Nat
    PROVE  TypeOK'
  BY DEF TypeOK

\* The rows a callback touches exist.
LEMMA CallbackRows ==
    ASSUME TypeOK, NEW p \in DOMAIN payments
    PROVE  /\ payments[p].booking \in DOMAIN bookings
           /\ bookings[payments[p].booking] \in Booking
           /\ bookings[payments[p].booking].flight \in Flights
           /\ flights[bookings[payments[p].booking].flight] \in Flight
  BY DEF TypeOK, Booking

LEMMA ProcessPaymentCallbackType ==
    ASSUME TypeOK, NEW p \in PaymentIds, NEW status \in CallbackStatus,
           ProcessPaymentCallback(p, status)
    PROVE  TypeOK'
  <1> DEFINE b == payments[p].booking
             bi == bookings[b]
             row == flights[bi.flight]
  <1>0. p \in DOMAIN payments /\ status \in PaymentStatus
    BY DEF ProcessPaymentCallback, CallbackStatus, PaymentStatus
  <1>1. b \in DOMAIN bookings /\ bi \in Booking /\ bi.flight \in Flights /\ row \in Flight
    BY <1>0, CallbackRows
  <1>2. CASE ConfirmBooking(p)
    <2> DEFINE table == SetPayment(p, "SUCCESS")
               newRow == Confirmed(row, bi)
    <2>1. /\ bookings' = [bookings EXCEPT ![b].status = "CONFIRMED"]
          /\ flights' = [flights EXCEPT ![bi.flight] = newRow]
          /\ payments' = ExpireInitiated(table, b, {p})
          /\ cleanup' = Delete(cleanup, b)
          /\ UNCHANGED <<batch, refunded, now>>
      BY <1>2 DEF ConfirmBooking, IsActivePI
    <2>2. newRow \in Flight
      BY <1>1, ConfirmedLemma
    <2>3. /\ DOMAIN table = DOMAIN payments
          /\ table \in [DOMAIN table -> Payment]
          /\ \A q \in DOMAIN payments : table[q].booking = payments[q].booking
      BY <1>0, SetPaymentLemma DEF PaymentStatus
    <2> HIDE DEF table, newRow
    <2>4. /\ DOMAIN payments' = DOMAIN payments /\ payments' \in [DOMAIN payments -> Payment]
          /\ \A q \in DOMAIN payments : payments'[q].booking = payments[q].booking
      BY <2>1, <2>3, ExpireInitiatedLemma
    <2>5. flights' \in [Flights -> Flight]
      BY <2>1, <2>2 DEF TypeOK
    <2>6. DOMAIN bookings' = DOMAIN bookings /\ bookings' \in [DOMAIN bookings -> Booking]
      BY <2>1 DEF TypeOK, Booking, BookingStatus
    <2>7. DOMAIN cleanup' \subseteq DOMAIN cleanup /\ cleanup' \in [DOMAIN cleanup' -> Nat]
      BY <2>1 DEF TypeOK, Delete, Restrict
    <2> QED
      BY <2>1, <2>4, <2>5, <2>6, <2>7, UpdateType DEF TypeOK
  <1>3. CASE FailBooking(p)
    <2>1. /\ bookings' = [bookings EXCEPT ![b].status = "PAYMENT_FAILED"]
          /\ payments' = SetPayment(p, "FAILED")
          /\ UNCHANGED <<flights, cleanup, batch, refunded, now>>
      BY <1>3 DEF FailBooking, IsActivePI
    <2>2. DOMAIN bookings' = DOMAIN bookings /\ bookings' \in [DOMAIN bookings -> Booking]
      BY <2>1 DEF TypeOK, Booking, BookingStatus
    <2>3. /\ DOMAIN payments' = DOMAIN payments /\ payments' \in [DOMAIN payments -> Payment]
          /\ \A q \in DOMAIN payments : payments'[q].booking = payments[q].booking
      BY <1>0, <2>1, SetPaymentLemma DEF PaymentStatus
    <2> QED
      BY <2>1, <2>2, <2>3, UpdateType DEF TypeOK
  <1>4. CASE StaleCallback(p, status) \/ TerminalCallback(p, status)
    <2>1. /\ payments' = SetPayment(p, status)
          /\ refunded' \subseteq refunded \union {p}
          /\ UNCHANGED <<flights, bookings, cleanup, batch, now>>
      BY <1>4 DEF StaleCallback, TerminalCallback, RefundIfPaid
    <2>2. /\ DOMAIN payments' = DOMAIN payments /\ payments' \in [DOMAIN payments -> Payment]
          /\ \A q \in DOMAIN payments : payments'[q].booking = payments[q].booking
      BY <1>0, <2>1, SetPaymentLemma
    <2> QED
      BY <1>0, <2>1, <2>2, UpdateType DEF TypeOK
  <1> QED
    BY <1>2, <1>3, <1>4 DEF ProcessPaymentCallback

\* A cron with rows left holds the id of a booking, and the rest of its
\* batch does too.
LEMMA BatchHead ==
    ASSUME TypeOK, NEW c \in Crons, batch[c] # << >>
    PROVE  /\ Head(batch[c]) \in DOMAIN bookings
           /\ [batch EXCEPT ![c] = Tail(@)] \in [Crons -> Seq(DOMAIN bookings)]
  <1>1. batch[c] \in Seq(DOMAIN bookings)
    BY DEF TypeOK
  <1>2. Head(batch[c]) \in DOMAIN bookings /\ Tail(batch[c]) \in Seq(DOMAIN bookings)
    BY <1>1, HeadTailProperties
  <1> QED
    BY <1>2 DEF TypeOK

LEMMA RunCleanupType ==
    ASSUME TypeOK, NEW c \in Crons, RunCleanup(c)
    PROVE  TypeOK'
  <1>1. PICK q \in CleanupBatches : batch' = [batch EXCEPT ![c] = q]
    BY DEF RunCleanup
  <1>2. q \in Seq(DOMAIN bookings)
    <2>1. PICK n \in 1..BatchSize : q \in [1..n -> Overdue]
      BY DEF CleanupBatches
    <2>2. n \in Nat /\ Overdue \subseteq DOMAIN bookings
      BY ConstantsAssumption DEF TypeOK, Overdue
    <2>3. q \in [1..n -> DOMAIN bookings]
      BY <2>1, <2>2
    <2> QED
      BY <2>2, <2>3
  <1>3. batch' \in [Crons -> Seq(DOMAIN bookings)]
    BY <1>1, <1>2 DEF TypeOK
  <1> QED
    BY <1>3, UpdateType DEF TypeOK, RunCleanup

LEMMA ProcessCleanupRowType ==
    ASSUME TypeOK, NEW c \in Crons, ProcessCleanupRow(c)
    PROVE  TypeOK'
  <1> DEFINE b == Head(batch[c])
  <1>1. batch[c] # << >> /\ RowDone(c)
    BY DEF ProcessCleanupRow, CleanupDecided, CleanupExtended, ExpireBooking
  <1>2. b \in DOMAIN bookings /\ batch' \in [Crons -> Seq(DOMAIN bookings)]
    BY <1>1, BatchHead DEF RowDone
  <1>3. CASE CleanupDecided(c)
    <2>1. DOMAIN cleanup' \subseteq DOMAIN cleanup /\ cleanup' \in [DOMAIN cleanup' -> Nat]
      BY <1>3 DEF CleanupDecided, TypeOK, Delete, Restrict
    <2> QED
      BY <1>2, <1>3, <2>1, UpdateType DEF TypeOK, CleanupDecided
  <1>4. CASE CleanupExtended(c)
    <2>1. bookings[b].expiresAt \in Nat
      BY <1>2 DEF TypeOK, Booking
    <2>2. DOMAIN cleanup' \subseteq DOMAIN cleanup /\ cleanup' \in [DOMAIN cleanup' -> Nat]
      BY <1>4, <2>1 DEF CleanupExtended, SetExpiry, TypeOK
    <2> QED
      BY <1>2, <1>4, <2>2, UpdateType DEF TypeOK, CleanupExtended
  <1>5. CASE ExpireBooking(c)
    <2> DEFINE bi == bookings[b]
               row == flights[bi.flight]
               newRow == Released(row, bi)
    <2>1. /\ bookings' = [bookings EXCEPT ![b].status = "EXPIRED"]
          /\ payments' = ExpireInitiated(payments, b, {})
          /\ flights' = [flights EXCEPT ![bi.flight] = newRow]
          /\ cleanup' = Delete(cleanup, b)
          /\ UNCHANGED <<refunded, now>>
      BY <1>5 DEF ExpireBooking
    <2>2. bi \in Booking /\ bi.flight \in Flights /\ row \in Flight
      BY <1>2 DEF TypeOK, Booking
    <2>4. newRow \in Flight
      BY <2>2, ReleasedLemma
    <2> HIDE DEF newRow
    <2>5. flights' \in [Flights -> Flight]
      BY <2>1, <2>4 DEF TypeOK
    <2>6. DOMAIN bookings' = DOMAIN bookings /\ bookings' \in [DOMAIN bookings -> Booking]
      BY <2>1 DEF TypeOK, Booking, BookingStatus
    <2>7. /\ DOMAIN payments' = DOMAIN payments /\ payments' \in [DOMAIN payments -> Payment]
          /\ \A q \in DOMAIN payments : payments'[q].booking = payments[q].booking
      BY <2>1, ExpireInitiatedLemma DEF TypeOK
    <2>8. DOMAIN cleanup' \subseteq DOMAIN cleanup /\ cleanup' \in [DOMAIN cleanup' -> Nat]
      BY <2>1 DEF TypeOK, Delete, Restrict
    <2> QED
      BY <1>2, <2>1, <2>5, <2>6, <2>7, <2>8, UpdateType DEF TypeOK
  <1> QED
    BY <1>3, <1>4, <1>5 DEF ProcessCleanupRow

LEMMA FaultType ==
    ASSUME TypeOK, NEW c \in Crons, CleanupRowError(c) \/ CronCrash(c)
    PROVE  TypeOK'
  <1>1. batch' \in [Crons -> Seq(DOMAIN bookings)]
    <2>1. CASE CleanupRowError(c)
      BY <2>1, BatchHead DEF CleanupRowError, RowDone
    <2>2. CASE CronCrash(c)
      <3>1. << >> \in Seq(DOMAIN bookings)
        OBVIOUS
      <3> QED
        BY <2>2, <3>1 DEF CronCrash, TypeOK
    <2> QED
      BY <2>1, <2>2
  <1> QED
    BY <1>1, UpdateType DEF TypeOK, CleanupRowError, CronCrash

LEMMA DepartureSweepType ==
    ASSUME TypeOK, NEW t \in RequestTimes, DepartureSweep(t)
    PROVE  TypeOK'
  <1>1. flights' \in [Flights -> Flight]
    <2>1. \A f \in Flights : [flights[f] EXCEPT !.status = "DEPARTED"] \in Flight
      BY DEF TypeOK, Flight, FlightStatus
    <2> QED
      BY <2>1 DEF TypeOK, DepartureSweep
  <1> QED
    BY <1>1, UpdateType DEF TypeOK, DepartureSweep

LEMMA TickType == TypeOK /\ Tick => TypeOK'
  BY UpdateType DEF TypeOK, Tick

LEMMA StepType == TypeOK /\ [Next]_vars => TypeOK'
  <1> SUFFICES ASSUME TypeOK, [Next]_vars PROVE TypeOK'
    OBVIOUS
  <1>1. CASE \E b \in BookingIds, p \in PaymentIds, f \in Flights :
               \E list \in SeatRequests, t \in RequestTimes : CreateBooking(b, p, f, list, t)
    BY <1>1, CreateBookingType
  <1>2. CASE \E b \in BookingIds, p \in PaymentIds : \E t \in RequestTimes : RetryPayment(b, p, t)
    BY <1>2, RetryPaymentType
  <1>3. CASE \E p \in PaymentIds, status \in CallbackStatus : ProcessPaymentCallback(p, status)
    BY <1>3, ProcessPaymentCallbackType
  <1>4. ASSUME NEW c \in Crons, CronStep(c) PROVE TypeOK'
    BY <1>4, RunCleanupType, ProcessCleanupRowType, FaultType DEF CronStep
  <1>5. CASE \E t \in RequestTimes : DepartureSweep(t)
    BY <1>5, DepartureSweepType
  <1>6. CASE Tick
    BY <1>6, TickType
  <1>7. CASE UNCHANGED vars
    BY <1>7 DEF vars, TypeOK
  <1> QED
    BY <1>1, <1>2, <1>3, <1>4, <1>5, <1>6, <1>7 DEF Next

\* The four tables, the crons' batches and the clock keep their types, and no
\* payment or cleanup row ever refers to a booking that is not there.
THEOREM TypeCorrect == Spec => []TypeOK
  <1>1. Init => TypeOK
    BY InitType
  <1>2. TypeOK /\ [Next]_vars => TypeOK'
    BY StepType
  <1> QED
    BY <1>1, <1>2, PTL DEF Spec

-----------------------------------------------------------------------------
(* What each transaction does to the seats and to the bookings.            *)

\* The seats of flight g, and whether a holds them, are as before.
SameRow(g) == flights'[g].reserved = flights[g].reserved /\ flights'[g].booked = flights[g].booked
SameHolder(a) ==
    /\ bookings'[a].flight = bookings[a].flight
    /\ bookings'[a].seats = bookings[a].seats
    /\ bookings'[a].status = "EXPIRED" <=> bookings[a].status = "EXPIRED"
    /\ bookings'[a].status = "CONFIRMED" <=> bookings[a].status = "CONFIRMED"

\* b is a new pending booking of list, all of it free until now.
SeatsReserved(b, f, list) ==
    /\ b \notin DOMAIN bookings
    /\ DOMAIN bookings' = DOMAIN bookings \union {b}
    /\ \A a \in DOMAIN bookings : SameHolder(a)
    /\ bookings'[b].flight = f /\ bookings'[b].seats = list
    /\ bookings'[b].status = "PENDING"
    /\ \A g \in Flights : g # f => SameRow(g)
    /\ flights'[f].booked = flights[f].booked
    /\ \A s \in Seats : flights'[f].reserved[s] = flights[f].reserved[s] + list[s]
    /\ \A s \in Seats : list[s] > 0 =>
           flights[f].reserved[s] = 0 /\ flights[f].booked[s] = 0

\* The seats of b leave reserved_seats.
SeatsReleased(b) ==
    LET f == bookings[b].flight IN
        /\ \A g \in Flights : g # f => SameRow(g)
        /\ \A s \in Seats : flights'[f].reserved[s] =
               IF bookings[b].seats[s] > 0 THEN 0 ELSE flights[f].reserved[s]

LEMMA CreateSeats ==
    ASSUME TypeOK, NEW b \in BookingIds, NEW p \in PaymentIds, NEW f \in Flights,
           NEW list \in SeatRequests, NEW t \in RequestTimes, CreateBooking(b, p, f, list, t)
    PROVE  SeatsReserved(b, f, list)
  <1> DEFINE bi == [flight |-> f, seats |-> list, active |-> p, status |-> "PENDING",
                    retryCount |-> 0, expiresAt |-> t + InitialReservation]
             newRow == [flights[f] EXCEPT !.reserved = AppendSeats(flights[f].reserved, list)]
  <1>1. /\ b \notin DOMAIN bookings
        /\ bookings' = Insert(bookings, b, bi)
        /\ flights' = [flights EXCEPT ![f] = newRow]
        /\ SeatsAvailable(flights[f], list)
    BY DEF CreateBooking
  <1>2. /\ list \in SeatList /\ flights[f] \in Flight
        /\ flights[f].reserved \in SeatList /\ flights[f].booked \in SeatList
    BY DEF SeatRequests, SeatList, TypeOK, Flight
  <1>3. /\ newRow.booked = flights[f].booked
        /\ \A s \in Seats : newRow.reserved[s] = flights[f].reserved[s] + list[s]
    BY <1>2, AppendSeatsLemma DEF Flight
  <1>4. \A s \in Seats : list[s] > 0 =>
            flights[f].reserved[s] = 0 /\ flights[f].booked[s] = 0
    BY <1>1, <1>2 DEF SeatsAvailable, Taken, SeatList
  <1>5. bi.flight = f /\ bi.seats = list /\ bi.status = "PENDING"
    OBVIOUS
  <1> HIDE DEF bi, newRow
  <1>6. /\ DOMAIN bookings' = DOMAIN bookings \union {b}
        /\ \A a \in DOMAIN bookings : bookings'[a] = bookings[a]
        /\ bookings'[b] = bi
    BY <1>1 DEF Insert
  <1>7. flights'[f] = newRow /\ \A g \in Flights : g # f => flights'[g] = flights[g]
    BY <1>1 DEF TypeOK
  <1> QED
    BY <1>1, <1>3, <1>4, <1>5, <1>6, <1>7 DEF SeatsReserved, SameHolder, SameRow

LEMMA RetryHolders ==
    ASSUME TypeOK, NEW b \in BookingIds, NEW p \in PaymentIds, NEW t \in RequestTimes,
           RetryPayment(b, p, t)
    PROVE  DOMAIN bookings' = DOMAIN bookings /\ \A a \in DOMAIN bookings : SameHolder(a)
  <1> DEFINE bi == [bookings[b] EXCEPT !.active = p, !.status = "PENDING",
                                       !.retryCount = bookings[b].retryCount + 1,
                                       !.expiresAt = t + RetryExtension]
  <1>1. /\ b \in DOMAIN bookings /\ ~IsTerminal(bookings[b].status)
        /\ bookings' = [bookings EXCEPT ![b] = bi]
    BY DEF RetryPayment, MayRetry, Retried, SetExpiry
  <1>2. bi.flight = bookings[b].flight /\ bi.seats = bookings[b].seats /\ bi.status = "PENDING"
    BY <1>1 DEF TypeOK, Booking
  <1> HIDE DEF bi
  <1> QED
    BY <1>1, <1>2 DEF TypeOK, SameHolder, IsTerminal

\* Changing the status of one booking to st.
LEMMA StatusUpdate ==
    ASSUME TypeOK, NEW b \in DOMAIN bookings, NEW st,
           bookings' = [bookings EXCEPT ![b].status = st]
    PROVE  /\ DOMAIN bookings' = DOMAIN bookings
           /\ \A a \in DOMAIN bookings : a # b => bookings'[a] = bookings[a]
           /\ bookings'[b].status = st
           /\ bookings'[b].flight = bookings[b].flight
           /\ bookings'[b].seats = bookings[b].seats
           /\ bookings'[b].active = bookings[b].active
           /\ bookings'[b].expiresAt = bookings[b].expiresAt
           /\ bookings'[b].retryCount = bookings[b].retryCount
  BY DEF TypeOK, Booking

LEMMA ConfirmSeats ==
    ASSUME TypeOK, NEW p \in DOMAIN payments, ConfirmBooking(p),
           NEW b, b = payments[p].booking, NEW f, f = bookings[b].flight
    PROVE  /\ ~IsTerminal(bookings[b].status)
           /\ bookings' = [bookings EXCEPT ![b].status = "CONFIRMED"]
           /\ SeatsReleased(b)
           /\ \A s \in Seats : flights'[f].booked[s] = flights[f].booked[s] + bookings[b].seats[s]
  <1> DEFINE row == flights[f]
             newRow == Confirmed(row, bookings[b])
  <1>1. /\ ~IsTerminal(bookings[b].status)
        /\ bookings' = [bookings EXCEPT ![b].status = "CONFIRMED"]
        /\ flights' = [flights EXCEPT ![f] = newRow]
    BY DEF ConfirmBooking, IsActivePI
  <1>2. /\ f \in Flights /\ bookings[b].seats \in SeatList
        /\ row.reserved \in SeatList /\ row.booked \in SeatList
        /\ row \in Flight /\ bookings[b] \in Booking
    BY CallbackRows, SMTT(30) DEF Flight, Booking
  <1>3. /\ \A s \in Seats : newRow.reserved[s] =
               IF bookings[b].seats[s] > 0 THEN 0 ELSE row.reserved[s]
        /\ \A s \in Seats : newRow.booked[s] = row.booked[s] + bookings[b].seats[s]
    <2>1. /\ newRow.reserved = RemoveSeats(row.reserved, bookings[b].seats)
          /\ newRow.booked = AppendSeats(row.booked, bookings[b].seats)
      BY <1>2, ConfirmedLemma
    <2> HIDE DEF newRow
    <2> QED
      BY <1>2, <2>1, RemoveSeatsLemma, AppendSeatsLemma
  <1> HIDE DEF newRow
  <1>4. flights'[f] = newRow /\ \A g \in Flights : g # f => flights'[g] = flights[g]
    BY <1>1, <1>2 DEF TypeOK
  <1> QED
    BY <1>1, <1>3, <1>4 DEF SeatsReleased, SameRow

LEMMA ExpireSeats ==
    ASSUME TypeOK, NEW c \in Crons, ExpireBooking(c),
           NEW b, b = Head(batch[c]), NEW f, f = bookings[b].flight
    PROVE  /\ b \in DOMAIN bookings /\ f \in Flights
           /\ ~IsTerminal(bookings[b].status)
           /\ bookings' = [bookings EXCEPT ![b].status = "EXPIRED"]
           /\ SeatsReleased(b)
           /\ flights'[f].booked = flights[f].booked
  <1> DEFINE row == flights[f]
             newRow == Released(row, bookings[b])
  <1>1. /\ b \in DOMAIN bookings
        /\ ~IsTerminal(bookings[b].status)
        /\ bookings' = [bookings EXCEPT ![b].status = "EXPIRED"]
        /\ flights' = [flights EXCEPT ![f] = newRow]
    BY BatchHead DEF ExpireBooking
  <1>2. /\ f \in Flights /\ bookings[b].seats \in SeatList
        /\ row \in Flight /\ row.reserved \in SeatList /\ bookings[b] \in Booking
    BY <1>1 DEF TypeOK, Flight, Booking
  <1>3. /\ newRow.booked = row.booked
        /\ newRow.reserved = RemoveSeats(row.reserved, bookings[b].seats)
    BY <1>2, ReleasedLemma
  <1>4. \A s \in Seats : newRow.reserved[s] =
            IF bookings[b].seats[s] > 0 THEN 0 ELSE row.reserved[s]
    BY <1>2, <1>3, RemoveSeatsLemma
  <1> HIDE DEF newRow
  <1>5. flights'[f] = newRow /\ \A g \in Flights : g # f => flights'[g] = flights[g]
    BY <1>1, <1>2 DEF TypeOK
  <1>6. SeatsReleased(b)
    BY <1>2, <1>4, <1>5 DEF SeatsReleased, SameRow
  <1> QED
    BY <1>1, <1>2, <1>3, <1>5, <1>6

-----------------------------------------------------------------------------
(* The seats: exclusive ownership and the ledger support each other.  A new *)
(* booking is exclusive because the ledger says that free seats have no     *)
(* owner, and moving or releasing a booking's seats keeps the ledger        *)
(* because nobody else owns them.                                           *)

SeatInv == SeatExclusive /\ SeatLedger

\* The counts compared below are natural numbers.
LEMMA SeatCounts ==
    ASSUME TypeOK
    PROVE  /\ \A b \in DOMAIN bookings, s \in Seats : bookings[b].seats[s] \in Nat
           /\ \A b \in DOMAIN bookings :
                 bookings[b].flight \in Flights /\ bookings[b].status \in BookingStatus
           /\ \A f \in Flights, s \in Seats :
                 flights[f].reserved[s] \in Nat /\ flights[f].booked[s] \in Nat
  BY DEF TypeOK, Booking, Flight, SeatList

\* A step that moves no seat and decides no booking.
LEMMA SameHolders ==
    ASSUME TypeOK, SeatInv,
           DOMAIN bookings' = DOMAIN bookings, \A a \in DOMAIN bookings : SameHolder(a),
           \A f \in Flights : SameRow(f)
    PROVE  SeatInv'
  <1>1. SeatExclusive'
    BY DEF SeatInv, SeatExclusive, SameHolder
  <1>2. SeatLedger'
    BY DEF SeatInv, SeatLedger, SameHolder, SameRow, Wants, IsLive, IsTerminal
  <1> QED
    BY <1>1, <1>2 DEF SeatInv

LEMMA CreateSeatInv ==
    ASSUME TypeOK, SeatInv, NEW b \in BookingIds, NEW p \in PaymentIds, NEW f \in Flights,
           NEW list \in SeatRequests, NEW t \in RequestTimes, CreateBooking(b, p, f, list, t)
    PROVE  SeatInv'
  <1>1. SeatsReserved(b, f, list)
    BY CreateSeats
  <1>2. \A s \in Seats : list[s] \in Nat
    BY ConstantsAssumption DEF SeatRequests
  <1>3. ASSUME NEW a \in DOMAIN bookings, NEW s \in Seats, Wants(a, f, s), list[s] > 0
        PROVE  bookings[a].status = "EXPIRED"
    <2>1. flights[f].reserved[s] = 0 /\ flights[f].booked[s] = 0
      BY <1>1, <1>3 DEF SeatsReserved
    <2>2. bookings[a].seats[s] > 0
      BY <1>3 DEF Wants
    <2>3. bookings[a].status \in BookingStatus
      BY SeatCounts
    <2>4. ~IsLive(a) /\ bookings[a].status # "CONFIRMED"
      BY <1>3, <2>1, <2>2 DEF SeatInv, SeatLedger
    <2> QED
      BY <2>3, <2>4 DEF BookingStatus, IsLive, IsTerminal
  <1>4. SeatExclusive'
    <2> SUFFICES ASSUME NEW a1 \in DOMAIN bookings', NEW a2 \in DOMAIN bookings', NEW s \in Seats,
                        bookings'[a1].flight = bookings'[a2].flight,
                        bookings'[a1].seats[s] > 0, bookings'[a2].seats[s] > 0,
                        bookings'[a1].status # "EXPIRED", bookings'[a2].status # "EXPIRED"
                 PROVE  a1 = a2
      BY DEF SeatExclusive
    <2>1. CASE a1 \in DOMAIN bookings /\ a2 \in DOMAIN bookings
      BY <1>1, <2>1 DEF SeatInv, SeatExclusive, SeatsReserved, SameHolder
    <2>2. CASE a1 = b /\ a2 \in DOMAIN bookings
      BY <1>1, <1>3, <2>2 DEF SeatsReserved, SameHolder, Wants
    <2>3. CASE a2 = b /\ a1 \in DOMAIN bookings
      BY <1>1, <1>3, <2>3 DEF SeatsReserved, SameHolder, Wants
    <2> QED
      BY <1>1, <2>1, <2>2, <2>3 DEF SeatsReserved
  <1>5. SeatLedger'
    <2> SUFFICES ASSUME NEW g \in Flights, NEW s \in Seats
                 PROVE  /\ \A a \in DOMAIN bookings' :
                              /\ Wants(a, g, s)' /\ IsLive(a)'
                                    => flights'[g].reserved[s] = bookings'[a].seats[s]
                              /\ Wants(a, g, s)' /\ bookings'[a].status = "CONFIRMED"
                                    => flights'[g].booked[s] = bookings'[a].seats[s]
                        /\ flights'[g].reserved[s] > 0
                              => \E a \in DOMAIN bookings' : Wants(a, g, s)' /\ IsLive(a)'
                        /\ flights'[g].booked[s] > 0
                              => \E a \in DOMAIN bookings' :
                                    Wants(a, g, s)' /\ bookings'[a].status = "CONFIRMED"
      BY DEF SeatLedger
    <2>0. /\ flights[g].reserved[s] \in Nat /\ list[s] \in Nat
          /\ flights'[g].booked[s] = flights[g].booked[s]
          /\ flights'[g].reserved[s] = IF g = f THEN flights[g].reserved[s] + list[s]
                                       ELSE flights[g].reserved[s]
      BY <1>1, <1>2, SeatCounts DEF SeatsReserved, SameRow
    <2>1. ASSUME NEW a \in DOMAIN bookings
          PROVE  /\ Wants(a, g, s)' <=> Wants(a, g, s)
                 /\ IsLive(a)' <=> IsLive(a)
                 /\ bookings'[a].status = "CONFIRMED" <=> bookings[a].status = "CONFIRMED"
                 /\ bookings'[a].seats = bookings[a].seats
      BY <1>1, <2>1 DEF SeatsReserved, SameHolder, Wants, IsLive, IsTerminal
    <2>2. /\ Wants(b, g, s)' <=> g = f /\ list[s] > 0
          /\ IsLive(b)' /\ bookings'[b].status # "CONFIRMED"
          /\ bookings'[b].seats = list
      BY <1>1 DEF SeatsReserved, Wants, IsLive, IsTerminal
    <2>3. ASSUME NEW a \in DOMAIN bookings, Wants(a, g, s), IsLive(a), g = f
          PROVE  list[s] = 0
      BY <1>2, <1>3, <2>3 DEF IsLive, IsTerminal
    <2>4. DOMAIN bookings' = DOMAIN bookings \union {b}
      BY <1>1 DEF SeatsReserved
    <2>5. ASSUME NEW a \in DOMAIN bookings'
          PROVE  /\ Wants(a, g, s)' /\ IsLive(a)'
                       => flights'[g].reserved[s] = bookings'[a].seats[s]
                 /\ Wants(a, g, s)' /\ bookings'[a].status = "CONFIRMED"
                       => flights'[g].booked[s] = bookings'[a].seats[s]
      <3>1. CASE a = b
        <4>1. g = f /\ list[s] > 0 => flights[g].reserved[s] = 0
          BY <1>1 DEF SeatsReserved
        <4> QED
          BY <2>0, <2>2, <3>1, <4>1
      <3>2. CASE a \in DOMAIN bookings
        <4>1. /\ Wants(a, g, s) /\ IsLive(a) => flights[g].reserved[s] = bookings[a].seats[s]
              /\ Wants(a, g, s) /\ bookings[a].status = "CONFIRMED"
                    => flights[g].booked[s] = bookings[a].seats[s]
          BY <3>2 DEF SeatInv, SeatLedger
        <4> QED
          BY <2>0, <2>1, <2>3, <3>2, <4>1
      <3> QED
        BY <2>4, <3>1, <3>2
    <2>6. /\ flights[g].reserved[s] > 0 => \E a \in DOMAIN bookings : Wants(a, g, s) /\ IsLive(a)
          /\ flights[g].booked[s] > 0
                => \E a \in DOMAIN bookings : Wants(a, g, s) /\ bookings[a].status = "CONFIRMED"
      BY DEF SeatInv, SeatLedger
    <2>7. flights'[g].reserved[s] > 0 => flights[g].reserved[s] > 0 \/ (g = f /\ list[s] > 0)
      BY <2>0
    <2> QED
      BY <2>0, <2>1, <2>2, <2>4, <2>5, <2>6, <2>7
  <1> QED
    BY <1>4, <1>5 DEF SeatInv

\* Deciding a booking keeps exclusive ownership, and until then nobody else
\* owned any of its seats.
LEMMA DecideExclusive ==
    ASSUME TypeOK, SeatInv, NEW b \in DOMAIN bookings, NEW st,
           bookings' = [bookings EXCEPT ![b].status = st], ~IsTerminal(bookings[b].status)
    PROVE  /\ SeatExclusive'
           /\ \A a \in DOMAIN bookings, g \in Flights, s \in Seats :
                 /\ a # b /\ bookings[a].status # "EXPIRED"
                 /\ Wants(a, g, s) /\ bookings[b].flight = g
                 => ~(bookings[b].seats[s] > 0)
  <1>1. bookings[b].status # "EXPIRED"
    BY DEF IsTerminal
  <1>2. ASSUME NEW a \in DOMAIN bookings
        PROVE  /\ bookings'[a].flight = bookings[a].flight /\ bookings'[a].seats = bookings[a].seats
               /\ bookings'[a].status # "EXPIRED" => bookings[a].status # "EXPIRED"
    BY <1>1, StatusUpdate
  <1>3. DOMAIN bookings' = DOMAIN bookings
    BY StatusUpdate
  <1>4. SeatExclusive'
    BY <1>2, <1>3 DEF SeatInv, SeatExclusive
  <1> QED
    BY <1>1, <1>4 DEF SeatInv, SeatExclusive, Wants

\* What a decided booking leaves in reserved_seats is what the others hold.
LEMMA DecideReserved ==
    ASSUME TypeOK, SeatInv, NEW b \in DOMAIN bookings, NEW st, IsTerminal(st),
           bookings' = [bookings EXCEPT ![b].status = st], ~IsTerminal(bookings[b].status),
           SeatsReleased(b), NEW g \in Flights, NEW s \in Seats
    PROVE  /\ \A a \in DOMAIN bookings' : Wants(a, g, s)' /\ IsLive(a)'
                  => flights'[g].reserved[s] = bookings'[a].seats[s]
           /\ flights'[g].reserved[s] > 0
                  => \E a \in DOMAIN bookings' : Wants(a, g, s)' /\ IsLive(a)'
  <1> DEFINE mine == g = bookings[b].flight /\ bookings[b].seats[s] > 0
  <1>1. DOMAIN bookings' = DOMAIN bookings /\ ~IsLive(b)'
    BY StatusUpdate DEF IsLive
  <1>2. flights'[g].reserved[s] = IF mine THEN 0 ELSE flights[g].reserved[s]
    BY DEF SeatsReleased, SameRow
  <1>3. ASSUME NEW a \in DOMAIN bookings, a # b
        PROVE  /\ Wants(a, g, s)' <=> Wants(a, g, s)
               /\ IsLive(a)' <=> IsLive(a)
               /\ bookings'[a].seats = bookings[a].seats
    BY <1>3, StatusUpdate DEF Wants, IsLive
  <1>4. ASSUME NEW a \in DOMAIN bookings, a # b, Wants(a, g, s), IsLive(a)
        PROVE  ~mine
    BY <1>4, DecideExclusive DEF IsLive, IsTerminal
  <1>5. ASSUME NEW a \in DOMAIN bookings, Wants(a, g, s), IsLive(a)
        PROVE  flights[g].reserved[s] = bookings[a].seats[s]
    BY <1>5 DEF SeatInv, SeatLedger
  <1>6. ASSUME NEW a \in DOMAIN bookings', Wants(a, g, s)', IsLive(a)'
        PROVE  flights'[g].reserved[s] = bookings'[a].seats[s]
    BY <1>1, <1>2, <1>3, <1>4, <1>5, <1>6
  <1>7. ASSUME flights'[g].reserved[s] > 0
        PROVE  \E a \in DOMAIN bookings' : Wants(a, g, s)' /\ IsLive(a)'
    <2>1. ~mine /\ flights[g].reserved[s] > 0
      BY <1>2, <1>7
    <2>2. PICK a \in DOMAIN bookings : Wants(a, g, s) /\ IsLive(a)
      BY <2>1 DEF SeatInv, SeatLedger
    <2>3. a # b
      BY <2>1, <2>2 DEF Wants
    <2> QED
      BY <1>1, <1>3, <2>2, <2>3
  <1> QED
    BY <1>6, <1>7

LEMMA ConfirmSeatInv ==
    ASSUME TypeOK, SeatInv, NEW p \in DOMAIN payments, ConfirmBooking(p),
           NEW b, b = payments[p].booking, NEW f, f = bookings[b].flight
    PROVE  SeatInv'
  <1>1. /\ b \in DOMAIN bookings /\ f \in Flights
        /\ ~IsTerminal(bookings[b].status)
        /\ bookings' = [bookings EXCEPT ![b].status = "CONFIRMED"]
        /\ SeatsReleased(b)
        /\ \A s \in Seats : flights'[f].booked[s] = flights[f].booked[s] + bookings[b].seats[s]
    <2>1. b \in DOMAIN bookings /\ f \in Flights
      BY CallbackRows
    <2> QED
      BY <2>1, ConfirmSeats
  <1>2. IsTerminal("CONFIRMED")
    BY DEF IsTerminal
  <1>3. SeatExclusive'
    BY <1>1, DecideExclusive
  <1>4. ASSUME NEW g \in Flights, NEW s \in Seats
        PROVE  /\ \A a \in DOMAIN bookings' : Wants(a, g, s)' /\ bookings'[a].status = "CONFIRMED"
                     => flights'[g].booked[s] = bookings'[a].seats[s]
               /\ flights'[g].booked[s] > 0 =>
                     \E a \in DOMAIN bookings' : Wants(a, g, s)' /\ bookings'[a].status = "CONFIRMED"
    <2> DEFINE mine == g = f /\ bookings[b].seats[s] > 0
    <2>1. /\ DOMAIN bookings' = DOMAIN bookings
          /\ bookings'[b].status = "CONFIRMED" /\ bookings'[b].seats = bookings[b].seats
          /\ Wants(b, g, s)' <=> mine
      BY <1>1, StatusUpdate DEF Wants
    <2>2. ASSUME NEW a \in DOMAIN bookings, a # b
          PROVE  /\ Wants(a, g, s)' <=> Wants(a, g, s)
                 /\ bookings'[a] = bookings[a]
      BY <1>1, <2>2, StatusUpdate DEF Wants
    <2>3. /\ bookings[b].seats[s] \in Nat
          /\ flights[g].booked[s] \in Nat
          /\ flights'[g].booked[s] = IF mine THEN flights[g].booked[s] + bookings[b].seats[s]
                                      ELSE flights[g].booked[s]
      BY <1>1, SeatCounts DEF SeatsReleased, SameRow
    <2>4. ASSUME NEW a \in DOMAIN bookings, Wants(a, g, s), bookings[a].status = "CONFIRMED"
          PROVE  flights[g].booked[s] = bookings[a].seats[s] /\ ~mine
      <3>1. a # b
        BY <1>1, <2>4 DEF IsTerminal
      <3> QED
        BY <1>1, <2>4, <3>1, DecideExclusive DEF SeatInv, SeatLedger
    <2>5. mine => flights[g].booked[s] = 0
      <3>1. flights[g].booked[s] > 0 => \E a \in DOMAIN bookings :
                Wants(a, g, s) /\ bookings[a].status = "CONFIRMED"
        BY DEF SeatInv, SeatLedger
      <3> QED
        BY <2>3, <2>4, <3>1
    <2>6. ASSUME NEW a \in DOMAIN bookings', Wants(a, g, s)', bookings'[a].status = "CONFIRMED"
          PROVE  flights'[g].booked[s] = bookings'[a].seats[s]
      <3>1. CASE a = b
        BY <2>1, <2>3, <2>5, <2>6, <3>1
      <3>2. CASE a # b
        BY <2>1, <2>2, <2>3, <2>4, <2>6, <3>2
      <3> QED
        BY <3>1, <3>2
    <2>7. ASSUME flights'[g].booked[s] > 0
          PROVE  \E a \in DOMAIN bookings' : Wants(a, g, s)' /\ bookings'[a].status = "CONFIRMED"
      <3>1. CASE mine
        BY <1>1, <2>1, <3>1
      <3>2. CASE ~mine
        <4>1. PICK a \in DOMAIN bookings : Wants(a, g, s) /\ bookings[a].status = "CONFIRMED"
          BY <2>3, <2>7, <3>2 DEF SeatInv, SeatLedger
        <4>2. a # b
          BY <1>1, <4>1 DEF IsTerminal
        <4> QED
          BY <2>1, <2>2, <4>1, <4>2
      <3> QED
        BY <3>1, <3>2
    <2> QED
      BY <2>6, <2>7
  <1>5. ASSUME NEW g \in Flights, NEW s \in Seats
        PROVE  /\ \A a \in DOMAIN bookings' : Wants(a, g, s)' /\ IsLive(a)'
                     => flights'[g].reserved[s] = bookings'[a].seats[s]
               /\ flights'[g].reserved[s] > 0
                     => \E a \in DOMAIN bookings' : Wants(a, g, s)' /\ IsLive(a)'
    BY <1>1, <1>2, DecideReserved
  <1>6. SeatLedger'
    BY <1>4, <1>5 DEF SeatLedger
  <1> QED
    BY <1>3, <1>6 DEF SeatInv

LEMMA ExpireSeatInv ==
    ASSUME TypeOK, SeatInv, NEW c \in Crons, ExpireBooking(c),
           NEW b, b = Head(batch[c]), NEW f, f = bookings[b].flight
    PROVE  SeatInv'
  <1>1. /\ b \in DOMAIN bookings /\ f \in Flights
        /\ ~IsTerminal(bookings[b].status)
        /\ bookings' = [bookings EXCEPT ![b].status = "EXPIRED"]
        /\ SeatsReleased(b)
        /\ flights'[f].booked = flights[f].booked
    BY ExpireSeats
  <1>2. IsTerminal("EXPIRED")
    BY DEF IsTerminal
  <1>3. SeatExclusive'
    BY <1>1, DecideExclusive
  <1>4. ASSUME NEW g \in Flights, NEW s \in Seats
        PROVE  /\ \A a \in DOMAIN bookings' : Wants(a, g, s)' /\ bookings'[a].status = "CONFIRMED"
                     => flights'[g].booked[s] = bookings'[a].seats[s]
               /\ flights'[g].booked[s] > 0 =>
                     \E a \in DOMAIN bookings' : Wants(a, g, s)' /\ bookings'[a].status = "CONFIRMED"
    <2>1. ASSUME NEW a \in DOMAIN bookings
          PROVE  /\ Wants(a, g, s)' <=> Wants(a, g, s)
                 /\ bookings'[a].seats = bookings[a].seats
                 /\ bookings'[a].status = "CONFIRMED" <=> bookings[a].status = "CONFIRMED"
      BY <1>1, StatusUpdate DEF Wants, IsTerminal
    <2>2. DOMAIN bookings' = DOMAIN bookings
      BY <1>1, StatusUpdate, SMTT(30)
    <2>3. flights'[g].booked = flights[g].booked
      BY <1>1 DEF SeatsReleased, SameRow
    <2> QED
      BY <2>1, <2>2, <2>3 DEF SeatInv, SeatLedger
  <1>5. ASSUME NEW g \in Flights, NEW s \in Seats
        PROVE  /\ \A a \in DOMAIN bookings' : Wants(a, g, s)' /\ IsLive(a)'
                     => flights'[g].reserved[s] = bookings'[a].seats[s]
               /\ flights'[g].reserved[s] > 0
                     => \E a \in DOMAIN bookings' : Wants(a, g, s)' /\ IsLive(a)'
    BY <1>1, <1>2, DecideReserved
  <1>6. SeatLedger'
    BY <1>4, <1>5 DEF SeatLedger
  <1> QED
    BY <1>3, <1>6 DEF SeatInv

\* The steps of a cron that decide no booking, and the sweep, move no seat.
LEMMA SeatStep == TypeOK /\ SeatInv /\ [Next]_vars => SeatInv'
  <1> SUFFICES ASSUME TypeOK, SeatInv, [Next]_vars PROVE SeatInv'
    OBVIOUS
  <1>0. ASSUME UNCHANGED bookings, \A f \in Flights : SameRow(f) PROVE SeatInv'
    BY <1>0, SameHolders DEF SameHolder
  <1>1. ASSUME NEW b \in BookingIds, NEW p \in PaymentIds, NEW f \in Flights,
               NEW list \in SeatRequests, NEW t \in RequestTimes, CreateBooking(b, p, f, list, t)
        PROVE  SeatInv'
    BY <1>1, CreateSeatInv
  <1>2. ASSUME NEW b \in BookingIds, NEW p \in PaymentIds, NEW t \in RequestTimes,
               RetryPayment(b, p, t)
        PROVE  SeatInv'
    <2>1. \A f \in Flights : SameRow(f)
      BY <1>2 DEF RetryPayment, SameRow
    <2> QED
      BY <1>2, <2>1, RetryHolders, SameHolders
  <1>3. ASSUME NEW p \in PaymentIds, NEW status \in CallbackStatus,
               ProcessPaymentCallback(p, status)
        PROVE  SeatInv'
    <2>1. p \in DOMAIN payments
      BY <1>3 DEF ProcessPaymentCallback
    <2>2. CASE ConfirmBooking(p)
      BY <2>1, <2>2, ConfirmSeatInv
    <2>3. CASE FailBooking(p)
      <3> DEFINE b == payments[p].booking
      <3>1. /\ b \in DOMAIN bookings /\ ~IsTerminal(bookings[b].status)
            /\ bookings' = [bookings EXCEPT ![b].status = "PAYMENT_FAILED"]
            /\ UNCHANGED flights
        BY <2>1, <2>3, CallbackRows DEF FailBooking, IsActivePI
      <3> HIDE DEF b
      <3>2. DOMAIN bookings' = DOMAIN bookings /\ \A a \in DOMAIN bookings : SameHolder(a)
        BY <3>1, StatusUpdate DEF SameHolder, IsTerminal
      <3> QED
        BY <3>1, <3>2, SameHolders DEF SameRow
    <2>4. CASE StaleCallback(p, status) \/ TerminalCallback(p, status)
      BY <1>0, <2>4 DEF StaleCallback, TerminalCallback, SameRow
    <2> QED
      BY <1>3, <2>2, <2>3, <2>4 DEF ProcessPaymentCallback
  <1>4. ASSUME NEW c \in Crons, CronStep(c) PROVE SeatInv'
    <2>1. CASE ExpireBooking(c)
      BY <2>1, ExpireSeatInv
    <2>2. CASE ~ExpireBooking(c)
      BY <1>0, <1>4, <2>2 DEF CronStep, RunCleanup, ProcessCleanupRow, CleanupDecided,
         CleanupExtended, CleanupRowError, CronCrash, SameRow
    <2> QED
      BY <2>1, <2>2
  <1>5. CASE \E t \in RequestTimes : DepartureSweep(t)
    <2>1. ASSUME NEW f \in Flights PROVE SameRow(f)
      <3>1. flights[f] \in Flight
        BY DEF TypeOK
      <3> QED
        BY <1>5, <3>1 DEF DepartureSweep, SameRow, Flight
    <2> QED
      BY <1>0, <1>5, <2>1 DEF DepartureSweep
  <1>6. CASE Tick \/ UNCHANGED vars
    BY <1>0, <1>6 DEF Tick, vars, SameRow
  <1> QED
    BY <1>1, <1>2, <1>3, <1>4, <1>5, <1>6 DEF Next

LEMMA InitSeatInv == Init => SeatInv
  <1> SUFFICES ASSUME Init PROVE SeatInv
    OBVIOUS
  <1>1. DOMAIN bookings = {}
    BY DEF Init, EmptyTable
  <1>2. \A f \in Flights, s \in Seats : flights[f].reserved[s] = 0 /\ flights[f].booked[s] = 0
    BY DEF Init, NoSeats
  <1> QED
    BY <1>1, <1>2 DEF SeatInv, SeatExclusive, SeatLedger

-----------------------------------------------------------------------------
(* The payments.                                                           *)

PaymentInv == StatusMirrorsActive /\ TerminalClosesPayments /\ SuccessSettled

\* A request opens attempt p for b and makes it the active one.
AttemptOpened(b, p) ==
    /\ p \notin DOMAIN payments
    /\ DOMAIN payments' = DOMAIN payments \union {p}
    /\ payments'[p].booking = b /\ payments'[p].status = "INITIATED"
    /\ \A q \in DOMAIN payments : payments'[q] = payments[q]
    /\ DOMAIN bookings' = DOMAIN bookings \union {b}
    /\ bookings'[b].active = p /\ bookings'[b].status = "PENDING"
    /\ \A a \in DOMAIN bookings : a # b => bookings'[a] = bookings[a]
    /\ b \in DOMAIN bookings => IsLive(b)
    /\ refunded' = refunded

LEMMA CreateAttempt ==
    ASSUME TypeOK, NEW b, NEW p, NEW f, NEW list, NEW t, CreateBooking(b, p, f, list, t)
    PROVE  AttemptOpened(b, p)
  <1> DEFINE bi == [flight |-> f, seats |-> list, active |-> p, status |-> "PENDING",
                    retryCount |-> 0, expiresAt |-> t + InitialReservation]
             pi == [booking |-> b, status |-> "INITIATED"]
  <1>1. /\ b \notin DOMAIN bookings /\ p \notin DOMAIN payments
        /\ bookings' = Insert(bookings, b, bi)
        /\ payments' = Insert(payments, p, pi)
        /\ refunded' = refunded
    BY DEF CreateBooking
  <1>2. bi.active = p /\ bi.status = "PENDING" /\ pi.booking = b /\ pi.status = "INITIATED"
    OBVIOUS
  <1> HIDE DEF bi, pi
  <1> QED
    BY <1>1, <1>2 DEF Insert, AttemptOpened

LEMMA RetryAttempt ==
    ASSUME TypeOK, NEW b, NEW p, NEW t, RetryPayment(b, p, t)
    PROVE  AttemptOpened(b, p)
  <1> DEFINE bi == [bookings[b] EXCEPT !.active = p, !.status = "PENDING",
                                       !.retryCount = bookings[b].retryCount + 1,
                                       !.expiresAt = t + RetryExtension]
             pi == [booking |-> b, status |-> "INITIATED"]
  <1>1. /\ b \in DOMAIN bookings /\ p \notin DOMAIN payments
        /\ ~IsTerminal(bookings[b].status)
        /\ bookings' = [bookings EXCEPT ![b] = bi]
        /\ payments' = Insert(payments, p, pi)
        /\ refunded' = refunded
    BY DEF RetryPayment, MayRetry, Retried, SetExpiry
  <1>2. bi.active = p /\ bi.status = "PENDING" /\ pi.booking = b /\ pi.status = "INITIATED"
    BY <1>1 DEF TypeOK, Booking
  <1> HIDE DEF bi, pi
  <1>3. /\ DOMAIN bookings' = DOMAIN bookings /\ bookings'[b] = bi
        /\ \A a \in DOMAIN bookings : a # b => bookings'[a] = bookings[a]
    BY <1>1 DEF TypeOK
  <1> QED
    BY <1>1, <1>2, <1>3 DEF Insert, AttemptOpened, IsLive

LEMMA OpenedPaymentInv ==
    ASSUME TypeOK, PaymentInv, NEW b, NEW p, AttemptOpened(b, p)
    PROVE  PaymentInv'
  <1>1. \A q \in DOMAIN payments : payments[q].booking \in DOMAIN bookings
    BY DEF TypeOK
  <1>2. StatusMirrorsActive'
    <2>1. ASSUME NEW a \in DOMAIN bookings, a # b
          PROVE  /\ bookings'[a].active \in DOMAIN payments'
                 /\ payments'[bookings'[a].active].booking = a
                 /\ IsLive(a)' => payments'[bookings'[a].active].status =
                        (IF bookings'[a].status = "PENDING" THEN "INITIATED" ELSE "FAILED")
      BY <2>1 DEF PaymentInv, StatusMirrorsActive, AttemptOpened, IsLive
    <2>2. /\ bookings'[b].active \in DOMAIN payments'
          /\ payments'[bookings'[b].active].booking = b
          /\ bookings'[b].status = "PENDING"
          /\ payments'[bookings'[b].active].status = "INITIATED"
      BY DEF AttemptOpened
    <2> QED
      BY <2>1, <2>2 DEF AttemptOpened, StatusMirrorsActive
  <1>3. TerminalClosesPayments'
    BY <1>1 DEF PaymentInv, TerminalClosesPayments, AttemptOpened, IsLive, IsTerminal
  <1>4. SuccessSettled'
    <2> SUFFICES ASSUME NEW q \in DOMAIN payments', payments'[q].status = "SUCCESS"
                 PROVE  \/ q \in refunded'
                        \/ /\ bookings'[payments'[q].booking].status = "CONFIRMED"
                           /\ bookings'[payments'[q].booking].active = q
      BY DEF SuccessSettled
    <2>1. q \in DOMAIN payments /\ payments'[q] = payments[q] /\ payments[q].booking \in DOMAIN bookings
      BY <1>1 DEF AttemptOpened
    <2>2. \/ q \in refunded
          \/ /\ bookings[payments[q].booking].status = "CONFIRMED"
             /\ bookings[payments[q].booking].active = q
      BY <2>1, SMTT(30) DEF PaymentInv, SuccessSettled
    <2> QED
      BY <2>1, <2>2 DEF AttemptOpened, IsLive, IsTerminal
  <1> QED
    BY <1>2, <1>3, <1>4 DEF PaymentInv

\* Attempts keep their owners, and one decided for b closes what was open.
SameOwners ==
    /\ DOMAIN payments' = DOMAIN payments
    /\ \A q \in DOMAIN payments : payments'[q].booking = payments[q].booking

LEMMA ConfirmPayments ==
    ASSUME TypeOK, NEW p \in DOMAIN payments, ConfirmBooking(p),
           NEW b, b = payments[p].booking
    PROVE  /\ b \in DOMAIN bookings /\ ~IsTerminal(bookings[b].status)
           /\ p = bookings[b].active
           /\ bookings' = [bookings EXCEPT ![b].status = "CONFIRMED"]
           /\ SameOwners /\ refunded' = refunded
           /\ \A q \in DOMAIN payments : payments'[q].status =
                  IF q = p THEN "SUCCESS"
                  ELSE IF payments[q].booking = b /\ payments[q].status = "INITIATED"
                       THEN "EXPIRED" ELSE payments[q].status
  <1> DEFINE table == SetPayment(p, "SUCCESS")
  <1>1. /\ ~IsTerminal(bookings[b].status) /\ p = bookings[b].active
        /\ bookings' = [bookings EXCEPT ![b].status = "CONFIRMED"]
        /\ payments' = ExpireInitiated(table, b, {p})
        /\ refunded' = refunded
    BY DEF ConfirmBooking, IsActivePI
  <1>2. /\ DOMAIN table = DOMAIN payments
        /\ table \in [DOMAIN table -> Payment]
        /\ \A q \in DOMAIN payments :
              /\ table[q].booking = payments[q].booking
              /\ table[q].status = IF q = p THEN "SUCCESS" ELSE payments[q].status
    BY SetPaymentLemma DEF PaymentStatus
  <1> HIDE DEF table
  <1>3. b \in DOMAIN bookings
    BY CallbackRows
  <1>4. /\ DOMAIN payments' = DOMAIN table
        /\ \A q \in DOMAIN table :
              /\ payments'[q].booking = table[q].booking
              /\ payments'[q].status =
                    IF table[q].booking = b /\ table[q].status = "INITIATED" /\ q \notin {p}
                    THEN "EXPIRED" ELSE table[q].status
    BY <1>1, <1>2 DEF ExpireInitiated, Payment
  <1> QED
    BY <1>1, <1>2, <1>3, <1>4 DEF SameOwners

LEMMA ExpirePayments ==
    ASSUME TypeOK, NEW c \in Crons, ExpireBooking(c), NEW b, b = Head(batch[c])
    PROVE  /\ b \in DOMAIN bookings /\ ~IsTerminal(bookings[b].status)
           /\ bookings' = [bookings EXCEPT ![b].status = "EXPIRED"]
           /\ SameOwners /\ refunded' = refunded
           /\ \A q \in DOMAIN payments : payments'[q].status =
                  IF payments[q].booking = b /\ payments[q].status = "INITIATED"
                  THEN "EXPIRED" ELSE payments[q].status
  <1>1. /\ b \in DOMAIN bookings /\ ~IsTerminal(bookings[b].status)
        /\ bookings' = [bookings EXCEPT ![b].status = "EXPIRED"]
        /\ payments' = ExpireInitiated(payments, b, {})
        /\ refunded' = refunded
    BY BatchHead DEF ExpireBooking
  <1>2. payments \in [DOMAIN payments -> Payment]
    BY DEF TypeOK
  <1> QED
    BY <1>1, <1>2, ExpireInitiatedLemma DEF SameOwners

\* The callbacks that only record: one status changes, and a success that
\* does so is refunded.
LEMMA RecordPayments ==
    ASSUME TypeOK, NEW p \in DOMAIN payments, NEW status \in CallbackStatus,
           StaleCallback(p, status) \/ TerminalCallback(p, status)
    PROVE  /\ bookings' = bookings
           /\ SameOwners
           /\ payments'[p].status = status
           /\ \A q \in DOMAIN payments : q # p => payments'[q].status = payments[q].status
           /\ refunded' = IF status = "SUCCESS" THEN refunded \union {p} ELSE refunded
           /\ IsLive(payments[p].booking) => p # bookings[payments[p].booking].active
  <1>1. /\ payments' = SetPayment(p, status)
        /\ bookings' = bookings
        /\ refunded' = IF status = "SUCCESS" THEN refunded \union {p} ELSE refunded
        /\ IsLive(payments[p].booking) => p # bookings[payments[p].booking].active
    BY DEF StaleCallback, TerminalCallback, RefundIfPaid, IsLive
  <1>2. status \in PaymentStatus
    BY DEF CallbackStatus, PaymentStatus
  <1> QED
    BY <1>1, <1>2, SetPaymentLemma DEF SameOwners

LEMMA FailPayments ==
    ASSUME TypeOK, NEW p \in DOMAIN payments, FailBooking(p),
           NEW b, b = payments[p].booking
    PROVE  /\ b \in DOMAIN bookings /\ ~IsTerminal(bookings[b].status)
           /\ p = bookings[b].active
           /\ bookings' = [bookings EXCEPT ![b].status = "PAYMENT_FAILED"]
           /\ SameOwners /\ refunded' = refunded
           /\ payments'[p].status = "FAILED"
           /\ \A q \in DOMAIN payments : q # p => payments'[q].status = payments[q].status
  <1>1. /\ ~IsTerminal(bookings[b].status) /\ p = bookings[b].active
        /\ bookings' = [bookings EXCEPT ![b].status = "PAYMENT_FAILED"]
        /\ payments' = SetPayment(p, "FAILED")
        /\ refunded' = refunded
    BY DEF FailBooking, IsActivePI
  <1>2. b \in DOMAIN bookings /\ "FAILED" \in PaymentStatus
    BY CallbackRows DEF PaymentStatus
  <1> QED
    BY <1>1, <1>2, SetPaymentLemma DEF SameOwners

\* The attempts of b end in statuses that fit its new status st.
AttemptsFit(b, st) ==
    /\ SameOwners /\ refunded' = refunded
    /\ \A q \in DOMAIN payments :
           payments[q].booking # b => payments'[q].status = payments[q].status
    /\ st = "PAYMENT_FAILED" => payments'[bookings[b].active].status = "FAILED"
    /\ IsTerminal(st) => \A q \in DOMAIN payments :
           payments[q].booking = b => payments'[q].status # "INITIATED"
    /\ \A q \in DOMAIN payments :
           /\ payments[q].booking = b /\ payments'[q].status = "SUCCESS"
           => \/ payments[q].status = "SUCCESS"
              \/ st = "CONFIRMED" /\ q = bookings[b].active

LEMMA DecidePaymentInv ==
    ASSUME TypeOK, PaymentInv, NEW b \in DOMAIN bookings, NEW st \in BookingStatus,
           st # "PENDING", ~IsTerminal(bookings[b].status),
           bookings' = [bookings EXCEPT ![b].status = st], AttemptsFit(b, st)
    PROVE  PaymentInv'
  <1> USE DEF AttemptsFit
  <1>1. /\ DOMAIN bookings' = DOMAIN bookings
        /\ bookings'[b].status = st /\ bookings'[b].active = bookings[b].active
        /\ \A a \in DOMAIN bookings : a # b => bookings'[a] = bookings[a]
    BY StatusUpdate
  <1>2. StatusMirrorsActive'
    <2> SUFFICES ASSUME NEW a \in DOMAIN bookings
                 PROVE  /\ bookings'[a].active \in DOMAIN payments'
                        /\ payments'[bookings'[a].active].booking = a
                        /\ IsLive(a)' => payments'[bookings'[a].active].status =
                              (IF bookings'[a].status = "PENDING" THEN "INITIATED" ELSE "FAILED")
      BY <1>1 DEF StatusMirrorsActive
    <2>1. /\ bookings[a].active \in DOMAIN payments
          /\ payments[bookings[a].active].booking = a
      BY DEF PaymentInv, StatusMirrorsActive
    <2>2. CASE a = b
      BY <1>1, <2>1, <2>2 DEF SameOwners, IsLive, IsTerminal, BookingStatus
    <2>3. CASE a # b
      BY <1>1, <2>1, <2>3 DEF SameOwners, IsLive, PaymentInv, StatusMirrorsActive
    <2> QED
      BY <2>2, <2>3
  <1>3. TerminalClosesPayments'
    BY <1>1 DEF PaymentInv, TerminalClosesPayments, SameOwners, IsLive, TypeOK
  <1>4. SuccessSettled'
    <2> SUFFICES ASSUME NEW q \in DOMAIN payments, payments'[q].status = "SUCCESS"
                 PROVE  \/ q \in refunded
                        \/ /\ bookings'[payments[q].booking].status = "CONFIRMED"
                           /\ bookings'[payments[q].booking].active = q
      BY DEF SuccessSettled, SameOwners
    <2>1. payments[q].status = "SUCCESS" =>
             \/ q \in refunded
             \/ /\ bookings[payments[q].booking].status = "CONFIRMED"
                /\ bookings[payments[q].booking].active = q
      BY DEF PaymentInv, SuccessSettled
    <2>2. CASE payments[q].booking = b
      BY <1>1, <2>1, <2>2 DEF IsTerminal
    <2>3. CASE payments[q].booking # b
      BY <1>1, <2>1, <2>3 DEF TypeOK
    <2> QED
      BY <2>2, <2>3
  <1> QED
    BY <1>2, <1>3, <1>4 DEF PaymentInv

LEMMA RecordPaymentInv ==
    ASSUME TypeOK, PaymentInv, NEW p \in DOMAIN payments, NEW status \in CallbackStatus,
           StaleCallback(p, status) \/ TerminalCallback(p, status)
    PROVE  PaymentInv'
  <1>1. /\ bookings' = bookings
        /\ SameOwners
        /\ payments'[p].status = status
        /\ \A q \in DOMAIN payments : q # p => payments'[q].status = payments[q].status
        /\ refunded' = IF status = "SUCCESS" THEN refunded \union {p} ELSE refunded
        /\ IsLive(payments[p].booking) => p # bookings[payments[p].booking].active
    BY RecordPayments
  <1>2. StatusMirrorsActive'
    BY <1>1 DEF PaymentInv, StatusMirrorsActive, SameOwners, IsLive
  <1>3. TerminalClosesPayments'
    BY <1>1 DEF PaymentInv, TerminalClosesPayments, SameOwners, IsLive, CallbackStatus
  <1>4. SuccessSettled'
    BY <1>1 DEF PaymentInv, SuccessSettled, SameOwners
  <1> QED
    BY <1>2, <1>3, <1>4 DEF PaymentInv

LEMMA PaymentStep == TypeOK /\ PaymentInv /\ [Next]_vars => PaymentInv'
  <1> SUFFICES ASSUME TypeOK, PaymentInv, [Next]_vars PROVE PaymentInv'
    OBVIOUS
  <1>0. ASSUME UNCHANGED <<bookings, payments, refunded>> PROVE PaymentInv'
    BY <1>0 DEF PaymentInv, StatusMirrorsActive, TerminalClosesPayments, SuccessSettled, IsLive
  <1>1. ASSUME NEW b \in BookingIds, NEW p \in PaymentIds, NEW f \in Flights,
               NEW list \in SeatRequests, NEW t \in RequestTimes, CreateBooking(b, p, f, list, t)
        PROVE  PaymentInv'
    BY <1>1, CreateAttempt, OpenedPaymentInv
  <1>2. ASSUME NEW b \in BookingIds, NEW p \in PaymentIds, NEW t \in RequestTimes,
               RetryPayment(b, p, t)
        PROVE  PaymentInv'
    BY <1>2, RetryAttempt, OpenedPaymentInv
  <1>3. ASSUME NEW p \in PaymentIds, NEW status \in CallbackStatus,
               ProcessPaymentCallback(p, status)
        PROVE  PaymentInv'
    <2>1. p \in DOMAIN payments
      BY <1>3 DEF ProcessPaymentCallback
    <2>2. CASE ConfirmBooking(p)
      <3>1. PICK b : b = payments[p].booking
        OBVIOUS
      <3>2. /\ b \in DOMAIN bookings /\ ~IsTerminal(bookings[b].status)
            /\ p = bookings[b].active
            /\ bookings' = [bookings EXCEPT ![b].status = "CONFIRMED"]
            /\ SameOwners /\ refunded' = refunded
            /\ \A q \in DOMAIN payments : payments'[q].status =
                   IF q = p THEN "SUCCESS"
                   ELSE IF payments[q].booking = b /\ payments[q].status = "INITIATED"
                        THEN "EXPIRED" ELSE payments[q].status
        BY <2>1, <2>2, <3>1, ConfirmPayments, SMTT(30)
      <3>3. AttemptsFit(b, "CONFIRMED")
        BY <2>1, <3>1, <3>2 DEF AttemptsFit
      <3> QED
        BY <3>2, <3>3, DecidePaymentInv DEF BookingStatus
    <2>3. CASE FailBooking(p)
      <3>1. PICK b : b = payments[p].booking
        OBVIOUS
      <3>2. /\ b \in DOMAIN bookings /\ ~IsTerminal(bookings[b].status)
            /\ p = bookings[b].active
            /\ bookings' = [bookings EXCEPT ![b].status = "PAYMENT_FAILED"]
            /\ SameOwners /\ refunded' = refunded
            /\ payments'[p].status = "FAILED"
            /\ \A q \in DOMAIN payments : q # p => payments'[q].status = payments[q].status
        BY <2>1, <2>3, <3>1, FailPayments, SMTT(30)
      <3>3. AttemptsFit(b, "PAYMENT_FAILED")
        BY <2>1, <3>1, <3>2 DEF AttemptsFit, IsTerminal
      <3> QED
        BY <3>2, <3>3, DecidePaymentInv DEF BookingStatus
    <2>4. CASE StaleCallback(p, status) \/ TerminalCallback(p, status)
      BY <2>1, <2>4, RecordPaymentInv
    <2> QED
      BY <1>3, <2>2, <2>3, <2>4 DEF ProcessPaymentCallback
  <1>4. ASSUME NEW c \in Crons, CronStep(c) PROVE PaymentInv'
    <2>1. CASE ExpireBooking(c)
      <3>1. PICK b : b = Head(batch[c])
        OBVIOUS
      <3>2. /\ b \in DOMAIN bookings /\ ~IsTerminal(bookings[b].status)
            /\ bookings' = [bookings EXCEPT ![b].status = "EXPIRED"]
            /\ SameOwners /\ refunded' = refunded
            /\ \A q \in DOMAIN payments : payments'[q].status =
                   IF payments[q].booking = b /\ payments[q].status = "INITIATED"
                   THEN "EXPIRED" ELSE payments[q].status
        BY <2>1, <3>1, ExpirePayments
      <3>3. AttemptsFit(b, "EXPIRED")
        BY <3>2 DEF AttemptsFit
      <3> QED
        BY <3>2, <3>3, DecidePaymentInv DEF BookingStatus
    <2>2. CASE ~ExpireBooking(c)
      BY <1>0, <1>4, <2>2 DEF CronStep, RunCleanup, ProcessCleanupRow, CleanupDecided,
         CleanupExtended, CleanupRowError, CronCrash
    <2> QED
      BY <2>1, <2>2
  <1>5. CASE (\E t \in RequestTimes : DepartureSweep(t)) \/ Tick \/ UNCHANGED vars
    BY <1>0, <1>5 DEF DepartureSweep, Tick, vars
  <1> QED
    BY <1>1, <1>2, <1>3, <1>4, <1>5 DEF Next

LEMMA InitPaymentInv == Init => PaymentInv
  <1> SUFFICES ASSUME Init PROVE PaymentInv
    OBVIOUS
  <1>1. DOMAIN bookings = {} /\ DOMAIN payments = {}
    BY DEF Init, EmptyTable
  <1> QED
    BY <1>1 DEF PaymentInv, StatusMirrorsActive, TerminalClosesPayments, SuccessSettled

-----------------------------------------------------------------------------
(* The cleanup table.                                                      *)

LEMMA CleanupStep == TypeOK /\ CleanupCoversLive /\ [Next]_vars => CleanupCoversLive'
  <1> SUFFICES ASSUME TypeOK, CleanupCoversLive, [Next]_vars PROVE CleanupCoversLive'
    OBVIOUS
  <1>0. ASSUME UNCHANGED <<bookings, cleanup>> PROVE CleanupCoversLive'
    BY <1>0 DEF CleanupCoversLive, IsLive
  <1>1. ASSUME NEW b \in BookingIds, NEW p \in PaymentIds, NEW f \in Flights,
               NEW list \in SeatRequests, NEW t \in RequestTimes, CreateBooking(b, p, f, list, t)
        PROVE  CleanupCoversLive'
    <2> DEFINE expiry == t + InitialReservation
               bi == [flight |-> f, seats |-> list, active |-> p, status |-> "PENDING",
                      retryCount |-> 0, expiresAt |-> expiry]
    <2>1. /\ b \notin DOMAIN bookings
          /\ bookings' = Insert(bookings, b, bi)
          /\ cleanup' = Insert(cleanup, b, expiry)
      BY <1>1 DEF CreateBooking
    <2>2. bi.status = "PENDING" /\ bi.expiresAt = expiry
      OBVIOUS
    <2> HIDE DEF expiry, bi
    <2> QED
      BY <2>1, <2>2 DEF CleanupCoversLive, IsLive, IsTerminal, Insert
  <1>2. ASSUME NEW b \in BookingIds, NEW p \in PaymentIds, NEW t \in RequestTimes,
               RetryPayment(b, p, t)
        PROVE  CleanupCoversLive'
    <2> DEFINE expiry == t + RetryExtension
               bi == [bookings[b] EXCEPT !.active = p, !.status = "PENDING",
                                         !.retryCount = bookings[b].retryCount + 1,
                                         !.expiresAt = expiry]
    <2>1. /\ b \in DOMAIN bookings /\ ~IsTerminal(bookings[b].status)
          /\ bookings' = [bookings EXCEPT ![b] = bi]
          /\ cleanup' = [k \in DOMAIN cleanup |-> IF k = b THEN expiry ELSE cleanup[k]]
      BY <1>2 DEF RetryPayment, MayRetry, Retried, SetExpiry
    <2>2. bi.status = "PENDING" /\ bi.expiresAt = expiry
      BY <2>1 DEF TypeOK, Booking
    <2> HIDE DEF expiry, bi
    <2> QED
      BY <2>1, <2>2 DEF CleanupCoversLive, IsLive, IsTerminal, TypeOK
  <1>3. ASSUME NEW b \in DOMAIN bookings, NEW st, IsTerminal(st),
               bookings' = [bookings EXCEPT ![b].status = st],
               cleanup' = Delete(cleanup, b)
        PROVE  CleanupCoversLive'
    <2>1. /\ DOMAIN bookings' = DOMAIN bookings
          /\ bookings'[b].status = st
          /\ \A a \in DOMAIN bookings : a # b => bookings'[a] = bookings[a]
      BY <1>3, StatusUpdate
    <2>2. /\ DOMAIN cleanup' = DOMAIN cleanup \ {b}
          /\ \A a \in DOMAIN cleanup' : cleanup'[a] = cleanup[a]
      BY <1>3 DEF Delete, Restrict
    <2> QED
      BY <1>3, <2>1, <2>2 DEF CleanupCoversLive, IsLive
  <1>4. ASSUME NEW p \in PaymentIds, NEW status \in CallbackStatus,
               ProcessPaymentCallback(p, status)
        PROVE  CleanupCoversLive'
    <2>1. PICK b : p \in DOMAIN payments /\ b = payments[p].booking /\ b \in DOMAIN bookings
      BY <1>4 DEF ProcessPaymentCallback, TypeOK
    <2>2. CASE ConfirmBooking(p)
      BY <1>3, <2>1, <2>2 DEF ConfirmBooking, IsTerminal
    <2>3. CASE FailBooking(p)
      <3>1. /\ bookings' = [bookings EXCEPT ![b].status = "PAYMENT_FAILED"]
            /\ ~IsTerminal(bookings[b].status) /\ cleanup' = cleanup
        BY <2>1, <2>3 DEF FailBooking, IsActivePI
      <3>2. /\ DOMAIN bookings' = DOMAIN bookings
            /\ bookings'[b].status = "PAYMENT_FAILED"
            /\ bookings'[b].expiresAt = bookings[b].expiresAt
            /\ \A a \in DOMAIN bookings : a # b => bookings'[a] = bookings[a]
        BY <2>1, <3>1, StatusUpdate
      <3> QED
        BY <2>1, <3>1, <3>2 DEF CleanupCoversLive, IsLive, IsTerminal
    <2>4. CASE StaleCallback(p, status) \/ TerminalCallback(p, status)
      BY <1>0, <2>4 DEF StaleCallback, TerminalCallback
    <2> QED
      BY <1>4, <2>2, <2>3, <2>4 DEF ProcessPaymentCallback
  <1>5. ASSUME NEW c \in Crons, CronStep(c) PROVE CleanupCoversLive'
    <2>1. CASE RunCleanup(c) \/ CleanupRowError(c) \/ CronCrash(c)
      BY <1>0, <2>1 DEF RunCleanup, CleanupRowError, CronCrash
    <2>2. CASE ProcessCleanupRow(c)
      <3>1. PICK b : b = Head(batch[c]) /\ b \in DOMAIN bookings
        BY <2>2, BatchHead DEF ProcessCleanupRow, CleanupDecided, CleanupExtended, ExpireBooking
      <3>2. CASE CleanupDecided(c)
        BY <3>1, <3>2 DEF CleanupDecided, CleanupCoversLive, IsLive, Delete, Restrict
      <3>3. CASE CleanupExtended(c)
        BY <3>1, <3>3 DEF CleanupExtended, SetExpiry, CleanupCoversLive, IsLive
      <3>4. CASE ExpireBooking(c)
        BY <1>3, <3>1, <3>4 DEF ExpireBooking, IsTerminal
      <3> QED
        BY <2>2, <3>2, <3>3, <3>4 DEF ProcessCleanupRow
    <2> QED
      BY <1>5, <2>1, <2>2 DEF CronStep
  <1>6. CASE (\E t \in RequestTimes : DepartureSweep(t)) \/ Tick \/ UNCHANGED vars
    BY <1>0, <1>6 DEF DepartureSweep, Tick, vars
  <1> QED
    BY <1>1, <1>2, <1>4, <1>5, <1>6 DEF Next

LEMMA InitCleanup == Init => CleanupCoversLive
  BY DEF Init, EmptyTable, CleanupCoversLive

-----------------------------------------------------------------------------
(* The attempts a booking may make.                                        *)

Attempts(b) == {p \in DOMAIN payments : payments[p].booking = b}
AttemptsInv ==
    \A b \in DOMAIN bookings :
        /\ IsFiniteSet(Attempts(b)) /\ Cardinality(Attempts(b)) = bookings[b].retryCount + 1
        /\ bookings[b].retryCount <= MaxRetries

\* One attempt is added for b, and its count is n.
LEMMA AttemptAdded ==
    ASSUME TypeOK, AttemptsInv, NEW b, NEW p, AttemptOpened(b, p), NEW n \in Nat,
           n <= MaxRetries, bookings'[b].retryCount = n,
           IF b \in DOMAIN bookings THEN n = bookings[b].retryCount + 1 ELSE n = 0
    PROVE  AttemptsInv'
  <1>1. /\ Attempts(b)' = Attempts(b) \union {p} /\ p \notin Attempts(b)
        /\ \A a \in DOMAIN bookings : a # b => Attempts(a)' = Attempts(a)
    BY DEF AttemptOpened, Attempts
  <1>2. IsFiniteSet(Attempts(b)) /\ Cardinality(Attempts(b)) = n
    <2>1. CASE b \in DOMAIN bookings
      BY <2>1 DEF AttemptsInv
    <2>2. CASE b \notin DOMAIN bookings
      <3>1. Attempts(b) = {}
        BY <2>2 DEF Attempts, TypeOK
      <3> QED
        BY <2>2, <3>1, FS_EmptySet
    <2> QED
      BY <2>1, <2>2
  <1>3. IsFiniteSet(Attempts(b)') /\ Cardinality(Attempts(b)') = n + 1
    BY <1>1, <1>2, FS_AddElement
  <1> QED
    BY <1>1, <1>3 DEF AttemptsInv, AttemptOpened

LEMMA AttemptsStep == TypeOK /\ AttemptsInv /\ [Next]_vars => AttemptsInv'
  <1> SUFFICES ASSUME TypeOK, AttemptsInv, [Next]_vars PROVE AttemptsInv'
    OBVIOUS
  <1>0. ASSUME SameOwners, DOMAIN bookings' = DOMAIN bookings,
               \A b \in DOMAIN bookings : bookings'[b].retryCount = bookings[b].retryCount
        PROVE  AttemptsInv'
    <2>1. \A b \in DOMAIN bookings : Attempts(b)' = Attempts(b)
      BY <1>0 DEF SameOwners, Attempts
    <2> QED
      BY <1>0, <2>1 DEF AttemptsInv
  <1>1. ASSUME NEW b \in BookingIds, NEW p \in PaymentIds, NEW f \in Flights,
               NEW list \in SeatRequests, NEW t \in RequestTimes, CreateBooking(b, p, f, list, t)
        PROVE  AttemptsInv'
    <2>1. AttemptOpened(b, p)
      BY <1>1, CreateAttempt
    <2>2. b \notin DOMAIN bookings /\ bookings'[b].retryCount = 0
      BY <1>1 DEF CreateBooking, Insert
    <2> QED
      BY <2>1, <2>2, AttemptAdded, ConstantsAssumption
  <1>2. ASSUME NEW b \in BookingIds, NEW p \in PaymentIds, NEW t \in RequestTimes,
               RetryPayment(b, p, t)
        PROVE  AttemptsInv'
    <2>1. AttemptOpened(b, p)
      BY <1>2, RetryAttempt
    <2>2. /\ b \in DOMAIN bookings /\ bookings[b].retryCount < MaxRetries
          /\ bookings[b] \in Booking /\ bookings[b].retryCount \in Nat
      BY <1>2 DEF RetryPayment, MayRetry, TypeOK, Booking
    <2>3. bookings'[b].retryCount = bookings[b].retryCount + 1
      <3> DEFINE bi == [bookings[b] EXCEPT !.active = p, !.status = "PENDING",
                                           !.retryCount = bookings[b].retryCount + 1,
                                           !.expiresAt = t + RetryExtension]
      <3>1. bookings' = [bookings EXCEPT ![b] = bi]
        BY <1>2 DEF RetryPayment, MayRetry, Retried, SetExpiry
      <3>2. bi.retryCount = bookings[b].retryCount + 1
        BY <2>2 DEF Booking
      <3> HIDE DEF bi
      <3> QED
        BY <2>2, <3>1, <3>2 DEF TypeOK
    <2> QED
      BY <2>1, <2>2, <2>3, AttemptAdded, ConstantsAssumption
  <1>3. ASSUME NEW p \in PaymentIds, NEW status \in CallbackStatus,
               ProcessPaymentCallback(p, status)
        PROVE  AttemptsInv'
    <2>1. PICK b : p \in DOMAIN payments /\ b = payments[p].booking /\ b \in DOMAIN bookings
      BY <1>3 DEF ProcessPaymentCallback, TypeOK
    <2>2. CASE ConfirmBooking(p)
      <3>1. SameOwners /\ bookings' = [bookings EXCEPT ![b].status = "CONFIRMED"]
        BY <2>1, <2>2, ConfirmPayments
      <3> QED
        BY <1>0, <2>1, <3>1, StatusUpdate
    <2>3. CASE FailBooking(p)
      <3>1. SameOwners /\ bookings' = [bookings EXCEPT ![b].status = "PAYMENT_FAILED"]
        BY <2>1, <2>3, FailPayments
      <3> QED
        BY <1>0, <2>1, <3>1, StatusUpdate
    <2>4. CASE StaleCallback(p, status) \/ TerminalCallback(p, status)
      BY <1>0, <2>1, <2>4, RecordPayments
    <2> QED
      BY <1>3, <2>2, <2>3, <2>4 DEF ProcessPaymentCallback
  <1>4. ASSUME NEW c \in Crons, CronStep(c) PROVE AttemptsInv'
    <2>1. CASE ExpireBooking(c)
      <3>1. PICK b : b = Head(batch[c])
        OBVIOUS
      <3>2. /\ b \in DOMAIN bookings /\ SameOwners
            /\ bookings' = [bookings EXCEPT ![b].status = "EXPIRED"]
        BY <2>1, <3>1, ExpirePayments
      <3> QED
        BY <1>0, <3>2, StatusUpdate
    <2>2. CASE ~ExpireBooking(c)
      BY <1>0, <1>4, <2>2 DEF CronStep, RunCleanup, ProcessCleanupRow, CleanupDecided,
         CleanupExtended, CleanupRowError, CronCrash, SameOwners
    <2> QED
      BY <2>1, <2>2
  <1>5. CASE (\E t \in RequestTimes : DepartureSweep(t)) \/ Tick \/ UNCHANGED vars
    BY <1>0, <1>5 DEF DepartureSweep, Tick, vars, SameOwners
  <1> QED
    BY <1>1, <1>2, <1>3, <1>4, <1>5 DEF Next

-----------------------------------------------------------------------------
(* The attempt a live booking waits for has not been refunded.             *)

ActiveUnrefunded == \A b \in DOMAIN bookings : IsLive(b) => bookings[b].active \notin refunded

LEMMA ActiveUnrefundedStep ==
    TypeOK /\ PaymentInv /\ ActiveUnrefunded /\ [Next]_vars => ActiveUnrefunded'
  <1> SUFFICES ASSUME TypeOK, PaymentInv, ActiveUnrefunded, [Next]_vars
               PROVE  ActiveUnrefunded'
    OBVIOUS
  <1>0. ASSUME UNCHANGED <<bookings, refunded>> PROVE ActiveUnrefunded'
    BY <1>0 DEF ActiveUnrefunded, IsLive
  <1>1. ASSUME NEW b, NEW p, AttemptOpened(b, p) PROVE ActiveUnrefunded'
    BY <1>1 DEF AttemptOpened, ActiveUnrefunded, IsLive, TypeOK
  <1>2. ASSUME NEW b \in DOMAIN bookings, NEW st, ~IsTerminal(bookings[b].status),
               bookings' = [bookings EXCEPT ![b].status = st], refunded' = refunded
        PROVE  ActiveUnrefunded'
    BY <1>2, StatusUpdate DEF ActiveUnrefunded, IsLive
  <1>3. ASSUME NEW b \in BookingIds, NEW p \in PaymentIds, NEW f \in Flights,
               NEW list \in SeatRequests, NEW t \in RequestTimes, CreateBooking(b, p, f, list, t)
        PROVE  ActiveUnrefunded'
    BY <1>1, <1>3, CreateAttempt
  <1>4. ASSUME NEW b \in BookingIds, NEW p \in PaymentIds, NEW t \in RequestTimes,
               RetryPayment(b, p, t)
        PROVE  ActiveUnrefunded'
    BY <1>1, <1>4, RetryAttempt
  <1>5. ASSUME NEW p \in PaymentIds, NEW status \in CallbackStatus,
               ProcessPaymentCallback(p, status)
        PROVE  ActiveUnrefunded'
    <2>1. PICK b : p \in DOMAIN payments /\ b = payments[p].booking
      BY <1>5 DEF ProcessPaymentCallback
    <2>2. CASE ConfirmBooking(p)
      BY <1>2, <2>1, <2>2, ConfirmPayments
    <2>3. CASE FailBooking(p)
      BY <1>2, <2>1, <2>3, FailPayments
    <2>4. CASE StaleCallback(p, status) \/ TerminalCallback(p, status)
      <3>1. /\ bookings' = bookings /\ refunded' \subseteq refunded \union {p}
            /\ IsLive(b) => p # bookings[b].active
        BY <2>1, <2>4, RecordPayments
      <3>2. \A a \in DOMAIN bookings : IsLive(a) => bookings[a].active # p
        BY <2>1, <3>1 DEF PaymentInv, StatusMirrorsActive
      <3> QED
        BY <3>1, <3>2 DEF ActiveUnrefunded, IsLive
    <2> QED
      BY <1>5, <2>2, <2>3, <2>4 DEF ProcessPaymentCallback
  <1>6. ASSUME NEW c \in Crons, CronStep(c) PROVE ActiveUnrefunded'
    <2>1. CASE ExpireBooking(c)
      <3>1. PICK b : b = Head(batch[c])
        OBVIOUS
      <3> QED
        BY <1>2, <2>1, <3>1, ExpirePayments
    <2>2. CASE ~ExpireBooking(c)
      BY <1>0, <1>6, <2>2 DEF CronStep, RunCleanup, ProcessCleanupRow, CleanupDecided,
         CleanupExtended, CleanupRowError, CronCrash
    <2> QED
      BY <2>1, <2>2
  <1>7. CASE (\E t \in RequestTimes : DepartureSweep(t)) \/ Tick \/ UNCHANGED vars
    BY <1>0, <1>7 DEF DepartureSweep, Tick, vars
  <1> QED
    BY <1>3, <1>4, <1>5, <1>6, <1>7 DEF Next

-----------------------------------------------------------------------------
(* The inductive invariant and the theorems.                               *)

IInv ==
    /\ TypeOK /\ SeatInv /\ PaymentInv /\ CleanupCoversLive
    /\ AttemptsInv /\ ActiveUnrefunded

\* The types, the seat ledger, the payment bookkeeping, the cleanup table and
\* the attempt counts hold in every reachable state: what every transaction of
\* the services relies on and restores.
THEOREM Invariance == Spec => []IInv
  <1>1. Init => IInv
    <2>1. Init => AttemptsInv /\ ActiveUnrefunded
      BY DEF Init, EmptyTable, AttemptsInv, ActiveUnrefunded
    <2> QED
      BY <2>1, InitType, InitSeatInv, InitPaymentInv, InitCleanup DEF IInv
  <1>2. IInv /\ [Next]_vars => IInv'
    BY StepType, SeatStep, PaymentStep, CleanupStep, AttemptsStep,
       ActiveUnrefundedStep DEF IInv
  <1> QED
    BY <1>1, <1>2, PTL DEF Spec

\* No seat of a flight is ever sold or held twice.
THEOREM SeatsAreExclusive == Spec => []SeatExclusive
  <1>1. IInv => SeatExclusive
    BY DEF IInv, SeatInv
  <1> QED
    BY <1>1, Invariance, PTL

\* The seat arrays of the flights always agree with the bookings.
THEOREM LedgerIsExact == Spec => []SeatLedger
  <1>1. IInv => SeatLedger
    BY DEF IInv, SeatInv
  <1> QED
    BY <1>1, Invariance, PTL

\* The cron's table always holds exactly the undecided bookings.
THEOREM CleanupIsComplete == Spec => []CleanupCoversLive
  <1>1. IInv => CleanupCoversLive
    BY DEF IInv
  <1> QED
    BY <1>1, Invariance, PTL

\* A booking's status always tells the state of its active payment attempt.
THEOREM StatusIsMirrored == Spec => []StatusMirrorsActive
  <1>1. IInv => StatusMirrorsActive
    BY DEF IInv, PaymentInv
  <1> QED
    BY <1>1, Invariance, PTL

\* Decided bookings never leave a payment attempt open.
THEOREM AttemptsAreClosed == Spec => []TerminalClosesPayments
  <1>1. IInv => TerminalClosesPayments
    BY DEF IInv, PaymentInv
  <1> QED
    BY <1>1, Invariance, PTL

\* No successful payment is ever kept without the booking it paid for.
THEOREM PaymentsAreSettled == Spec => []SuccessSettled
  <1>1. IInv => SuccessSettled
    BY DEF IInv, PaymentInv
  <1> QED
    BY <1>1, Invariance, PTL

\* Attempts never outnumber the creation and the allowed retries.
THEOREM AttemptsAreBounded == Spec => []AttemptsBounded
  <1>1. IInv => AttemptsBounded
    BY DEF IInv, AttemptsInv, AttemptsBounded, Attempts
  <1> QED
    BY <1>1, Invariance, PTL

\* What one step may do to the outcome of a booking.
LEMMA OutcomeStep ==
    ASSUME TypeOK, [Next]_vars, NEW b \in DOMAIN bookings
    PROVE  /\ b \in DOMAIN bookings'
           /\ ~IsLive(b) => bookings'[b] = bookings[b]
           /\ IsLive(b) /\ bookings'[b].status = "EXPIRED" => bookings[b].expiresAt <= now
           /\ IsLive(b) /\ bookings'[b].status = "CONFIRMED" =>
                 /\ bookings'[b].active = bookings[b].active
                 /\ payments'[bookings[b].active].status = "SUCCESS"
  <1> DEFINE Goal ==
               /\ b \in DOMAIN bookings'
               /\ ~IsLive(b) => bookings'[b] = bookings[b]
               /\ IsLive(b) /\ bookings'[b].status = "EXPIRED" => bookings[b].expiresAt <= now
               /\ IsLive(b) /\ bookings'[b].status = "CONFIRMED" =>
                     /\ bookings'[b].active = bookings[b].active
                     /\ payments'[bookings[b].active].status = "SUCCESS"
  <1>0. ASSUME UNCHANGED bookings PROVE Goal
    BY <1>0 DEF IsLive, IsTerminal
  <1>1. ASSUME NEW a, NEW p, AttemptOpened(a, p) PROVE Goal
    BY <1>1 DEF AttemptOpened, IsLive, IsTerminal
  <1>2. ASSUME NEW a \in BookingIds, NEW p \in PaymentIds, NEW f \in Flights,
               NEW list \in SeatRequests, NEW t \in RequestTimes, CreateBooking(a, p, f, list, t)
        PROVE  Goal
    BY <1>1, <1>2, CreateAttempt
  <1>3. ASSUME NEW a \in BookingIds, NEW p \in PaymentIds, NEW t \in RequestTimes,
               RetryPayment(a, p, t)
        PROVE  Goal
    BY <1>1, <1>3, RetryAttempt
  <1>4. ASSUME NEW p \in PaymentIds, NEW status \in CallbackStatus,
               ProcessPaymentCallback(p, status)
        PROVE  Goal
    <2>1. PICK a : p \in DOMAIN payments /\ a = payments[p].booking
      BY <1>4 DEF ProcessPaymentCallback
    <2>2. CASE ConfirmBooking(p)
      <3>1. /\ a \in DOMAIN bookings /\ ~IsTerminal(bookings[a].status) /\ p = bookings[a].active
            /\ bookings' = [bookings EXCEPT ![a].status = "CONFIRMED"]
            /\ payments'[p].status = "SUCCESS"
        BY <2>1, <2>2, ConfirmPayments
      <3> QED
        BY <3>1, StatusUpdate DEF IsLive, IsTerminal
    <2>3. CASE FailBooking(p)
      <3>1. /\ a \in DOMAIN bookings /\ ~IsTerminal(bookings[a].status)
            /\ bookings' = [bookings EXCEPT ![a].status = "PAYMENT_FAILED"]
        BY <2>1, <2>3, FailPayments
      <3> QED
        BY <3>1, StatusUpdate DEF IsLive, IsTerminal
    <2>4. CASE StaleCallback(p, status) \/ TerminalCallback(p, status)
      BY <1>0, <2>4 DEF StaleCallback, TerminalCallback
    <2> QED
      BY <1>4, <2>2, <2>3, <2>4 DEF ProcessPaymentCallback
  <1>5. ASSUME NEW c \in Crons, CronStep(c) PROVE Goal
    <2>1. CASE ExpireBooking(c)
      <3>1. PICK a : a = Head(batch[c])
        OBVIOUS
      <3>2. /\ a \in DOMAIN bookings /\ ~IsTerminal(bookings[a].status)
            /\ bookings' = [bookings EXCEPT ![a].status = "EXPIRED"]
        BY <2>1, <3>1, ExpirePayments
      <3>3. bookings[a].expiresAt <= now
        BY <2>1, <3>1 DEF ExpireBooking, IsDue
      <3> QED
        BY <3>2, <3>3, StatusUpdate DEF IsLive, IsTerminal
    <2>2. CASE ~ExpireBooking(c)
      BY <1>0, <1>5, <2>2 DEF CronStep, RunCleanup, ProcessCleanupRow, CleanupDecided,
         CleanupExtended, CleanupRowError, CronCrash
    <2> QED
      BY <2>1, <2>2
  <1>6. CASE (\E t \in RequestTimes : DepartureSweep(t)) \/ Tick \/ UNCHANGED vars
    BY <1>0, <1>6 DEF DepartureSweep, Tick, vars
  <1> QED
    BY <1>2, <1>3, <1>4, <1>5, <1>6 DEF Next

\* No step changes a booking that is CONFIRMED or EXPIRED.
THEOREM OutcomesAreFinal == Spec => TerminalIsFinal
  <1>1. TypeOK /\ [Next]_vars => [\A b \in DOMAIN bookings : ~IsLive(b) =>
                                    b \in DOMAIN bookings' /\ bookings'[b] = bookings[b]]_vars
    BY OutcomeStep
  <1> QED
    BY <1>1, TypeCorrect, PTL DEF Spec, TerminalIsFinal

\* No booking expires before the expiry in force.
THEOREM ExpiryIsDue == Spec => NoFalseExpiry
  <1>1. TypeOK /\ [Next]_vars =>
          [\A b \in DOMAIN bookings :
              IsLive(b) /\ bookings'[b].status = "EXPIRED" => bookings[b].expiresAt <= now]_vars
    BY OutcomeStep
  <1> QED
    BY <1>1, TypeCorrect, PTL DEF Spec, NoFalseExpiry

\* A booking is confirmed on a successful payment that nobody has refunded.
THEOREM ConfirmationIsPaid == Spec => ConfirmedOnUnrefunded
  <1>1. IInv /\ [Next]_vars =>
          [\A b \in DOMAIN bookings :
              IsLive(b) /\ bookings'[b].status = "CONFIRMED" =>
                  /\ bookings'[b].active \notin refunded
                  /\ payments'[bookings'[b].active].status = "SUCCESS"]_vars
    BY OutcomeStep DEF IInv, ActiveUnrefunded
  <1> QED
    BY <1>1, Invariance, PTL DEF Spec, ConfirmedOnUnrefunded

-----------------------------------------------------------------------------
(* The length of a seat array.                                             *)

\* An array has a length, an empty one has length 0, and appending adds.
LEMMA LengthNat == ASSUME NEW l \in SeatList PROVE Length(l) \in Nat
  BY ConstantsAssumption, SumNat DEF SeatList, Length

LEMMA LengthEmpty == Length(NoSeats) = 0
  <1>1. NoSeats \in [Seats -> Nat] /\ \A s \in Seats : NoSeats[s] = 0
    BY DEF NoSeats
  <1> QED
    BY <1>1, ConstantsAssumption, SumZero DEF Length

LEMMA LengthAppend ==
    ASSUME NEW a \in SeatList, NEW b \in SeatList
    PROVE  Length(AppendSeats(a, b)) = Length(a) + Length(b)
  <1> DEFINE c == AppendSeats(a, b)
  <1>1. c \in SeatList /\ \A x \in Seats : c[x] = a[x] + b[x]
    BY AppendSeatsLemma
  <1> HIDE DEF c
  <1> QED
    BY <1>1, ConstantsAssumption, SumAdd DEF SeatList, Length, c

-----------------------------------------------------------------------------
(* The status of a flight.                                                 *)

ClosedWhenSoldOut(row) ==
    /\ row.status = "SCHEDULED" => Length(row.booked) < TotalSeats
    /\ row.status = "FULLY_BOOKED" => Length(row.booked) >= TotalSeats

\* What one transaction makes of a flight row, as far as this section goes.
RowStep(row, newRow) ==
    \/ newRow.status = row.status /\ newRow.booked = row.booked
    \/ newRow.status = "DEPARTED"
    \/ \E bi \in Booking : newRow = Confirmed(row, bi) \/ newRow = Released(row, bi)

LEMMA TotalSeatsNat == TotalSeats \in Nat \ {0}
  <1>1. TotalSeats \in Nat
    BY ConstantsAssumption, FS_CardinalityType DEF TotalSeats
  <1>2. TotalSeats # 0
    BY ConstantsAssumption, FS_EmptySet DEF TotalSeats
  <1> QED
    BY <1>1, <1>2

\* A confirmation closes a flight that it fills, an expiry finds no room on a
\* flight that is full: neither opens a closed flight.
LEMMA RowStepCloses ==
    ASSUME NEW row \in Flight, NEW newRow, ClosedWhenSoldOut(row), RowStep(row, newRow)
    PROVE  /\ ClosedWhenSoldOut(newRow)
           /\ row.status # "SCHEDULED" => newRow.status # "SCHEDULED"
  <1>1. Length(row.booked) \in Nat /\ TotalSeats \in Nat /\ row.status \in FlightStatus
    BY LengthNat, TotalSeatsNat DEF Flight
  <1>2. ASSUME NEW bi \in Booking, newRow = Confirmed(row, bi)
        PROVE  /\ ClosedWhenSoldOut(newRow)
               /\ row.status # "SCHEDULED" => newRow.status # "SCHEDULED"
    <2> DEFINE booked == AppendSeats(row.booked, bi.seats)
    <2>1. booked \in SeatList /\ Length(booked) = Length(row.booked) + Length(bi.seats)
      BY AppendSeatsLemma, LengthAppend DEF Flight, Booking
    <2>2. Length(bi.seats) \in Nat
      BY LengthNat DEF Booking
    <2>3. /\ newRow.booked = booked
          /\ newRow.status = IF Length(booked) >= TotalSeats THEN "FULLY_BOOKED" ELSE row.status
      BY <1>2 DEF Confirmed, IsFull
    <2> HIDE DEF booked
    <2> QED
      BY <1>1, <2>1, <2>2, <2>3 DEF ClosedWhenSoldOut, FlightStatus
  <1>3. ASSUME NEW bi \in Booking, newRow = Released(row, bi)
        PROVE  /\ ClosedWhenSoldOut(newRow)
               /\ row.status # "SCHEDULED" => newRow.status # "SCHEDULED"
    <2> DEFINE reserved == RemoveSeats(row.reserved, bi.seats)
               reopened == row.status = "FULLY_BOOKED" /\ HasRoom(reserved, row.booked)
    <2>1. Length(reserved) \in Nat
      BY RemoveSeatsLemma, LengthNat DEF Flight, Booking
    <2>2. ~reopened
      BY <1>1, <2>1 DEF ClosedWhenSoldOut, HasRoom
    <2>3. newRow.booked = row.booked
      BY <1>3, ReleasedLemma
    <2>4. newRow.status = IF reopened THEN "SCHEDULED" ELSE row.status
      BY <1>3 DEF Released, Flight
    <2> QED
      BY <2>2, <2>3, <2>4 DEF ClosedWhenSoldOut
  <1>4. CASE newRow.status = row.status /\ newRow.booked = row.booked
    BY <1>4 DEF ClosedWhenSoldOut
  <1>5. CASE newRow.status = "DEPARTED"
    BY <1>5 DEF ClosedWhenSoldOut
  <1> QED
    BY <1>2, <1>3, <1>4, <1>5 DEF RowStep

LEMMA FlightRowSteps ==
    ASSUME TypeOK, [Next]_vars, NEW f \in Flights
    PROVE  flights[f] \in Flight /\ RowStep(flights[f], flights'[f])
  <1> DEFINE Stepped == RowStep(flights[f], flights'[f])
  <1>0. flights[f] \in Flight /\ flights \in [Flights -> Flight]
    BY DEF TypeOK
  <1>1. ASSUME UNCHANGED flights PROVE Stepped
    BY <1>0, <1>1 DEF RowStep
  <1>2. ASSUME NEW b \in BookingIds, NEW p \in PaymentIds, NEW g \in Flights,
               NEW list \in SeatRequests, NEW t \in RequestTimes, CreateBooking(b, p, g, list, t)
        PROVE  Stepped
    <2>1. flights' = [flights EXCEPT ![g].reserved = AppendSeats(flights[g].reserved, list)]
      BY <1>2 DEF CreateBooking
    <2>2. flights'[f].status = flights[f].status /\ flights'[f].booked = flights[f].booked
      BY <1>0, <2>1 DEF Flight
    <2> QED
      BY <2>2 DEF RowStep
  <1>3. ASSUME NEW p \in PaymentIds, NEW status \in CallbackStatus,
               ProcessPaymentCallback(p, status)
        PROVE  Stepped
    <2>1. p \in DOMAIN payments
      BY <1>3 DEF ProcessPaymentCallback
    <2>2. CASE ConfirmBooking(p)
      <3> DEFINE bi == bookings[payments[p].booking]
      <3>1. bi \in Booking /\ bi.flight \in Flights
        BY <2>1, CallbackRows
      <3>2. flights' = [flights EXCEPT ![bi.flight] = Confirmed(flights[bi.flight], bi)]
        BY <2>2 DEF ConfirmBooking
      <3> HIDE DEF bi
      <3>3. CASE f = bi.flight
        <4>1. flights'[f] = Confirmed(flights[f], bi)
          BY <1>0, <3>1, <3>2, <3>3
        <4> QED
          BY <4>1, <3>1 DEF RowStep
      <3>4. CASE f # bi.flight
        BY <1>0, <3>2, <3>4 DEF RowStep
      <3> QED
        BY <3>3, <3>4
    <2> QED
      BY <1>1, <1>3, <2>2 DEF ProcessPaymentCallback, FailBooking, StaleCallback, TerminalCallback
  <1>4. ASSUME NEW c \in Crons, CronStep(c) PROVE Stepped
    <2>1. CASE ExpireBooking(c)
      <3> DEFINE bi == bookings[Head(batch[c])]
      <3>1. batch[c] # << >>
        BY <2>1 DEF ExpireBooking
      <3>2. bi \in Booking /\ bi.flight \in Flights
        BY <3>1, BatchHead DEF TypeOK, Booking
      <3>3. flights' = [flights EXCEPT ![bi.flight] = Released(flights[bi.flight], bi)]
        BY <2>1 DEF ExpireBooking
      <3> HIDE DEF bi
      <3>4. CASE f = bi.flight
        <4>1. flights'[f] = Released(flights[f], bi)
          BY <1>0, <3>2, <3>3, <3>4
        <4> QED
          BY <4>1, <3>2 DEF RowStep
      <3>5. CASE f # bi.flight
        BY <1>0, <3>3, <3>5 DEF RowStep
      <3> QED
        BY <3>4, <3>5
    <2> QED
      BY <1>1, <1>4, <2>1 DEF CronStep, RunCleanup, ProcessCleanupRow, CleanupDecided,
         CleanupExtended, CleanupRowError, CronCrash
  <1>5. ASSUME \E t \in RequestTimes : DepartureSweep(t) PROVE Stepped
    <2>1. PICK swept \in SUBSET Flights : flights' = [g \in Flights |->
              IF g \in swept THEN [flights[g] EXCEPT !.status = "DEPARTED"] ELSE flights[g]]
      BY <1>5 DEF DepartureSweep
    <2>2. flights'[f].status = "DEPARTED" \/ flights'[f] = flights[f]
      BY <1>0, <2>1 DEF Flight
    <2> QED
      BY <2>2 DEF RowStep
  <1>6. ASSUME NEW b \in BookingIds, NEW p \in PaymentIds, NEW t \in RequestTimes,
               RetryPayment(b, p, t)
        PROVE  UNCHANGED flights
    BY <1>6 DEF RetryPayment
  <1>7. Tick \/ UNCHANGED vars => UNCHANGED flights
    BY DEF Tick, vars
  <1>8. \/ \E b \in BookingIds, p \in PaymentIds, g \in Flights :
              \E list \in SeatRequests, t \in RequestTimes : CreateBooking(b, p, g, list, t)
        \/ \E b \in BookingIds, p \in PaymentIds : \E t \in RequestTimes : RetryPayment(b, p, t)
        \/ \E p \in PaymentIds, status \in CallbackStatus : ProcessPaymentCallback(p, status)
        \/ \E c \in Crons : CronStep(c)
        \/ \E t \in RequestTimes : DepartureSweep(t)
        \/ Tick
        \/ UNCHANGED vars
    BY DEF Next
  <1>9. Stepped
    <2> HIDE DEF Stepped
    <2> QED
      BY <1>1, <1>2, <1>3, <1>4, <1>5, <1>6, <1>7, <1>8
  <1> QED
    BY <1>0, <1>9

LEMMA ClosingStep ==
    TypeOK /\ SoldOutIsClosed /\ [Next]_vars =>
        /\ SoldOutIsClosed'
        /\ \A f \in Flights : flights[f].status # "SCHEDULED" => flights'[f].status # "SCHEDULED"
  <1> SUFFICES ASSUME TypeOK, SoldOutIsClosed, [Next]_vars
               PROVE  \A f \in Flights :
                          /\ ClosedWhenSoldOut(flights'[f])
                          /\ flights[f].status # "SCHEDULED" => flights'[f].status # "SCHEDULED"
    BY DEF SoldOutIsClosed, ClosedWhenSoldOut
  <1>1. \A f \in Flights : ClosedWhenSoldOut(flights[f])
    BY DEF SoldOutIsClosed, ClosedWhenSoldOut
  <1> QED
    BY <1>1, FlightRowSteps, RowStepCloses

LEMMA InitClosed == Init => SoldOutIsClosed
  <1> SUFFICES ASSUME Init PROVE SoldOutIsClosed
    OBVIOUS
  <1>1. \A f \in Flights : flights[f].status = "SCHEDULED" /\ flights[f].booked = NoSeats
    BY DEF Init
  <1>2. Length(NoSeats) < TotalSeats
    BY LengthEmpty, TotalSeatsNat
  <1> QED
    BY <1>1, <1>2 DEF SoldOutIsClosed

\* A flight takes no more bookings once booked_seats is as long as the flight
\* is large, and is closed as full only then, whatever was booked twice.
THEOREM SoldOutCloses == Spec => []SoldOutIsClosed
  <1>1. Init => SoldOutIsClosed
    BY InitClosed
  <1>2. TypeOK /\ SoldOutIsClosed /\ [Next]_vars => SoldOutIsClosed'
    BY ClosingStep
  <1> QED
    BY <1>1, <1>2, TypeCorrect, PTL DEF Spec

\* The branch of the cleanup that reopens a full flight is never taken, and a
\* departed flight does not come back on sale.
THEOREM ClosedStaysClosed == Spec => NeverReopened
  <1>1. TypeOK /\ SoldOutIsClosed /\ [Next]_vars =>
          [\A f \in Flights :
              flights[f].status # "SCHEDULED" => flights'[f].status # "SCHEDULED"]_vars
    BY ClosingStep
  <1> QED
    BY <1>1, TypeCorrect, SoldOutCloses, PTL DEF Spec, NeverReopened

-----------------------------------------------------------------------------
(* BookingStore implements SeatSale.                                       *)

\* What BookingStore shows of a seat and of a booking.
SaleSeat == [f \in Flights |-> [s \in Seats |-> SeatState(f, s)]]
SaleClaim(b) == [flight |-> bookings[b].flight, seats |-> Taken(bookings[b].seats),
                 stage |-> Stage(bookings[b].status)]
SaleClaims == [b \in DOMAIN bookings |-> SaleClaim(b)]

\* A booking that keeps its seats and its outcome keeps its claim.
LEMMA SameClaim ==
    ASSUME NEW a \in DOMAIN bookings, SameHolder(a) PROVE SaleClaim(a)' = SaleClaim(a)
  BY DEF SameHolder, SaleClaim, Stage

\* A flight that keeps its arrays keeps its seat map.
LEMMA SameSeats ==
    ASSUME NEW f \in Flights, SameRow(f) PROVE SaleSeat'[f] = SaleSeat[f]
  BY DEF SameRow, SaleSeat, SeatState

\* A step that moves no seat and decides no booking is invisible.
LEMMA SaleStutters ==
    ASSUME DOMAIN bookings' = DOMAIN bookings, \A a \in DOMAIN bookings : SameHolder(a),
           \A f \in Flights : SameRow(f)
    PROVE  UNCHANGED Sale!saleVars
  <1>1. SaleClaims' = SaleClaims
    BY SameClaim DEF SaleClaims
  <1>2. SaleSeat' = SaleSeat
    BY SameSeats DEF SaleSeat
  <1> QED
    BY <1>1, <1>2 DEF Sale!saleVars, SaleClaims, SaleClaim, SaleSeat

\* In flight f the seats S become mark, the others keep their state, and no
\* other flight changes: the seat map is Marked.
LEMMA SeatsMarked ==
    ASSUME NEW f \in Flights, NEW S, NEW mark, \A g \in Flights : g # f => SameRow(g),
           \A s \in Seats : SeatState(f, s)' = IF s \in S THEN mark ELSE SeatState(f, s)
    PROVE  SaleSeat' = Sale!Marked(f, S, mark)
  <1>1. Sale!Marked(f, S, mark) =
          [SaleSeat EXCEPT ![f] = [s \in Seats |-> IF s \in S THEN mark ELSE SaleSeat[f][s]]]
    BY DEF Sale!Marked, SaleSeat
  <1>2. SaleSeat'[f] = [s \in Seats |-> IF s \in S THEN mark ELSE SaleSeat[f][s]]
    BY DEF SaleSeat
  <1>3. \A g \in Flights : g # f => SaleSeat'[g] = SaleSeat[g]
    BY SameSeats
  <1>4. SaleSeat = [g \in Flights |-> SaleSeat[g]] /\ SaleSeat' = [g \in Flights |-> SaleSeat'[g]]
    BY DEF SaleSeat
  <1> HIDE DEF SaleSeat
  <1> QED
    BY <1>1, <1>2, <1>3, <1>4

\* A created booking holds its seats, all of which were free.
LEMMA CreateHolds ==
    ASSUME TypeOK, NEW b \in BookingIds, NEW p \in PaymentIds, NEW f \in Flights,
           NEW list \in SeatRequests, NEW t \in RequestTimes, CreateBooking(b, p, f, list, t)
    PROVE  Sale!Hold(b, f, Taken(list))
  <1>1. SeatsReserved(b, f, list)
    BY CreateSeats
  <1>2. Taken(list) # {} /\ Taken(list) \subseteq Seats /\ \A s \in Seats : list[s] \in Nat
    BY ConstantsAssumption DEF SeatRequests, Taken
  <1>3. \A s \in Taken(list) : SeatState(f, s) = "free"
    BY <1>1, <1>2 DEF SeatsReserved, SeatState, Taken
  <1>4. \A s \in Seats : SeatState(f, s)' = IF s \in Taken(list) THEN "held" ELSE SeatState(f, s)
    BY <1>1, <1>2, SeatCounts DEF SeatsReserved, SeatState, Taken
  <1>5. SaleSeat' = Sale!Marked(f, Taken(list), "held")
    BY <1>1, <1>4, SeatsMarked DEF SeatsReserved
  <1>6. SaleClaims' = [a \in DOMAIN bookings \union {b} |->
            IF a = b THEN [flight |-> f, seats |-> Taken(list), stage |-> "holds"]
            ELSE SaleClaims[a]]
    <2>1. SaleClaim(b)' = [flight |-> f, seats |-> Taken(list), stage |-> "holds"]
      BY <1>1 DEF SeatsReserved, SaleClaim, Stage
    <2>2. \A a \in DOMAIN bookings : SaleClaim(a)' = SaleClaim(a)
      BY <1>1, SameClaim DEF SeatsReserved
    <2> QED
      BY <1>1, <2>1, <2>2 DEF SeatsReserved, SaleClaims
  <1> QED
    BY <1>1, <1>2, <1>3, <1>5, <1>6
       DEF Sale!Hold, SeatsReserved, SaleSeat, SaleClaims, SaleClaim

\* A live booking whose status becomes st, and whose seats become mark, settles.
LEMMA StatusSettles ==
    ASSUME TypeOK, NEW b \in DOMAIN bookings, ~IsTerminal(bookings[b].status), NEW st, NEW mark,
           bookings' = [bookings EXCEPT ![b].status = st],
           SaleSeat' = Sale!Marked(bookings[b].flight, Taken(bookings[b].seats), mark)
    PROVE  Sale!Settle(b, Stage(st), mark)
  <1>1. SaleClaims[b].stage = "holds"
    BY DEF SaleClaims, SaleClaim, Stage, IsTerminal
  <1>2. SaleClaims' = [SaleClaims EXCEPT ![b].stage = Stage(st)]
    <2>1. SaleClaim(b)' = [flight |-> bookings[b].flight, seats |-> Taken(bookings[b].seats),
                           stage |-> Stage(st)]
      BY StatusUpdate DEF SaleClaim
    <2>2. SaleClaim(b)' = [SaleClaim(b) EXCEPT !.stage = Stage(st)]
      BY <2>1 DEF SaleClaim
    <2>3. \A a \in DOMAIN bookings : a # b => SaleClaim(a)' = SaleClaim(a)
      BY StatusUpdate DEF SaleClaim
    <2> QED
      BY <2>2, <2>3, StatusUpdate DEF SaleClaims
  <1> QED
    BY <1>1, <1>2 DEF Sale!Settle, SaleSeat, SaleClaims, SaleClaim

\* A confirmed booking owns the seats it held.
LEMMA ConfirmSells ==
    ASSUME TypeOK, NEW p \in DOMAIN payments, ConfirmBooking(p),
           NEW b, b = payments[p].booking, NEW f, f = bookings[b].flight
    PROVE  Sale!Sell(b)
  <1> DEFINE seats == bookings[b].seats
  <1>1. /\ b \in DOMAIN bookings /\ f \in Flights
        /\ ~IsTerminal(bookings[b].status)
        /\ bookings' = [bookings EXCEPT ![b].status = "CONFIRMED"]
        /\ SeatsReleased(b)
        /\ \A s \in Seats : flights'[f].booked[s] = flights[f].booked[s] + bookings[b].seats[s]
    <2>1. b \in DOMAIN bookings /\ f \in Flights
      BY CallbackRows
    <2> QED
      BY <2>1, ConfirmSeats
  <1>2. \A s \in Seats : SeatState(f, s)' = IF s \in Taken(seats) THEN "sold" ELSE SeatState(f, s)
    <2> SUFFICES ASSUME NEW s \in Seats
                 PROVE  SeatState(f, s)' = IF s \in Taken(seats) THEN "sold" ELSE SeatState(f, s)
      OBVIOUS
    <2>1. s \in Taken(seats) <=> seats[s] > 0
      BY DEF Taken
    <2>2. flights'[f].reserved[s] = IF seats[s] > 0 THEN 0 ELSE flights[f].reserved[s]
      BY <1>1 DEF SeatsReleased
    <2>3. /\ flights'[f].booked[s] = flights[f].booked[s] + seats[s]
          /\ seats[s] \in Nat /\ flights[f].booked[s] \in Nat
      BY <1>1, SeatCounts
    <2>4. SeatState(f, s)' = IF flights'[f].booked[s] > 0 THEN "sold"
                             ELSE IF flights'[f].reserved[s] > 0 THEN "held" ELSE "free"
      BY DEF SeatState
    <2> HIDE DEF seats
    <2>5. CASE s \in Taken(seats)
      BY <2>1, <2>3, <2>4, <2>5
    <2>6. CASE s \notin Taken(seats)
      BY <2>1, <2>2, <2>3, <2>4, <2>6 DEF SeatState
    <2> QED
      BY <2>5, <2>6
  <1>3. SaleSeat' = Sale!Marked(f, Taken(seats), "sold")
    BY <1>1, <1>2, SeatsMarked DEF SeatsReleased
  <1>4. Stage("CONFIRMED") = "owns"
    BY DEF Stage
  <1> QED
    BY <1>1, <1>3, <1>4, StatusSettles DEF Sale!Sell

\* An expired booking gives back what it held: no other booking had sold a copy
\* of those seats, or they would not be free now.
LEMMA ExpireReleases ==
    ASSUME TypeOK, SeatInv, NEW c \in Crons, ExpireBooking(c), NEW b, b = Head(batch[c])
    PROVE  Sale!Release(b)
  <1>0. PICK f, seats : f = bookings[b].flight /\ seats = bookings[b].seats
    OBVIOUS
  <1>1. /\ b \in DOMAIN bookings /\ f \in Flights
        /\ ~IsTerminal(bookings[b].status)
        /\ bookings' = [bookings EXCEPT ![b].status = "EXPIRED"]
        /\ SeatsReleased(b)
        /\ flights'[f].booked = flights[f].booked
    BY <1>0, ExpireSeats
  <1>2. \A s \in Taken(seats) : flights[f].booked[s] = 0
    <2> SUFFICES ASSUME NEW s \in Taken(seats), flights[f].booked[s] > 0 PROVE FALSE
      BY <1>0, <1>1, SeatCounts DEF Taken
    <2>1. PICK a \in DOMAIN bookings : Wants(a, f, s) /\ bookings[a].status = "CONFIRMED"
      BY <1>1 DEF SeatInv, SeatLedger, Taken
    <2>2. a = b
      BY <1>0, <1>1, <2>1 DEF SeatInv, SeatExclusive, Wants, Taken, IsTerminal
    <2> QED
      BY <1>1, <2>1, <2>2 DEF IsTerminal
  <1>3. \A s \in Seats : SeatState(f, s)' = IF s \in Taken(seats) THEN "free" ELSE SeatState(f, s)
    <2> SUFFICES ASSUME NEW s \in Seats
                 PROVE  SeatState(f, s)' = IF s \in Taken(seats) THEN "free" ELSE SeatState(f, s)
      OBVIOUS
    <2>1. s \in Taken(seats) <=> seats[s] > 0
      BY DEF Taken
    <2>2. flights'[f].reserved[s] = IF seats[s] > 0 THEN 0 ELSE flights[f].reserved[s]
      BY <1>0, <1>1 DEF SeatsReleased
    <2>3. flights'[f].booked[s] = flights[f].booked[s]
      BY <1>1
    <2>4. SeatState(f, s)' = IF flights'[f].booked[s] > 0 THEN "sold"
                             ELSE IF flights'[f].reserved[s] > 0 THEN "held" ELSE "free"
      BY DEF SeatState
    <2>5. CASE s \in Taken(seats)
      BY <1>2, <2>1, <2>2, <2>3, <2>4, <2>5
    <2>6. CASE s \notin Taken(seats)
      BY <2>1, <2>2, <2>3, <2>4, <2>6 DEF SeatState
    <2> QED
      BY <2>5, <2>6
  <1>4. SaleSeat' = Sale!Marked(f, Taken(seats), "free")
    BY <1>0, <1>1, <1>3, SeatsMarked DEF SeatsReleased
  <1>5. Stage("EXPIRED") = "gone"
    BY DEF Stage
  <1> QED
    BY <1>0, <1>1, <1>4, <1>5, StatusSettles DEF Sale!Release

\* Every step of the database is a step of the sale or invisible to it.
LEMMA SaleStep == IInv /\ [Next]_vars => [Sale!SaleNext]_(Sale!saleVars)
  <1> SUFFICES ASSUME TypeOK, SeatInv, [Next]_vars
               PROVE  [Sale!SaleNext]_(Sale!saleVars)
    BY DEF IInv
  <1>0. ASSUME UNCHANGED bookings, \A f \in Flights : SameRow(f) PROVE UNCHANGED Sale!saleVars
    BY <1>0, SaleStutters DEF SameHolder
  <1>1. ASSUME NEW b \in BookingIds, NEW p \in PaymentIds, NEW f \in Flights,
               NEW list \in SeatRequests, NEW t \in RequestTimes, CreateBooking(b, p, f, list, t)
        PROVE  Sale!SaleNext
    <2>1. Taken(list) \in SUBSET Seats
      BY DEF Taken
    <2> QED
      BY <1>1, <2>1, CreateHolds DEF Sale!SaleNext
  <1>2. ASSUME NEW b \in BookingIds, NEW p \in PaymentIds, NEW t \in RequestTimes,
               RetryPayment(b, p, t)
        PROVE  UNCHANGED Sale!saleVars
    <2>1. \A f \in Flights : SameRow(f)
      BY <1>2 DEF RetryPayment, SameRow
    <2> QED
      BY <1>2, <2>1, RetryHolders, SaleStutters
  <1>3. ASSUME NEW p \in PaymentIds, NEW status \in CallbackStatus,
               ProcessPaymentCallback(p, status)
        PROVE  [Sale!SaleNext]_(Sale!saleVars)
    <2>1. p \in DOMAIN payments
      BY <1>3 DEF ProcessPaymentCallback
    <2>2. PICK b : b = payments[p].booking
      OBVIOUS
    <2>3. b \in DOMAIN bookings /\ b \in BookingIds
      BY <2>1, <2>2 DEF TypeOK
    <2>4. CASE ConfirmBooking(p)
      BY <2>1, <2>2, <2>3, <2>4, ConfirmSells DEF Sale!SaleNext
    <2>5. CASE FailBooking(p)
      <3>1. /\ ~IsTerminal(bookings[b].status)
            /\ bookings' = [bookings EXCEPT ![b].status = "PAYMENT_FAILED"]
            /\ UNCHANGED flights
        BY <2>2, <2>5 DEF FailBooking, IsActivePI
      <3>2. DOMAIN bookings' = DOMAIN bookings /\ \A a \in DOMAIN bookings : SameHolder(a)
        BY <2>3, <3>1, StatusUpdate DEF SameHolder, IsTerminal
      <3> QED
        BY <3>1, <3>2, SaleStutters DEF SameRow
    <2>6. CASE StaleCallback(p, status) \/ TerminalCallback(p, status)
      BY <1>0, <2>6 DEF StaleCallback, TerminalCallback, SameRow
    <2> QED
      BY <1>3, <2>4, <2>5, <2>6 DEF ProcessPaymentCallback
  <1>4. ASSUME NEW c \in Crons, CronStep(c) PROVE [Sale!SaleNext]_(Sale!saleVars)
    <2>1. CASE ExpireBooking(c)
      <3>1. PICK b : b = Head(batch[c])
        OBVIOUS
      <3>2. b \in BookingIds
        BY <2>1, <3>1, ExpireSeats DEF TypeOK
      <3> QED
        BY <2>1, <3>1, <3>2, ExpireReleases DEF Sale!SaleNext
    <2>2. CASE ~ExpireBooking(c)
      BY <1>0, <1>4, <2>2 DEF CronStep, RunCleanup, ProcessCleanupRow, CleanupDecided,
         CleanupExtended, CleanupRowError, CronCrash, SameRow
    <2> QED
      BY <2>1, <2>2
  <1>5. CASE \E t \in RequestTimes : DepartureSweep(t)
    <2>1. ASSUME NEW f \in Flights PROVE SameRow(f)
      <3>1. flights[f] \in Flight
        BY DEF TypeOK
      <3> QED
        BY <1>5, <3>1 DEF DepartureSweep, SameRow, Flight
    <2> QED
      BY <1>0, <1>5, <2>1 DEF DepartureSweep
  <1>6. CASE Tick \/ UNCHANGED vars
    BY <1>0, <1>6 DEF Tick, vars, SameRow
  <1> QED
    BY <1>1, <1>2, <1>3, <1>4, <1>5, <1>6 DEF Next

\* The empty tables show an empty sale.
LEMMA SaleStarts == Init => Sale!SaleInit
  <1> SUFFICES ASSUME Init PROVE Sale!SaleInit
    OBVIOUS
  <1>1. SaleSeat = [f \in Flights |-> [s \in Seats |-> "free"]]
    BY DEF Init, NoSeats, SaleSeat, SeatState
  <1>2. DOMAIN bookings = {}
    BY DEF Init, EmptyTable
  <1>3. SaleClaims = [b \in {} |-> b]
    BY <1>2 DEF SaleClaims
  <1> QED
    BY <1>1, <1>3 DEF Sale!SaleInit, SaleSeat, SaleClaims, SaleClaim

\* The database sells seats as SeatSale says: a booking takes free seats, all
\* at once, and ends by owning all of them or by giving all of them back.
THEOREM SeatsAreSold == Spec => SellsSeats
  <1>1. Init => Sale!SaleInit
    BY SaleStarts
  <1>2. IInv /\ [Next]_vars => [Sale!SaleNext]_(Sale!saleVars)
    BY SaleStep
  <1> QED
    BY <1>1, <1>2, Invariance, PTL DEF Spec, SellsSeats, Sale!SaleSpec
=============================================================================
