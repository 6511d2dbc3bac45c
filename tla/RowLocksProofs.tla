--------------------------- MODULE RowLocksProofs ---------------------------
(***************************************************************************)
(* Theorems of RowLocks, for every number of sessions and of rows: the     *)
(* transactions cut into single steps implement the one-step transactions  *)
(* of BookingStore, and no sessions wait for each other for ever.          *)
(***************************************************************************)
EXTENDS RowLocks, BookingStoreProofs

-----------------------------------------------------------------------------
(* The transactions in progress.                                           *)

Rows == {BookingRow(b) : b \in BookingIds} \union {FlightRow(f) : f \in Flights}
Snapshot == UNION {[D -> Booking \union Flight] : D \in SUBSET Rows}

Request ==
    {Idle.req}
    \union [op : {"create"}, b : BookingIds, p : PaymentIds, f : Flights, list : SeatRequests]
    \union [op : {"retry"}, b : BookingIds, p : PaymentIds]
    \union [op : {"callback"}, b : BookingIds, p : PaymentIds, status : CallbackStatus]
    \union [op : {"cleanup"}, b : BookingIds]
    \union [op : {"sweep"}, due : SUBSET Flights]

Transaction == [req : Request, t : Nat, seen : Snapshot]

TxTypeOK == tx \in [Sessions -> Transaction]

\* A request waits no longer than MaxLockWait.
Timely(s) ==
    /\ tx[s].t <= now
    /\ Req(s).op # "none" => now - tx[s].t <= MaxLockWait

\* What a request was checked for when it arrived still holds.
Valid(s) ==
    LET req == Req(s) IN
        /\ req.op = "create" => /\ req.b \notin DOMAIN bookings /\ req.p \notin DOMAIN payments
                                /\ tx[s].t <= ArrivalsUntil
        /\ req.op = "retry" => /\ req.b \in DOMAIN bookings /\ req.p \notin DOMAIN payments
                               /\ tx[s].t <= ArrivalsUntil
        /\ req.op = "callback" => req.p \in DOMAIN payments /\ payments[req.p].booking = req.b
        /\ req.op = "cleanup" => s \in Crons /\ batch[s] # << >> /\ req.b = Head(batch[s])
        /\ req.op = "sweep" =>
              /\ s = Sweeper /\ req.due # {}
              /\ \A f \in req.due : DepartureTime[f] < tx[s].t /\ flights[f].status # "DEPARTED"
              /\ \A f \in Flights \ req.due :
                     DepartureTime[f] < tx[s].t => flights[f].status # "SCHEDULED"

\* The rows each request locks, and the order of two.
InOrder(s) ==
    LET req == Req(s)
        booking == BookingRow(req.b)
    IN  /\ req.op = "none" => Held(s) = {}
        /\ req.op = "create" => Held(s) \subseteq {FlightRow(req.f)}
        /\ req.op = "retry" => Held(s) \subseteq {booking}
        /\ req.op \in {"callback", "cleanup"} =>
              /\ Held(s) \subseteq {booking, FlightRow(bookings[req.b].flight)}
              /\ Held(s) # {} => booking \in Held(s)
        /\ req.op = "sweep" => Held(s) \subseteq {FlightRow(f) : f \in req.due}

\* No two requests drew the same uuid.
Distinct(s, r) ==
    /\ Req(s).op = "create" /\ Req(r).op = "create" => Req(s).b # Req(r).b
    /\ Req(s).op \in {"create", "retry"} /\ Req(r).op \in {"create", "retry"}
          => Req(s).p # Req(r).p

\* The values read under a lock are those of the rows.
Current(s) == \A row \in Held(s) : Seen(s, row) = Value(row)

SessionsOK ==
    /\ TxTypeOK
    /\ \A s \in Sessions : Timely(s) /\ Valid(s) /\ InOrder(s) /\ Current(s)
    /\ \A s, r \in Sessions : s # r => Distinct(s, r) /\ Held(s) \intersect Held(r) = {}

RowInv == TypeOK /\ SoldOutIsClosed /\ SessionsOK

LEMMA RowNames ==
    /\ \A b, c : BookingRow(b) = BookingRow(c) <=> b = c
    /\ \A f, g : FlightRow(f) = FlightRow(g) <=> f = g
    /\ \A b, f : BookingRow(b) # FlightRow(f)
    /\ \A b : Value(BookingRow(b)) = bookings[b]
    /\ \A f : Value(FlightRow(f)) = flights[f]
  BY DEF BookingRow, FlightRow, Value

LEMMA RowNamesNext ==
    /\ \A b : Value(BookingRow(b))' = bookings'[b]
    /\ \A f : Value(FlightRow(f))' = flights'[f]
  BY DEF BookingRow, FlightRow, Value

LEMMA IdleTx ==
    /\ Idle \in Transaction
    /\ Idle.req.op = "none" /\ Idle.t = 0 /\ DOMAIN Idle.seen = {}
  <1>1. EmptyTable \in [{} -> Booking \union Flight] /\ DOMAIN EmptyTable = {}
    BY DEF EmptyTable
  <1>2. EmptyTable \in Snapshot
    BY <1>1 DEF Snapshot
  <1> QED
    BY <1>1, <1>2 DEF Idle, Transaction, Request

LEMMA OpCases ==
    ASSUME TxTypeOK, NEW s \in Sessions
    PROVE  /\ Req(s).op \in {"none", "create", "retry", "callback", "cleanup", "sweep"}
           /\ Req(s).op = "create" => /\ Req(s).b \in BookingIds /\ Req(s).p \in PaymentIds
                                      /\ Req(s).f \in Flights /\ Req(s).list \in SeatRequests
           /\ Req(s).op = "retry" => Req(s).b \in BookingIds /\ Req(s).p \in PaymentIds
           /\ Req(s).op = "callback" => Req(s).status \in CallbackStatus
           /\ Req(s).op = "sweep" => Req(s).due \in SUBSET Flights
           /\ tx[s].t \in Nat
  <1>1. tx[s].req \in Request /\ tx[s].t \in Nat
    BY DEF TxTypeOK, Transaction
  <1> QED
    BY <1>1 DEF Req, Request, Idle

\* A request that works on a booking works on one that is there.
LEMMA BookingThere ==
    ASSUME TypeOK, TxTypeOK, NEW s \in Sessions, Valid(s),
           Req(s).op \in {"retry", "callback", "cleanup"}
    PROVE  /\ Req(s).b \in DOMAIN bookings
           /\ bookings[Req(s).b] \in Booking /\ bookings[Req(s).b].flight \in Flights
           /\ flights[bookings[Req(s).b].flight] \in Flight
  <1>1. Req(s).b \in DOMAIN bookings
    <2>1. CASE Req(s).op = "retry"
      BY <2>1 DEF Valid
    <2>2. CASE Req(s).op = "callback"
      BY <2>2 DEF Valid, TypeOK
    <2>3. CASE Req(s).op = "cleanup"
      BY <2>3, BatchHead DEF Valid
    <2> QED
      BY <2>1, <2>2, <2>3
  <1> QED
    BY <1>1 DEF TypeOK, Booking

\* Only rows of bookings that are there are locked.
LEMMA HeldThere ==
    ASSUME TypeOK, SessionsOK, NEW s \in Sessions
    PROVE  /\ Held(s) \subseteq Rows
           /\ \A b : BookingRow(b) \in Held(s) => b \in DOMAIN bookings
           /\ \A f : FlightRow(f) \in Held(s) => f \in Flights
  <1>1. Valid(s) /\ InOrder(s) /\ TxTypeOK
    BY DEF SessionsOK
  <1>2. tx[s].seen \in Snapshot
    BY <1>1 DEF TxTypeOK, Transaction
  <1>3. Held(s) \subseteq Rows
    BY <1>2 DEF Held, Snapshot
  <1>4. ASSUME NEW f, FlightRow(f) \in Held(s) PROVE f \in Flights
    BY <1>3, <1>4, RowNames DEF Rows
  <1>5. ASSUME NEW b, BookingRow(b) \in Held(s) PROVE b \in DOMAIN bookings
    <2>1. Req(s).op \in {"retry", "callback", "cleanup"} /\ b = Req(s).b
      BY <1>1, <1>5, OpCases, RowNames DEF InOrder
    <2> QED
      BY <1>1, <2>1, BookingThere
  <1> QED
    BY <1>3, <1>4, <1>5

-----------------------------------------------------------------------------
(* Each commit is a transaction of BookingStore.                           *)

\* The clock reading of a request is among those the atomic request may use.
LEMMA ReadingInTime ==
    ASSUME TypeOK, SessionsOK, NEW s \in Sessions, Req(s).op # "none"
    PROVE  /\ tx[s].t \in RequestTimes
           /\ tx[s].t <= ArrivalsUntil => now <= RequestsUntil
  <1>1. tx[s].t \in Nat /\ tx[s].t <= now /\ now - tx[s].t <= MaxLockWait /\ now \in Nat
    BY OpCases DEF SessionsOK, Timely, TypeOK
  <1>2. tx[s].t \in RequestTimes
    BY <1>1 DEF RequestTimes
  <1> QED
    BY <1>1, <1>2, ArrivalsAssumption, ConstantsAssumption

LEMMA CreateRefines ==
    ASSUME TypeOK, SessionsOK, NEW s \in Sessions, CommitCreate(s)
    PROVE  Next
  <1> DEFINE req == Req(s)
             row == FlightRow(req.f)
  <1>1. Req(s).op = "create" /\ Wanted(s) = {}
    BY DEF CommitCreate, Ready
  <1>2. /\ req.b \in BookingIds /\ req.p \in PaymentIds /\ req.f \in Flights
        /\ req.list \in SeatRequests
        /\ req.b \notin DOMAIN bookings /\ req.p \notin DOMAIN payments
        /\ tx[s].t <= ArrivalsUntil
    BY <1>1, OpCases DEF SessionsOK, Valid
  <1>3. Seen(s, row) = flights[req.f]
    <2>1. row \in Held(s)
      BY <1>1 DEF Wanted
    <2> QED
      BY <2>1, RowNames DEF SessionsOK, Current
  <1>4. tx[s].t \in RequestTimes /\ now <= RequestsUntil
    BY <1>1, <1>2, ReadingInTime
  <1>5. CreateBooking(req.b, req.p, req.f, req.list, tx[s].t)
    BY <1>2, <1>3, <1>4 DEF CommitCreate, CreateBooking
  <1> QED
    BY <1>2, <1>4, <1>5 DEF Next

LEMMA RetryRefines ==
    ASSUME TypeOK, SessionsOK, NEW s \in Sessions, CommitRetry(s)
    PROVE  Next
  <1> DEFINE req == Req(s)
             row == BookingRow(req.b)
  <1>1. Req(s).op = "retry" /\ Wanted(s) = {}
    BY DEF CommitRetry, Ready
  <1>2. /\ req.b \in BookingIds /\ req.p \in PaymentIds
        /\ req.b \in DOMAIN bookings /\ req.p \notin DOMAIN payments
        /\ tx[s].t <= ArrivalsUntil
    BY <1>1, OpCases DEF SessionsOK, Valid
  <1>3. Seen(s, row) = bookings[req.b]
    <2>1. row \in Held(s)
      BY <1>1 DEF Wanted
    <2> QED
      BY <2>1, RowNames DEF SessionsOK, Current
  <1>4. tx[s].t \in RequestTimes /\ now <= RequestsUntil
    BY <1>1, <1>2, ReadingInTime
  <1>5. RetryPayment(req.b, req.p, tx[s].t)
    BY <1>2, <1>3, <1>4 DEF CommitRetry, RetryPayment
  <1> QED
    BY <1>2, <1>4, <1>5 DEF Next

\* A callback, and a cleanup that has to expire its booking, commit only with
\* both rows as they are.
LEMMA CallbackReads ==
    ASSUME TypeOK, SessionsOK, NEW s \in Sessions, Ready(s, "callback")
    PROVE  LET bi == bookings[Req(s).b] IN
               /\ Seen(s, BookingRow(Req(s).b)) = bi
               /\ Seen(s, FlightRow(bi.flight)) = flights[bi.flight]
  <1> DEFINE booking == BookingRow(Req(s).b)
             bi == bookings[Req(s).b]
  <1>1. Req(s).op = "callback" /\ WantedByCallback(s) = {}
    BY DEF Ready, Wanted
  <1>2. booking \in Held(s)
    BY <1>1 DEF WantedByCallback
  <1>3. Seen(s, booking) = bi
    BY <1>2, RowNames DEF SessionsOK, Current
  <1>4. FlightRow(bi.flight) \in Held(s)
    BY <1>1, <1>2, <1>3 DEF WantedByCallback
  <1> QED
    BY <1>3, <1>4, RowNames DEF SessionsOK, Current

LEMMA CallbackRefines ==
    ASSUME TypeOK, SessionsOK, NEW s \in Sessions, CommitCallback(s)
    PROVE  Next
  <1> DEFINE req == Req(s)
             bi == bookings[req.b]
  <1>1. Ready(s, "callback") /\ req.op = "callback"
    BY DEF CommitCallback, Ready
  <1>2. /\ Seen(s, BookingRow(req.b)) = bi
        /\ Seen(s, FlightRow(bi.flight)) = flights[bi.flight]
    BY <1>1, CallbackReads
  <1>3. /\ req.p \in DOMAIN payments /\ payments[req.p].booking = req.b
        /\ req.p \in PaymentIds /\ req.status \in CallbackStatus
    BY <1>1, OpCases DEF SessionsOK, Valid, TypeOK
  <1>4. UNCHANGED <<batch, now>>
    BY DEF CommitCallback
  <1> HIDE DEF req
  <1>5. \/ /\ IsActivePI(bi, req.p) /\ req.status = "SUCCESS"
           /\ bookings' = [bookings EXCEPT ![req.b].status = "CONFIRMED"]
           /\ flights' = [flights EXCEPT ![bi.flight] = Confirmed(flights[bi.flight], bi)]
           /\ payments' = ExpireInitiated(SetPayment(req.p, "SUCCESS"), req.b, {req.p})
           /\ cleanup' = Delete(cleanup, req.b)
           /\ UNCHANGED refunded
        \/ /\ IsActivePI(bi, req.p) /\ req.status = "FAILED"
           /\ bookings' = [bookings EXCEPT ![req.b].status = "PAYMENT_FAILED"]
           /\ payments' = SetPayment(req.p, "FAILED")
           /\ UNCHANGED <<flights, cleanup, refunded>>
        \/ /\ ~IsActivePI(bi, req.p)
           /\ payments' = SetPayment(req.p, req.status)
           /\ RefundIfPaid(req.p, req.status)
           /\ UNCHANGED <<flights, bookings, cleanup>>
    BY <1>2 DEF CommitCallback, req
  <1>6. ProcessPaymentCallback(req.p, req.status)
    BY <1>3, <1>4, <1>5 DEF ProcessPaymentCallback, ConfirmBooking, FailBooking, StaleCallback,
       TerminalCallback, IsActivePI
  <1> QED
    BY <1>3, <1>6 DEF Next

LEMMA CleanupReads ==
    ASSUME TypeOK, SessionsOK, NEW c \in Sessions, Ready(c, "cleanup")
    PROVE  LET bi == bookings[Req(c).b] IN
               /\ Seen(c, BookingRow(Req(c).b)) = bi
               /\ ~IsTerminal(bi.status) /\ IsDue(bi) =>
                      Seen(c, FlightRow(bi.flight)) = flights[bi.flight]
  <1> DEFINE booking == BookingRow(Req(c).b)
             bi == bookings[Req(c).b]
  <1>1. Req(c).op = "cleanup" /\ WantedByCleanup(c) = {}
    BY DEF Ready, Wanted
  <1>2. booking \in Held(c)
    BY <1>1 DEF WantedByCleanup
  <1>3. Seen(c, booking) = bi
    BY <1>2, RowNames DEF SessionsOK, Current
  <1>4. ~IsTerminal(bi.status) /\ IsDue(bi) => FlightRow(bi.flight) \in Held(c)
    BY <1>1, <1>2, <1>3 DEF WantedByCleanup
  <1> QED
    BY <1>3, <1>4, RowNames DEF SessionsOK, Current

\* Writing the two columns that an expiry changes writes the row.
LEMMA ReleasedColumns ==
    ASSUME TypeOK, NEW f \in Flights, NEW bi \in Booking
    PROVE  LET newRow == Released(flights[f], bi) IN
               [flights EXCEPT
                   ![f].reserved = newRow.reserved,
                   ![f].status = IF newRow.status # flights[f].status THEN newRow.status ELSE @]
               = [flights EXCEPT ![f] = newRow]
  <1> DEFINE newRow == Released(flights[f], bi)
  <1>1. flights \in [Flights -> Flight] /\ flights[f] \in Flight
    BY DEF TypeOK
  <1>2. newRow \in Flight /\ newRow.booked = flights[f].booked
    BY <1>1, ReleasedLemma
  <1> HIDE DEF newRow
  <1>3. [flights[f] EXCEPT !.reserved = newRow.reserved, !.status = newRow.status] = newRow
    BY <1>1, <1>2 DEF Flight
  <1> QED
    BY <1>1, <1>2, <1>3 DEF newRow, Flight

LEMMA CleanupRefines ==
    ASSUME TypeOK, SessionsOK, NEW c \in Sessions, CommitRow(c)
    PROVE  Next
  <1> DEFINE b == Req(c).b
             bi == bookings[b]
  <1>1. Ready(c, "cleanup") /\ Req(c).op = "cleanup"
    BY DEF CommitRow, Ready
  <1>2. /\ Seen(c, BookingRow(b)) = bi
        /\ ~IsTerminal(bi.status) /\ IsDue(bi) =>
               Seen(c, FlightRow(bi.flight)) = flights[bi.flight]
    BY <1>1, CleanupReads
  <1>3. c \in Crons /\ batch[c] # << >> /\ b = Head(batch[c])
    BY <1>1 DEF SessionsOK, Valid
  <1>4. b \in DOMAIN bookings /\ bi \in Booking /\ bi.flight \in Flights
    BY <1>1, BookingThere DEF SessionsOK
  <1>5. RowDone(c) /\ UNCHANGED <<refunded, now>>
    BY SMTT(30) DEF CommitRow
  <1>6. \/ /\ IsTerminal(bi.status)
           /\ cleanup' = Delete(cleanup, b)
           /\ UNCHANGED <<flights, bookings, payments>>
        \/ /\ ~IsTerminal(bi.status) /\ ~IsDue(bi)
           /\ cleanup' = SetExpiry(b, bi.expiresAt)
           /\ UNCHANGED <<flights, bookings, payments>>
        \/ /\ ~IsTerminal(bi.status) /\ IsDue(bi)
           /\ bookings' = [bookings EXCEPT ![b].status = "EXPIRED"]
           /\ payments' = ExpireInitiated(payments, b, {})
           /\ flights' = LET newRow == Released(flights[bi.flight], bi) IN
                  [flights EXCEPT
                     ![bi.flight].reserved = newRow.reserved,
                     ![bi.flight].status =
                        IF newRow.status # flights[bi.flight].status THEN newRow.status ELSE @]
           /\ cleanup' = Delete(cleanup, b)
    <2> HIDE DEF b
    <2> QED
      BY <1>2 DEF CommitRow, b
  <1> HIDE DEF b
  <1>7. ProcessCleanupRow(c)
    <2>1. CASE IsTerminal(bi.status)
      BY <1>3, <1>5, <1>6, <2>1 DEF ProcessCleanupRow, CleanupDecided
    <2>2. CASE ~IsTerminal(bi.status) /\ ~IsDue(bi)
      BY <1>3, <1>5, <1>6, <2>2 DEF ProcessCleanupRow, CleanupExtended
    <2>3. CASE ~IsTerminal(bi.status) /\ IsDue(bi)
      <3>1. flights' = [flights EXCEPT ![bi.flight] = Released(flights[bi.flight], bi)]
        BY <1>4, <1>6, <2>3, ReleasedColumns
      <3> QED
        BY <1>3, <1>5, <1>6, <2>3, <3>1 DEF ProcessCleanupRow, ExpireBooking
    <2> QED
      BY <2>1, <2>2, <2>3
  <1> QED
    BY <1>3, <1>7 DEF Next, CronStep

\* The sweep writes the rows it found due; none of them has departed since, and
\* no other one has come back on sale.
LEMMA SweepRefines ==
    ASSUME TypeOK, SessionsOK, CommitSweep
    PROVE  Next
  <1> DEFINE due == Req(Sweeper).due
             t == tx[Sweeper].t
  <1>0. Sweeper \in Sessions
    BY DEF Sessions
  <1>1. Req(Sweeper).op = "sweep"
    BY DEF CommitSweep, Ready
  <1>2. /\ due \in SUBSET Flights /\ due # {}
        /\ \A f \in due : DepartureTime[f] < t /\ flights[f].status # "DEPARTED"
        /\ \A f \in Flights \ due : DepartureTime[f] < t => flights[f].status # "SCHEDULED"
    BY <1>0, <1>1, OpCases DEF SessionsOK, Valid
  <1>3. t \in RequestTimes
    BY <1>0, <1>1, ReadingInTime
  <1>4. /\ flights' = [f \in Flights |->
               IF f \in due THEN [flights[f] EXCEPT !.status = "DEPARTED"] ELSE flights[f]]
        /\ UNCHANGED <<bookings, payments, cleanup, batch, refunded, now>>
    BY DEF CommitSweep
  <1> HIDE DEF due, t
  <1>5. DepartureSweep(t)
    BY <1>2, <1>4 DEF DepartureSweep, IsDeparted
  <1> QED
    BY <1>3, <1>5 DEF Next

\* Every step of the sessions is a transaction or leaves the database alone.
LEMMA StepRefines == RowInv /\ [RowNext]_rowVars => [Next]_vars
  <1> SUFFICES ASSUME TypeOK, SessionsOK, [RowNext]_rowVars PROVE [Next]_vars
    BY DEF RowInv
  <1>0. Connections \subseteq Sessions /\ Crons \subseteq Sessions
    BY DEF Sessions
  <1>1. CASE BeginTx \/ UNCHANGED rowVars
    BY <1>1 DEF BeginTx, rowVars
  <1>2. ASSUME NEW s \in Sessions, Lock(s) PROVE UNCHANGED vars
    BY <1>2 DEF Lock
  <1>3. ASSUME NEW s \in Connections, CommitCreate(s) \/ CommitRetry(s) \/ CommitCallback(s)
        PROVE  Next
    BY <1>0, <1>3, CreateRefines, RetryRefines, CallbackRefines
  <1>4. ASSUME NEW c \in Crons, CommitRow(c) PROVE Next
    BY <1>0, <1>4, CleanupRefines
  <1>5. CASE CommitSweep
    BY <1>5, SweepRefines
  <1>6. ASSUME NEW s \in Sessions, Rollback(s) PROVE Next \/ UNCHANGED vars
    BY <1>6 DEF Rollback, Next, CronStep
  <1>7. ASSUME NEW c \in Crons, CronDies(c) \/ (RunCleanup(c) /\ UNCHANGED tx) PROVE Next
    BY <1>7 DEF CronDies, Next, CronStep
  <1>8. CASE TickTx
    BY <1>8 DEF TickTx, Next
  <1> QED
    BY <1>1, <1>2, <1>3, <1>4, <1>5, <1>6, <1>7, <1>8 DEF RowNext

-----------------------------------------------------------------------------
(* A commit or a rollback changes only what its session has locked.        *)

Effect(s) ==
    /\ \A b \in DOMAIN bookings :
          /\ b \in DOMAIN bookings' /\ bookings'[b].flight = bookings[b].flight
          /\ BookingRow(b) \notin Held(s) => bookings'[b] = bookings[b]
    /\ \A b \in DOMAIN bookings' \ DOMAIN bookings : Req(s).op = "create" /\ b = Req(s).b
    /\ \A p \in DOMAIN payments :
          p \in DOMAIN payments' /\ payments'[p].booking = payments[p].booking
    /\ \A p \in DOMAIN payments' \ DOMAIN payments :
          Req(s).op \in {"create", "retry"} /\ p = Req(s).p
    /\ \A f \in Flights :
          /\ FlightRow(f) \notin Held(s) => flights'[f] = flights[f]
          /\ flights'[f].status = "DEPARTED" =>
                 flights[f].status = "DEPARTED" \/ Req(s).op = "sweep"
    /\ \A c \in Crons \ {s} : batch'[c] = batch[c]
    /\ now' = now

LEMMA NoEffect ==
    ASSUME TypeOK, NEW s, UNCHANGED <<flights, bookings, payments, now>>,
           \A c \in Crons \ {s} : batch'[c] = batch[c]
    PROVE  Effect(s)
  BY DEF Effect

LEMMA CreateEffect ==
    ASSUME TypeOK, SessionsOK, NEW s \in Sessions, CommitCreate(s)
    PROVE  Effect(s)
  <1> DEFINE req == Req(s)
             f == req.f
  <1>1. req.op = "create" /\ Wanted(s) = {}
    BY DEF CommitCreate, Ready
  <1>2. f \in Flights /\ FlightRow(f) \in Held(s)
    BY <1>1, OpCases DEF SessionsOK, Wanted
  <1>3. /\ \A b \in DOMAIN bookings : b \in DOMAIN bookings' /\ bookings'[b] = bookings[b]
        /\ \A b \in DOMAIN bookings' \ DOMAIN bookings : b = req.b
        /\ \A p \in DOMAIN payments : p \in DOMAIN payments' /\ payments'[p] = payments[p]
        /\ \A p \in DOMAIN payments' \ DOMAIN payments : p = req.p
    <2>1. req.b \notin DOMAIN bookings /\ req.p \notin DOMAIN payments
      BY <1>1 DEF SessionsOK, Valid
    <2> HIDE DEF req
    <2> QED
      BY <2>1 DEF CommitCreate, Insert, req
  <1>4. /\ flights' = [flights EXCEPT ![f].reserved = AppendSeats(flights[f].reserved, req.list)]
        /\ UNCHANGED <<batch, now>>
    BY DEF CommitCreate
  <1>5. ASSUME NEW g \in Flights
        PROVE  /\ flights'[g].status = flights[g].status
               /\ g # f => flights'[g] = flights[g]
    BY <1>2, <1>4 DEF TypeOK, Flight
  <1> HIDE DEF f
  <1> QED
    BY <1>1, <1>2, <1>3, <1>4, <1>5 DEF Effect

LEMMA RetryEffect ==
    ASSUME TypeOK, SessionsOK, NEW s \in Sessions, CommitRetry(s)
    PROVE  Effect(s)
  <1> DEFINE req == Req(s)
  <1>1. req.op = "retry" /\ Wanted(s) = {}
    BY DEF CommitRetry, Ready
  <1>2. /\ req.b \in DOMAIN bookings /\ bookings[req.b] \in Booking
        /\ req.p \notin DOMAIN payments /\ BookingRow(req.b) \in Held(s)
    BY <1>1, BookingThere DEF SessionsOK, Wanted, Valid
  <1>3. /\ DOMAIN bookings' = DOMAIN bookings
        /\ \A b \in DOMAIN bookings : b # req.b => bookings'[b] = bookings[b]
        /\ bookings'[req.b].flight = bookings[req.b].flight
    BY <1>2 DEF CommitRetry, TypeOK, Retried, Booking
  <1>4. /\ \A p \in DOMAIN payments : p \in DOMAIN payments' /\ payments'[p] = payments[p]
        /\ \A p \in DOMAIN payments' \ DOMAIN payments : p = req.p
    BY <1>2 DEF CommitRetry, Insert
  <1>5. UNCHANGED <<flights, batch, now>>
    BY DEF CommitRetry
  <1> QED
    BY <1>1, <1>2, <1>3, <1>4, <1>5 DEF Effect

LEMMA CallbackEffect ==
    ASSUME TypeOK, SessionsOK, NEW s \in Sessions, CommitCallback(s)
    PROVE  Effect(s)
  <1> DEFINE req == Req(s)
             bi == bookings[req.b]
  <1>1. Ready(s, "callback") /\ req.op = "callback" /\ WantedByCallback(s) = {}
    BY DEF CommitCallback, Ready, Wanted
  <1>2. /\ Seen(s, BookingRow(req.b)) = bi
        /\ Seen(s, FlightRow(bi.flight)) = flights[bi.flight]
    BY <1>1, CallbackReads
  <1>3. /\ BookingRow(req.b) \in Held(s) /\ FlightRow(bi.flight) \in Held(s)
        /\ req.b \in DOMAIN bookings /\ bi \in Booking /\ bi.flight \in Flights
        /\ flights[bi.flight] \in Flight
    <2>1. BookingRow(req.b) \in Held(s)
      BY <1>1 DEF WantedByCallback
    <2>2. FlightRow(bi.flight) \in Held(s)
      BY <1>1, <1>2, <2>1 DEF WantedByCallback
    <2> QED
      BY <1>1, <2>1, <2>2, BookingThere DEF SessionsOK
  <1>4. req.p \in DOMAIN payments /\ req.status \in CallbackStatus
    BY <1>1, OpCases DEF SessionsOK, Valid
  <1>5. UNCHANGED <<batch, now>>
    BY DEF CommitCallback
  <1>6. /\ \/ \E status \in BookingStatus : bookings' = [bookings EXCEPT ![req.b].status = status]
           \/ UNCHANGED bookings
        /\ \/ flights' = [flights EXCEPT ![bi.flight] = Confirmed(flights[bi.flight], bi)]
           \/ UNCHANGED flights
        /\ \/ payments' = ExpireInitiated(SetPayment(req.p, "SUCCESS"), req.b, {req.p})
           \/ payments' = SetPayment(req.p, "FAILED")
           \/ payments' = SetPayment(req.p, req.status)
    <2> HIDE DEF req
    <2> QED
      BY <1>2 DEF CommitCallback, BookingStatus, req
  <1>7. /\ DOMAIN payments' = DOMAIN payments
        /\ \A p \in DOMAIN payments : payments'[p].booking = payments[p].booking
    <2>1. \A status \in {"SUCCESS", "FAILED"} :
             /\ DOMAIN SetPayment(req.p, status) = DOMAIN payments
             /\ SetPayment(req.p, status) \in [DOMAIN payments -> Payment]
             /\ \A q \in DOMAIN payments :
                    SetPayment(req.p, status)[q].booking = payments[q].booking
      BY <1>4, SetPaymentLemma DEF PaymentStatus
    <2> HIDE DEF req
    <2> QED
      BY <1>4, <1>6, <2>1, ExpireInitiatedLemma DEF CallbackStatus
  <1> HIDE DEF req
  <1>8. /\ DOMAIN bookings' = DOMAIN bookings
        /\ \A b \in DOMAIN bookings :
              /\ bookings'[b].flight = bookings[b].flight
              /\ b # req.b => bookings'[b] = bookings[b]
    <2>1. ASSUME NEW status \in BookingStatus,
                 bookings' = [bookings EXCEPT ![req.b].status = status]
          PROVE  /\ DOMAIN bookings' = DOMAIN bookings
                 /\ \A b \in DOMAIN bookings :
                       /\ bookings'[b].flight = bookings[b].flight
                       /\ b # req.b => bookings'[b] = bookings[b]
      <3> DEFINE a == req.b
      <3>1. a \in DOMAIN bookings /\ bookings' = [bookings EXCEPT ![a].status = status]
        BY <1>3, <2>1 DEF req
      <3> HIDE DEF a
      <3>2. /\ DOMAIN bookings' = DOMAIN bookings
            /\ \A b \in DOMAIN bookings :
                  /\ bookings'[b].flight = bookings[b].flight
                  /\ b # a => bookings'[b] = bookings[b]
        BY <3>1 DEF TypeOK, Booking
      <3> QED
        BY <3>2 DEF a
    <2> QED
      BY <1>6, <2>1
  <1>9. ASSUME NEW f \in Flights
        PROVE  /\ f # bi.flight => flights'[f] = flights[f]
               /\ flights'[f].status = "DEPARTED" => flights[f].status = "DEPARTED"
    <2>1. Confirmed(flights[bi.flight], bi).status \in {"FULLY_BOOKED", flights[bi.flight].status}
      BY DEF Confirmed
    <2> QED
      BY <1>3, <1>6, <2>1 DEF TypeOK
  <1> QED
    BY <1>3, <1>5, <1>7, <1>8, <1>9 DEF Effect, req

LEMMA CleanupEffect ==
    ASSUME TypeOK, SessionsOK, NEW c \in Sessions, CommitRow(c)
    PROVE  Effect(c)
  <1> DEFINE b == Req(c).b
             bi == bookings[b]
  <1>1. Ready(c, "cleanup") /\ Req(c).op = "cleanup" /\ WantedByCleanup(c) = {}
    BY DEF CommitRow, Ready, Wanted
  <1>2. /\ Seen(c, BookingRow(b)) = bi
        /\ ~IsTerminal(bi.status) /\ IsDue(bi) =>
               Seen(c, FlightRow(bi.flight)) = flights[bi.flight]
    BY <1>1, CleanupReads
  <1>3. BookingRow(b) \in Held(c)
    BY <1>1 DEF WantedByCleanup
  <1>4. b \in DOMAIN bookings /\ bi \in Booking /\ bi.flight \in Flights
    BY <1>1, BookingThere DEF SessionsOK
  <1>5. now' = now /\ \A d \in Crons \ {c} : batch'[d] = batch[d]
    BY DEF CommitRow, RowDone, TypeOK
  <1>6. CASE UNCHANGED <<flights, bookings, payments>>
    BY <1>5, <1>6, NoEffect
  <1>7. CASE ~IsTerminal(bi.status) /\ IsDue(bi)
    <2> DEFINE newRow == Released(flights[bi.flight], bi)
    <2>1. FlightRow(bi.flight) \in Held(c)
      BY <1>1, <1>2, <1>3, <1>7, SMTT(30) DEF WantedByCleanup
    <2>2. /\ bookings' = [bookings EXCEPT ![b].status = "EXPIRED"]
          /\ payments' = ExpireInitiated(payments, b, {})
          /\ flights' = [flights EXCEPT
                 ![bi.flight].reserved = newRow.reserved,
                 ![bi.flight].status =
                    IF newRow.status # flights[bi.flight].status THEN newRow.status ELSE @]
      <3> HIDE DEF b
      <3> QED
        BY <1>2, <1>7 DEF CommitRow, b
    <2>3. flights' = [flights EXCEPT ![bi.flight] = newRow]
      BY <1>4, <2>2, ReleasedColumns
    <2>4. /\ DOMAIN payments' = DOMAIN payments
          /\ \A p \in DOMAIN payments : payments'[p].booking = payments[p].booking
      BY <2>2, ExpireInitiatedLemma, SMTT(30) DEF TypeOK
    <2> HIDE DEF b
    <2>5. /\ DOMAIN bookings' = DOMAIN bookings
          /\ \A a \in DOMAIN bookings :
                /\ bookings'[a].flight = bookings[a].flight
                /\ a # b => bookings'[a] = bookings[a]
      BY <1>4, <2>2 DEF TypeOK, Booking
    <2>6. ASSUME NEW f \in Flights
          PROVE  /\ f # bi.flight => flights'[f] = flights[f]
                 /\ flights'[f].status = "DEPARTED" => flights[f].status = "DEPARTED"
      <3>1. flights \in [Flights -> Flight] /\ flights[bi.flight] \in Flight
        BY <1>4 DEF TypeOK
      <3>2. newRow.status \in {"SCHEDULED", flights[bi.flight].status}
        BY <3>1 DEF Released, Flight
      <3> HIDE DEF newRow
      <3> QED
        BY <1>4, <2>3, <3>1, <3>2
    <2> QED
      BY <1>3, <1>5, <2>1, <2>4, <2>5, <2>6 DEF Effect
  <1> QED
    BY <1>2, <1>6, <1>7 DEF CommitRow

LEMMA SweepEffect ==
    ASSUME TypeOK, SessionsOK, CommitSweep
    PROVE  Effect(Sweeper)
  <1> DEFINE due == Req(Sweeper).due
  <1>1. Req(Sweeper).op = "sweep" /\ Wanted(Sweeper) = {}
    BY DEF CommitSweep, Ready
  <1>2. \A f \in due : FlightRow(f) \in Held(Sweeper)
    BY <1>1 DEF Wanted
  <1>3. /\ flights' = [f \in Flights |->
               IF f \in due THEN [flights[f] EXCEPT !.status = "DEPARTED"] ELSE flights[f]]
        /\ UNCHANGED <<bookings, payments, batch, now>>
    BY DEF CommitSweep
  <1> HIDE DEF due
  <1>4. \A f \in Flights : f \notin due => flights'[f] = flights[f]
    BY <1>3
  <1> QED
    BY <1>1, <1>2, <1>3, <1>4 DEF Effect

LEMMA RollbackEffect ==
    ASSUME TypeOK, NEW s \in Sessions,
           Rollback(s) \/ (s \in Crons /\ CronDies(s))
    PROVE  Effect(s)
  <1>1. UNCHANGED <<flights, bookings, payments, now>>
    BY DEF Rollback, CronDies, CleanupRowError, CronCrash, vars
  <1>2. \A c \in Crons \ {s} : batch'[c] = batch[c]
    BY DEF Rollback, CronDies, CleanupRowError, CronCrash, RowDone, vars, TypeOK
  <1> QED
    BY <1>1, <1>2, NoEffect

-----------------------------------------------------------------------------
(* SessionsOK is inductive.                                                *)

SessionOK(s) == Timely(s) /\ Valid(s) /\ InOrder(s) /\ Current(s)
Apart(s, r) == Distinct(s, r) /\ Held(s) \intersect Held(r) = {}

LEMMA SessionsOKParts ==
    SessionsOK <=> /\ TxTypeOK /\ \A s \in Sessions : SessionOK(s)
                   /\ \A s, r \in Sessions : s # r => Apart(s, r)
  BY DEF SessionsOK, SessionOK, Apart

LEMMA SameTx ==
    ASSUME NEW s, tx'[s] = tx[s]
    PROVE  /\ Req(s)' = Req(s) /\ Held(s)' = Held(s)
           /\ \A row : Seen(s, row)' = Seen(s, row)
  BY DEF Req, Held, Seen

LEMMA EndedTx ==
    ASSUME TypeOK', NEW s, tx'[s] = Idle
    PROVE  /\ SessionOK(s)' /\ Held(s)' = {} /\ Req(s)'.op = "none"
  <1>1. Req(s)'.op = "none" /\ Held(s)' = {} /\ tx'[s].t = 0
    BY IdleTx DEF Req, Held
  <1>2. now' \in Nat
    BY DEF TypeOK
  <1>3. Timely(s)'
    BY <1>1, <1>2 DEF Timely
  <1>4. Valid(s)'
    BY <1>1 DEF Valid
  <1>5. InOrder(s)'
    BY <1>1 DEF InOrder
  <1>6. Current(s)'
    BY <1>1 DEF Current
  <1> QED
    BY <1>1, <1>3, <1>4, <1>5, <1>6 DEF SessionOK

\* The pairs of sessions, after one of them has begun, locked or ended.
LEMMA ApartStep ==
    ASSUME NEW s \in Sessions,
           \A a, b \in Sessions : a # b => Apart(a, b),
           \A r \in Sessions : r # s => tx'[r] = tx[r],
           \A r \in Sessions : r # s => Apart(s, r)'
    PROVE  \A a, b \in Sessions : a # b => Apart(a, b)'
  <1> SUFFICES ASSUME NEW a \in Sessions, NEW b \in Sessions, a # b PROVE Apart(a, b)'
    OBVIOUS
  <1>1. CASE a = s
    BY <1>1
  <1>2. CASE b = s
    <2>1. Apart(b, a)'
      BY <1>2
    <2> QED
      BY <2>1 DEF Apart, Distinct
  <1>3. CASE a # s /\ b # s
    <2>1. /\ Req(a)' = Req(a) /\ Req(b)' = Req(b)
          /\ Held(a)' = Held(a) /\ Held(b)' = Held(b)
      BY <1>3, SameTx
    <2>2. Apart(a, b)
      OBVIOUS
    <2> QED
      BY <2>1, <2>2 DEF Apart, Distinct
  <1> QED
    BY <1>1, <1>2, <1>3

\* What s did under its own locks leaves every other session as it was.
LEMMA OtherSession ==
    ASSUME TypeOK, SessionsOK, NEW s \in Sessions, Effect(s),
           \A f \in Flights : flights[f].status # "SCHEDULED" => flights'[f].status # "SCHEDULED",
           NEW r \in Sessions, r # s, tx'[r] = tx[r]
    PROVE  SessionOK(r)'
  <1>1. Timely(r) /\ Valid(r) /\ InOrder(r) /\ Current(r) /\ TxTypeOK
    BY DEF SessionsOK
  <1>2. /\ Req(r)' = Req(r) /\ Held(r)' = Held(r)
        /\ \A row : Seen(r, row)' = Seen(r, row)
    BY SameTx
  <1>3. Distinct(r, s) /\ Held(r) \intersect Held(s) = {} /\ Valid(s)
    BY DEF SessionsOK
  <1>4. Timely(r)'
    BY <1>1, <1>2 DEF Timely, Effect
  <1> DEFINE req == Req(r)
  <1>5. Valid(r)'
    <2>1. req.op = "create" => req.b \notin DOMAIN bookings' /\ req.p \notin DOMAIN payments'
      BY <1>1, <1>3 DEF Valid, Effect, Distinct
    <2>2. req.op = "retry" => req.b \in DOMAIN bookings' /\ req.p \notin DOMAIN payments'
      BY <1>1, <1>3 DEF Valid, Effect, Distinct
    <2>3. req.op = "callback" => req.p \in DOMAIN payments' /\ payments'[req.p].booking = req.b
      BY <1>1 DEF Valid, Effect
    <2>4. req.op = "cleanup" => r \in Crons /\ batch'[r] # << >> /\ req.b = Head(batch'[r])
      BY <1>1 DEF Valid, Effect
    <2>5. req.op = "sweep" =>
             /\ r = Sweeper /\ req.due # {}
             /\ \A f \in req.due : DepartureTime[f] < tx[r].t /\ flights'[f].status # "DEPARTED"
             /\ \A f \in Flights \ req.due :
                    DepartureTime[f] < tx[r].t => flights'[f].status # "SCHEDULED"
      <3> SUFFICES ASSUME req.op = "sweep"
                   PROVE  /\ r = Sweeper /\ req.due # {}
                          /\ \A f \in req.due :
                                DepartureTime[f] < tx[r].t /\ flights'[f].status # "DEPARTED"
                          /\ \A f \in Flights \ req.due :
                                DepartureTime[f] < tx[r].t => flights'[f].status # "SCHEDULED"
        OBVIOUS
      <3>1. req.due \in SUBSET Flights
        BY <1>1, OpCases
      <3>2. Req(s).op # "sweep"
        BY <1>1, <1>3 DEF Valid
      <3> QED
        BY <1>1, <3>1, <3>2 DEF Valid, Effect
    <2>6. tx'[r].t = tx[r].t /\ (req.op \in {"create", "retry"} => tx[r].t <= ArrivalsUntil)
      BY <1>1 DEF Valid
    <2> HIDE DEF req
    <2>7. Req(r)' = req
      BY <1>2 DEF req
    <2> QED
      BY <2>1, <2>2, <2>3, <2>4, <2>5, <2>6, <2>7 DEF Valid
  <1>6. InOrder(r)'
    <2>1. req.op \in {"callback", "cleanup"} => bookings'[req.b].flight = bookings[req.b].flight
      BY <1>1, BookingThere DEF Effect
    <2> QED
      BY <1>1, <1>2, <2>1 DEF InOrder
  <1>7. Current(r)'
    <2> SUFFICES ASSUME NEW row \in Held(r) PROVE Value(row)' = Value(row)
      BY <1>1, <1>2 DEF Current
    <2>1. row \notin Held(s) /\ row \in Rows
      BY <1>3, HeldThere
    <2>2. CASE \E b \in BookingIds : row = BookingRow(b)
      BY <2>1, <2>2, HeldThere, RowNames, RowNamesNext DEF Effect
    <2>3. CASE \E f \in Flights : row = FlightRow(f)
      BY <2>1, <2>3, RowNames, RowNamesNext DEF Effect
    <2> QED
      BY <2>1, <2>2, <2>3 DEF Rows
  <1> QED
    BY <1>4, <1>5, <1>6, <1>7 DEF SessionOK

LEMMA EndStep ==
    ASSUME TypeOK, TypeOK', SessionsOK, NEW s \in Sessions, End(s), Effect(s),
           \A f \in Flights : flights[f].status # "SCHEDULED" => flights'[f].status # "SCHEDULED"
    PROVE  SessionsOK'
  <1>1. tx' = [tx EXCEPT ![s] = Idle] /\ tx \in [Sessions -> Transaction]
    BY DEF End, SessionsOK, TxTypeOK
  <1>2. tx'[s] = Idle /\ \A r \in Sessions : r # s => tx'[r] = tx[r]
    BY <1>1
  <1>3. TxTypeOK'
    BY <1>1, IdleTx DEF TxTypeOK
  <1>4. SessionOK(s)' /\ Held(s)' = {} /\ Req(s)'.op = "none"
    BY <1>2, EndedTx
  <1>5. \A r \in Sessions : SessionOK(r)'
    BY <1>2, <1>4, OtherSession
  <1>6. \A r \in Sessions : r # s => Apart(s, r)'
    BY <1>4 DEF Apart, Distinct
  <1>7. \A a, b \in Sessions : a # b => Apart(a, b)'
    BY <1>2, <1>6, SessionsOKParts, ApartStep
  <1> QED
    BY <1>3, <1>5, <1>7 DEF SessionsOK, SessionOK, Apart

\* While s begins or locks, the tables do not change, and no other session does.
LEMMA QuietStep ==
    ASSUME TypeOK, SessionsOK, NEW s \in Sessions, UNCHANGED vars,
           NEW new \in Transaction, tx' = [tx EXCEPT ![s] = new],
           SessionOK(s)', \A r \in Sessions : r # s => Apart(s, r)'
    PROVE  SessionsOK'
  <1>1. tx'[s] = new /\ (\A r \in Sessions : r # s => tx'[r] = tx[r]) /\ TxTypeOK'
    BY DEF SessionsOK, TxTypeOK
  <1>2. Effect(s)
    BY NoEffect DEF vars
  <1>3. UNCHANGED flights
    BY DEF vars
  <1>4. \A r \in Sessions : SessionOK(r)'
    BY <1>1, <1>2, <1>3, OtherSession
  <1>5. \A a, b \in Sessions : a # b => Apart(a, b)'
    BY <1>1, SessionsOKParts, ApartStep
  <1> QED
    BY <1>1, <1>4, <1>5 DEF SessionsOK, SessionOK, Apart

\* A request that has begun: idle before, valid, and with ids of its own.
LEMMA BeginStep ==
    ASSUME TypeOK, SessionsOK, NEW s \in Sessions, tx[s] = Idle, UNCHANGED vars,
           NEW req \in Request, req.op # "none", Begin(s, req), Valid(s)',
           \A r \in Sessions : r # s => Distinct(s, r)'
    PROVE  SessionsOK'
  <1> DEFINE new == [req |-> req, t |-> now, seen |-> EmptyTable]
  <1>1. EmptyTable \in Snapshot /\ DOMAIN EmptyTable = {}
    BY IdleTx DEF Idle, Transaction
  <1>2. now \in Nat /\ now' = now
    BY DEF TypeOK, vars
  <1>3. new \in Transaction
    BY <1>1, <1>2 DEF Transaction
  <1>4. tx' = [tx EXCEPT ![s] = new] /\ tx'[s] = new
    BY DEF Begin, SessionsOK, TxTypeOK
  <1>5. Req(s)' = req /\ tx'[s].t = now /\ Held(s)' = {}
    BY <1>1, <1>4 DEF Req, Held
  <1>6. Timely(s)'
    BY <1>2, <1>5, ConstantsAssumption DEF Timely
  <1>7. InOrder(s)'
    BY <1>5 DEF InOrder
  <1>8. Current(s)'
    BY <1>5 DEF Current
  <1>9. SessionOK(s)'
    BY <1>6, <1>7, <1>8 DEF SessionOK
  <1>10. \A r \in Sessions : r # s => Apart(s, r)'
    BY <1>5 DEF Apart
  <1> HIDE DEF new
  <1> QED
    BY <1>3, <1>4, <1>9, <1>10, QuietStep

LEMMA OtherRequests ==
    ASSUME SessionsOK, NEW s \in Sessions, NEW req, Begin(s, req), tx[s] = Idle
    PROVE  /\ Req(s)' = req /\ tx'[s].t = now
           /\ Req(s).op = "none"
           /\ \A r \in Sessions : r # s => Req(r)' = Req(r)
  BY IdleTx DEF Begin, Req, SessionsOK, TxTypeOK

LEMMA BeginCreateStep ==
    ASSUME TypeOK, SessionsOK, NEW s \in Sessions, tx[s] = Idle, UNCHANGED vars, BeginCreate(s)
    PROVE  SessionsOK'
  <1>1. PICK b \in BookingIds, p \in PaymentIds, f \in Flights, list \in SeatRequests :
            /\ NewBooking(b) /\ NewPayment(p)
            /\ Begin(s, [op |-> "create", b |-> b, p |-> p, f |-> f, list |-> list])
    BY DEF BeginCreate
  <1> DEFINE req == [op |-> "create", b |-> b, p |-> p, f |-> f, list |-> list]
  <1>2. req \in Request /\ req.op = "create" /\ req.b = b /\ req.p = p
    BY DEF Request
  <1> HIDE DEF req
  <1>3. Begin(s, req)
    BY <1>1 DEF req
  <1>4. /\ Req(s)' = req /\ tx'[s].t = now /\ now <= ArrivalsUntil
        /\ \A r \in Sessions : r # s => Req(r)' = Req(r)
    BY <1>3, OtherRequests DEF BeginCreate
  <1>5. Valid(s)'
    BY <1>1, <1>2, <1>4 DEF Valid, NewBooking, NewPayment, vars
  <1>6. \A r \in Sessions : r # s => Distinct(s, r)'
    BY <1>1, <1>2, <1>4 DEF Distinct, NewBooking, NewPayment
  <1> QED
    BY <1>2, <1>3, <1>5, <1>6, BeginStep

LEMMA BeginRetryStep ==
    ASSUME TypeOK, SessionsOK, NEW s \in Sessions, tx[s] = Idle, UNCHANGED vars, BeginRetry(s)
    PROVE  SessionsOK'
  <1>1. PICK b \in DOMAIN bookings, p \in PaymentIds :
            NewPayment(p) /\ Begin(s, [op |-> "retry", b |-> b, p |-> p])
    BY DEF BeginRetry
  <1> DEFINE req == [op |-> "retry", b |-> b, p |-> p]
  <1>2. req \in Request /\ req.op = "retry" /\ req.b = b /\ req.p = p
    BY DEF Request, TypeOK
  <1> HIDE DEF req
  <1>3. Begin(s, req)
    BY <1>1 DEF req
  <1>4. /\ Req(s)' = req /\ tx'[s].t = now /\ now <= ArrivalsUntil
        /\ \A r \in Sessions : r # s => Req(r)' = Req(r)
    BY <1>3, OtherRequests DEF BeginRetry
  <1>5. Valid(s)'
    BY <1>1, <1>2, <1>4 DEF Valid, NewPayment, vars
  <1>6. \A r \in Sessions : r # s => Distinct(s, r)'
    BY <1>1, <1>2, <1>4 DEF Distinct, NewPayment
  <1> QED
    BY <1>2, <1>3, <1>5, <1>6, BeginStep

LEMMA BeginCallbackStep ==
    ASSUME TypeOK, SessionsOK, NEW s \in Sessions, tx[s] = Idle, UNCHANGED vars, BeginCallback(s)
    PROVE  SessionsOK'
  <1>1. PICK p \in DOMAIN payments, status \in CallbackStatus :
            Begin(s, [op |-> "callback", b |-> payments[p].booking, p |-> p, status |-> status])
    BY DEF BeginCallback
  <1> DEFINE b == payments[p].booking
             req == [op |-> "callback", b |-> b, p |-> p, status |-> status]
  <1>2. b \in BookingIds /\ p \in PaymentIds
    BY CallbackRows DEF TypeOK
  <1>3. req \in Request /\ req.op = "callback" /\ req.b = b /\ req.p = p
    BY <1>2 DEF Request
  <1>4. Begin(s, req)
    BY <1>1
  <1> HIDE DEF req
  <1>5. Req(s)' = req
    BY <1>4, OtherRequests
  <1>6. Valid(s)'
    BY <1>3, <1>5 DEF Valid, vars
  <1>7. \A r \in Sessions : r # s => Distinct(s, r)'
    BY <1>3, <1>5 DEF Distinct
  <1> QED
    BY <1>3, <1>4, <1>6, <1>7, BeginStep

LEMMA BeginRowStep ==
    ASSUME TypeOK, SessionsOK, NEW s \in Sessions, s \in Crons, tx[s] = Idle, UNCHANGED vars,
           BeginRow(s)
    PROVE  SessionsOK'
  <1> DEFINE b == Head(batch[s])
             req == [op |-> "cleanup", b |-> b]
  <1>1. batch[s] # << >> /\ Begin(s, req)
    BY DEF BeginRow
  <1>2. b \in BookingIds
    BY <1>1, BatchHead DEF TypeOK
  <1>3. req \in Request /\ req.op = "cleanup" /\ req.b = b
    BY <1>2 DEF Request
  <1> HIDE DEF req
  <1>4. Req(s)' = req
    BY <1>1, OtherRequests
  <1>5. Valid(s)'
    BY <1>1, <1>3, <1>4 DEF Valid, vars
  <1>6. \A r \in Sessions : r # s => Distinct(s, r)'
    BY <1>3, <1>4 DEF Distinct
  <1> QED
    BY <1>1, <1>3, <1>5, <1>6, BeginStep

LEMMA BeginSweepStep ==
    ASSUME TypeOK, SessionsOK, tx[Sweeper] = Idle, UNCHANGED vars, BeginSweep
    PROVE  SessionsOK'
  <1> DEFINE due == {f \in Flights : DepartureTime[f] < now /\ ~IsDeparted(flights[f])}
             req == [op |-> "sweep", due |-> due]
  <1>0. Sweeper \in Sessions
    BY DEF Sessions
  <1>1. due # {} /\ Begin(Sweeper, req)
    BY DEF BeginSweep
  <1>2. req \in Request /\ req.op = "sweep" /\ req.due = due
    BY DEF Request
  <1> HIDE DEF req
  <1>3. Req(Sweeper)' = req /\ tx'[Sweeper].t = now
    BY <1>0, <1>1, OtherRequests
  <1>4. Valid(Sweeper)'
    BY <1>1, <1>2, <1>3 DEF Valid, IsDeparted, vars
  <1>5. \A r \in Sessions : r # Sweeper => Distinct(Sweeper, r)'
    BY <1>2, <1>3 DEF Distinct
  <1> QED
    BY <1>0, <1>1, <1>2, <1>4, <1>5, BeginStep

\* The rows wanted next, and what is held meanwhile.
LEMMA WantedRows ==
    ASSUME TypeOK, SessionsOK, NEW s \in Sessions
    PROVE  LET req == Req(s)
               booking == BookingRow(req.b)
               flight == FlightRow(bookings[req.b].flight)
           IN  /\ Wanted(s) \intersect Held(s) = {}
               /\ req.op = "none" => Wanted(s) = {}
               /\ req.op = "create" =>
                     Wanted(s) \subseteq {FlightRow(req.f)} /\ (Wanted(s) # {} => Held(s) = {})
               /\ req.op = "retry" =>
                     Wanted(s) \subseteq {booking} /\ (Wanted(s) # {} => Held(s) = {})
               /\ req.op \in {"callback", "cleanup"} =>
                     \/ Wanted(s) = {booking} /\ Held(s) = {}
                     \/ /\ booking \in Held(s) /\ Wanted(s) \subseteq {flight}
                        /\ Wanted(s) # {} => Held(s) = {booking}
               /\ req.op = "sweep" => Wanted(s) \subseteq {FlightRow(f) : f \in req.due}
  <1> DEFINE req == Req(s)
             booking == BookingRow(req.b)
             flight == FlightRow(bookings[req.b].flight)
  <1>1. InOrder(s) /\ Current(s) /\ TxTypeOK
    BY DEF SessionsOK
  <1>2. CASE req.op = "none"
    BY <1>2 DEF Wanted
  <1>3. CASE req.op = "create"
    BY <1>1, <1>3 DEF Wanted, InOrder
  <1>4. CASE req.op = "retry"
    BY <1>1, <1>4 DEF Wanted, InOrder
  <1>5. CASE req.op \in {"callback", "cleanup"}
    <2>1. Held(s) \subseteq {booking, flight} /\ (Held(s) # {} => booking \in Held(s))
      BY <1>1, <1>5 DEF InOrder
    <2>2. CASE booking \notin Held(s)
      <3>1. Held(s) = {} /\ Wanted(s) = {booking}
        BY <1>5, <2>1, <2>2 DEF Wanted, WantedByCallback, WantedByCleanup
      <3> QED
        BY <1>5, <3>1
    <2>3. CASE booking \in Held(s)
      <3>1. Seen(s, booking) = bookings[req.b]
        BY <1>1, <2>3, RowNames DEF Current
      <3> DEFINE rest == {flight} \ Held(s)
      <3>2. Wanted(s) = {} \/ Wanted(s) = rest
        <4>1. CASE req.op = "callback"
          BY <2>3, <3>1, <4>1 DEF Wanted, WantedByCallback
        <4>2. CASE req.op = "cleanup"
          BY <2>3, <3>1, <4>2 DEF Wanted, WantedByCleanup
        <4> QED
          BY <1>5, <4>1, <4>2
      <3> HIDE DEF booking, flight
      <3> QED
        BY <1>5, <2>1, <2>3, <3>2 DEF booking, flight
    <2> QED
      BY <2>2, <2>3
  <1>6. CASE req.op = "sweep"
    BY <1>6 DEF Wanted
  <1> QED
    BY <1>1, <1>2, <1>3, <1>4, <1>5, <1>6, OpCases

LEMMA LockStep ==
    ASSUME TypeOK, SessionsOK, NEW s \in Sessions, Lock(s)
    PROVE  SessionsOK'
  <1> DEFINE req == Req(s)
             booking == BookingRow(req.b)
             flight == FlightRow(bookings[req.b].flight)
  <1>0. UNCHANGED vars
    BY DEF Lock
  <1>1. PICK row \in Wanted(s) :
            Free(row) /\ tx' = [tx EXCEPT ![s].seen = Insert(@, row, Value(row))]
    BY DEF Lock
  <1> DEFINE seen == Insert(tx[s].seen, row, Value(row))
             new == [tx[s] EXCEPT !.seen = seen]
  <1>2. tx[s] \in Transaction /\ tx \in [Sessions -> Transaction] /\ TxTypeOK
    BY DEF SessionsOK, TxTypeOK
  <1>3. row \in Rows /\ Value(row) \in Booking \union Flight
    <2>1. \/ \E f \in Flights : row = FlightRow(f)
          \/ \E b \in DOMAIN bookings : row = BookingRow(b)
      <3>1. CASE req.op \in {"none", "create", "sweep"}
        BY <1>2, <3>1, WantedRows, OpCases
      <3>2. CASE req.op \in {"retry", "callback", "cleanup"}
        <4>1. req.b \in DOMAIN bookings /\ bookings[req.b].flight \in Flights
          BY <1>2, <3>2, BookingThere DEF SessionsOK
        <4>2. row \in {booking, flight}
          BY <3>2, WantedRows
        <4> QED
          BY <4>1, <4>2
      <3> QED
        BY <1>2, <3>1, <3>2, OpCases
    <2>2. CASE \E f \in Flights : row = FlightRow(f)
      BY <2>2, RowNames DEF Rows, TypeOK
    <2>3. CASE \E b \in DOMAIN bookings : row = BookingRow(b)
      BY <2>3, RowNames DEF Rows, TypeOK
    <2> QED
      BY <2>1, <2>2, <2>3
  <1>4. /\ seen \in Snapshot /\ DOMAIN seen = Held(s) \union {row}
        /\ \A k \in Held(s) \union {row} : seen[k] = IF k = row THEN Value(row) ELSE Seen(s, k)
    <2>1. PICK D \in SUBSET Rows : tx[s].seen \in [D -> Booking \union Flight]
      BY <1>2 DEF Transaction, Snapshot
    <2> HIDE DEF seen
    <2>2. DOMAIN seen = D \union {row} /\ D = Held(s)
      BY <2>1 DEF seen, Insert, Held
    <2>3. seen \in [D \union {row} -> Booking \union Flight]
      BY <1>3, <2>1 DEF seen, Insert
    <2>4. D \union {row} \in SUBSET Rows
      BY <1>3, <2>1
    <2>5. seen \in Snapshot
      BY <2>3, <2>4 DEF Snapshot
    <2> QED
      BY <2>2, <2>5 DEF seen, Insert, Held, Seen
  <1> HIDE DEF seen
  <1>5. new \in Transaction /\ new.req = tx[s].req /\ new.t = tx[s].t /\ new.seen = seen
    BY <1>2, <1>4 DEF Transaction
  <1>6. tx' = [tx EXCEPT ![s] = new] /\ tx'[s] = new
    BY <1>1, <1>2 DEF seen
  <1> HIDE DEF new
  <1>7. /\ Req(s)' = req /\ tx'[s].t = tx[s].t /\ Held(s)' = Held(s) \union {row}
        /\ \A k \in Held(s)' : Seen(s, k)' = IF k = row THEN Value(row) ELSE Seen(s, k)
    BY <1>4, <1>5, <1>6 DEF Req, Held, Seen
  <1>8. Timely(s) /\ Valid(s) /\ InOrder(s) /\ Current(s)
    BY DEF SessionsOK
  <1>9. Timely(s)'
    BY <1>0, <1>7, <1>8 DEF Timely, vars
  <1>10. Valid(s)'
    BY <1>0, <1>7, <1>8 DEF Valid, vars
  <1>11. InOrder(s)'
    <2>1. bookings' = bookings
      BY <1>0 DEF vars
    <2>2. CASE req.op \in {"none", "create", "retry", "sweep"}
      BY <1>7, <1>8, <2>2, WantedRows DEF InOrder
    <2>3. CASE req.op \in {"callback", "cleanup"}
      <3>1. /\ Held(s)' \subseteq {booking, flight}
            /\ Held(s)' # {} => booking \in Held(s)'
        BY <1>7, <1>8, <2>3, WantedRows DEF InOrder
      <3> QED
        BY <1>7, <2>1, <2>3, <3>1 DEF InOrder
    <2> QED
      BY <1>2, <2>2, <2>3, OpCases
  <1>12. Current(s)'
    BY <1>0, <1>7, <1>8 DEF Current, Value, vars
  <1>13. ASSUME NEW r \in Sessions, r # s PROVE Apart(s, r)'
    <2>1. tx'[r] = tx[r]
      BY <1>2, <1>6, <1>13
    <2>2. Req(r)' = Req(r) /\ Held(r)' = Held(r)
      BY <2>1, SameTx
    <2>3. row \notin Held(r) /\ Distinct(s, r) /\ Held(s) \intersect Held(r) = {}
      BY <1>1, <1>13 DEF Free, SessionsOK
    <2> QED
      BY <1>7, <2>2, <2>3 DEF Apart, Distinct
  <1> QED
    BY <1>0, <1>5, <1>6, <1>9, <1>10, <1>11, <1>12, <1>13, QuietStep DEF SessionOK

LEMMA TickStep ==
    ASSUME TypeOK, SessionsOK, TickTx
    PROVE  SessionsOK'
  <1>1. /\ UNCHANGED <<flights, bookings, payments, batch, tx>> /\ now' = now + 1 /\ now \in Nat
        /\ \A s \in Sessions : tx[s] # Idle => now - tx[s].t < MaxLockWait
    BY DEF TickTx, Tick, TypeOK
  <1>2. ASSUME NEW s \in Sessions PROVE Timely(s)'
    <2>1. Req(s).op # "none" => tx[s] # Idle
      BY IdleTx DEF Req
    <2>2. tx[s].t \in Nat /\ Timely(s)
      BY OpCases DEF SessionsOK
    <2> QED
      BY <1>1, <2>1, <2>2, ConstantsAssumption DEF Timely, Req
  <1>3. ASSUME NEW s \in Sessions PROVE Valid(s)' /\ InOrder(s)' /\ Current(s)'
    BY <1>1 DEF SessionsOK, Valid, InOrder, Current, Req, Held, Seen, Value
  <1>4. \A s, r \in Sessions : s # r => Distinct(s, r)' /\ (Held(s) \intersect Held(r) = {})'
    BY <1>1 DEF SessionsOK, Distinct, Req, Held
  <1> QED
    BY <1>1, <1>2, <1>3, <1>4 DEF SessionsOK, TxTypeOK

\* A cron that fetches a batch has no row of another one in hand.
LEMMA FetchStep ==
    ASSUME TypeOK, SessionsOK, NEW c \in Crons, RunCleanup(c), UNCHANGED tx
    PROVE  SessionsOK'
  <1>1. /\ UNCHANGED <<flights, bookings, payments, now, tx>> /\ batch[c] = << >>
        /\ \A d \in Crons : d # c => batch'[d] = batch[d]
    BY DEF RunCleanup, TypeOK
  <1>2. ASSUME NEW s \in Sessions PROVE Valid(s)'
    <2>1. Valid(s)
      BY DEF SessionsOK
    <2>2. Req(s).op = "cleanup" => s \in Crons /\ batch'[s] = batch[s]
      BY <1>1, <2>1 DEF Valid
    <2> QED
      BY <1>1, <2>1, <2>2 DEF Valid, Req
  <1>3. ASSUME NEW s \in Sessions PROVE Timely(s)' /\ InOrder(s)' /\ Current(s)'
    BY <1>1 DEF SessionsOK, Timely, InOrder, Current, Req, Held, Seen, Value
  <1>4. \A s, r \in Sessions : s # r => Distinct(s, r)' /\ (Held(s) \intersect Held(r) = {})'
    BY <1>1 DEF SessionsOK, Distinct, Req, Held
  <1> QED
    BY <1>1, <1>2, <1>3, <1>4 DEF SessionsOK, TxTypeOK

LEMMA SessionsStep == RowInv /\ [RowNext]_rowVars => SessionsOK'
  <1> SUFFICES ASSUME RowInv, [RowNext]_rowVars PROVE SessionsOK'
    OBVIOUS
  <1>0. /\ TypeOK /\ SoldOutIsClosed /\ SessionsOK
        /\ Connections \subseteq Sessions /\ Crons \subseteq Sessions /\ Sweeper \in Sessions
    BY DEF RowInv, Sessions
  <1>1. [Next]_vars
    BY StepRefines
  <1>2. /\ TypeOK'
        /\ \A f \in Flights : flights[f].status # "SCHEDULED" => flights'[f].status # "SCHEDULED"
    BY <1>0, <1>1, StepType, ClosingStep
  <1>3. ASSUME NEW s \in Sessions, End(s), Effect(s) PROVE SessionsOK'
    BY <1>0, <1>2, <1>3, EndStep
  <1>4. CASE BeginTx
    <2>1. UNCHANGED vars
      BY <1>4 DEF BeginTx
    <2>2. ASSUME NEW s \in Connections, tx[s] = Idle, BeginCreate(s) PROVE SessionsOK'
      BY <1>0, <2>1, <2>2, BeginCreateStep
    <2>3. ASSUME NEW s \in Connections, tx[s] = Idle, BeginRetry(s) PROVE SessionsOK'
      BY <1>0, <2>1, <2>3, BeginRetryStep
    <2>4. ASSUME NEW s \in Connections, tx[s] = Idle, BeginCallback(s) PROVE SessionsOK'
      BY <1>0, <2>1, <2>4, BeginCallbackStep
    <2>5. ASSUME NEW c \in Crons, tx[c] = Idle, BeginRow(c) PROVE SessionsOK'
      BY <1>0, <2>1, <2>5, BeginRowStep
    <2>6. ASSUME tx[Sweeper] = Idle, BeginSweep PROVE SessionsOK'
      BY <1>0, <2>1, <2>6, BeginSweepStep
    <2> QED
      BY <1>4, <2>2, <2>3, <2>4, <2>5, <2>6 DEF BeginTx
  <1>5. ASSUME NEW s \in Sessions, Lock(s) PROVE SessionsOK'
    BY <1>0, <1>5, LockStep
  <1>6. ASSUME NEW s \in Connections, CommitCreate(s) \/ CommitRetry(s) \/ CommitCallback(s)
        PROVE  SessionsOK'
    <2>1. End(s)
      BY <1>6 DEF CommitCreate, CommitRetry, CommitCallback
    <2>2. Effect(s)
      BY <1>0, <1>6, CreateEffect, RetryEffect, CallbackEffect
    <2> QED
      BY <1>0, <1>3, <2>1, <2>2
  <1>7. ASSUME NEW c \in Crons, CommitRow(c) PROVE SessionsOK'
    <2>1. End(c)
      BY <1>7 DEF CommitRow
    <2>2. Effect(c)
      BY <1>0, <1>7, CleanupEffect
    <2> QED
      BY <1>0, <1>3, <2>1, <2>2
  <1>8. CASE CommitSweep
    <2>1. End(Sweeper)
      BY <1>8 DEF CommitSweep
    <2> QED
      BY <1>0, <1>3, <1>8, <2>1, SweepEffect
  <1>9. ASSUME NEW s \in Sessions, Rollback(s) PROVE SessionsOK'
    <2>1. End(s)
      BY <1>9 DEF Rollback
    <2> QED
      BY <1>0, <1>3, <1>9, <2>1, RollbackEffect
  <1>10. ASSUME NEW c \in Crons, CronDies(c) PROVE SessionsOK'
    <2>1. End(c)
      BY <1>10 DEF CronDies
    <2> QED
      BY <1>0, <1>3, <1>10, <2>1, RollbackEffect
  <1>11. ASSUME NEW c \in Crons, RunCleanup(c), UNCHANGED tx PROVE SessionsOK'
    BY <1>0, <1>11, FetchStep
  <1>12. CASE TickTx
    BY <1>0, <1>12, TickStep
  <1>13. CASE UNCHANGED rowVars
    BY <1>0, <1>13 DEF rowVars, vars, SessionsOK, TxTypeOK, Timely, Valid, InOrder, Current,
       Distinct, Req, Held, Seen, Value
  <1> QED
    BY <1>4, <1>5, <1>6, <1>7, <1>8, <1>9, <1>10, <1>11, <1>12, <1>13 DEF RowNext

LEMMA InitSessions == RowInit => SessionsOK
  <1> SUFFICES ASSUME RowInit PROVE SessionsOK
    OBVIOUS
  <1>1. \A s \in Sessions : tx[s] = Idle
    BY DEF RowInit
  <1>2. TxTypeOK
    BY IdleTx DEF RowInit, TxTypeOK
  <1>3. \A s \in Sessions : Req(s).op = "none" /\ Held(s) = {} /\ tx[s].t = 0 /\ now = 0
    BY <1>1, IdleTx DEF Req, Held, RowInit, Init
  <1> QED
    BY <1>2, <1>3 DEF SessionsOK, Timely, Valid, InOrder, Current, Distinct

THEOREM RowInvariance == RowSpec => []RowInv
  <1>1. RowInit => RowInv
    <2> SUFFICES ASSUME RowInit PROVE RowInv
      OBVIOUS
    <2>1. Init
      BY DEF RowInit
    <2> QED
      BY <2>1, InitType, InitClosed, InitSessions DEF RowInv
  <1>2. RowInv /\ [RowNext]_rowVars => RowInv'
    <2> SUFFICES ASSUME RowInv, [RowNext]_rowVars PROVE RowInv'
      OBVIOUS
    <2>1. TypeOK /\ SoldOutIsClosed /\ [Next]_vars
      BY StepRefines DEF RowInv
    <2> QED
      BY <2>1, StepType, ClosingStep, SessionsStep DEF RowInv
  <1> QED
    BY <1>1, <1>2, PTL DEF RowSpec

\* The transactions cut into begin, lock and commit implement the one-step
\* transactions of BookingStore: every theorem about it holds of them.
THEOREM LocksMakeAtomic == RowSpec => ActsAtomically
  <1>1. RowInit => Init
    BY DEF RowInit
  <1>2. RowInv /\ [RowNext]_rowVars => [Next]_vars
    BY StepRefines
  <1> QED
    BY <1>1, <1>2, RowInvariance, PTL DEF RowSpec, Spec, ActsAtomically

\* And so, however their reads, locks and writes interleave, the services sell
\* seats as SeatSale says: no seat is held or sold twice.
THEOREM LockingSellsSeats == RowSpec => SellsSeats
  BY LocksMakeAtomic, SeatsAreSold DEF ActsAtomically

\* No decision and no array computed in Go is out of date when it is written.
THEOREM SnapshotsAreCurrent == RowSpec => []SnapshotIsCurrent
  <1>1. RowInv => SnapshotIsCurrent
    BY DEF RowInv, SessionsOK, Current, SnapshotIsCurrent
  <1> QED
    BY <1>1, RowInvariance, PTL

-----------------------------------------------------------------------------
(* Waiting.                                                                *)

IsFlight(row) == \E f \in Flights : row = FlightRow(f)

\* Whoever waits and holds a row, the sweep excepted, holds a booking and waits
\* for a flight.
LEMMA WaitingHolds ==
    ASSUME TypeOK, SessionsOK, NEW s \in Sessions, Wanted(s) # {}, Req(s).op # "sweep"
    PROVE  /\ \A row \in Held(s) : ~IsFlight(row)
           /\ Held(s) = {} \/ \A row \in Wanted(s) : IsFlight(row)
  <1>1. TxTypeOK /\ Valid(s)
    BY DEF SessionsOK
  <1>2. CASE Req(s).op \in {"none", "create", "retry"}
    BY <1>2, WantedRows
  <1>3. CASE Req(s).op \in {"callback", "cleanup"}
    <2>1. bookings[Req(s).b].flight \in Flights
      BY <1>1, <1>3, BookingThere
    <2> QED
      BY <1>3, <2>1, WantedRows, RowNames DEF IsFlight
  <1> QED
    BY <1>1, <1>2, <1>3, OpCases

LEMMA SweepWants ==
    ASSUME TypeOK, SessionsOK, NEW s \in Sessions, Req(s).op = "sweep"
    PROVE  s = Sweeper /\ \A row \in Wanted(s) : IsFlight(row)
  <1>1. TxTypeOK /\ Valid(s)
    BY DEF SessionsOK
  <1>2. Req(s).due \subseteq Flights
    BY <1>1, OpCases
  <1> QED
    BY <1>1, <1>2, WantedRows DEF Valid, IsFlight

LEMMA SomebodyGoesOn == RowInv => NoDeadlock
  <1> SUFFICES ASSUME RowInv, NEW circle \in (SUBSET Sessions) \ {{}}
               PROVE  \E s \in circle : \A r \in circle : ~WaitsFor(s, r)
    BY Zenon DEF NoDeadlock
  <1>0. TypeOK /\ SessionsOK /\ circle # {} /\ circle \subseteq Sessions
    BY DEF RowInv
  <1>1. ASSUME NEW s \in circle, Wanted(s) = {} PROVE \A r \in circle : ~WaitsFor(s, r)
    BY <1>1 DEF WaitsFor
  <1>2. CASE \A s \in circle : Wanted(s) # {}
    <2>1. ASSUME NEW s \in circle, Req(s).op = "sweep"
          PROVE  \A r \in circle : ~WaitsFor(s, r)
      <3> SUFFICES ASSUME NEW r \in circle PROVE ~WaitsFor(s, r)
        OBVIOUS
      <3>1. CASE Req(r).op = "sweep"
        <4>1. r = s
          BY <1>0, <2>1, <3>1, SweepWants
        <4> QED
          BY <1>0, <4>1, WantedRows DEF WaitsFor
      <3>2. CASE Req(r).op # "sweep"
        BY <1>0, <1>2, <2>1, <3>2, SweepWants, WaitingHolds DEF WaitsFor
      <3> QED
        BY <3>1, <3>2
    <2>2. CASE \A s \in circle : Req(s).op # "sweep"
      <3>1. CASE \A s \in circle : Held(s) = {}
        BY <1>0, <3>1 DEF WaitsFor
      <3>2. ASSUME NEW s \in circle, Held(s) # {} PROVE \A r \in circle : ~WaitsFor(s, r)
        BY <1>0, <1>2, <2>2, <3>2, WaitingHolds DEF WaitsFor
      <3> QED
        BY <1>0, <3>1, <3>2
    <2> QED
      BY <2>1, <2>2
  <1> QED
    BY <1>1, <1>2

\* However many requests, callbacks, cleanups and a sweep are at work, some one
\* of any set of them is not waiting for the others.
THEOREM NobodyWaitsForever == RowSpec => []NoDeadlock
  <1>1. RowInv => NoDeadlock
    BY SomebodyGoesOn
  <1> QED
    BY <1>1, RowInvariance, PTL
=============================================================================
