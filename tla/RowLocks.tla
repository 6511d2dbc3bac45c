------------------------------ MODULE RowLocks ------------------------------
(***************************************************************************)
(* The transactions of BookingStore taken apart.  A database session reads *)
(* the clock and its request, locks one row at a time with SELECT ... FOR  *)
(* UPDATE, decides on the values it read under those locks, and commits.   *)
(* Any number of sessions are between these steps at once.                 *)
(*                                                                         *)
(*   CreateBooking           locks the flight                              *)
(*   RetryPayment            locks the booking                             *)
(*   ProcessPaymentCallback  locks the booking, then its flight            *)
(*   processCleanupRow       locks the booking, then, to expire it, its    *)
(*                           flight                                        *)
(*   the departure sweep     is one UPDATE: it locks the rows it changes   *)
(*                                                                         *)
(* ActsAtomically says that the result is the one-step transactions of     *)
(* BookingStore.  The payment and cleanup rows are written only under the  *)
(* lock of their booking.                                                  *)
(***************************************************************************)
EXTENDS BookingStore

CONSTANTS
    Connections,   \* sessions of the api and of the booking-worker
    Sweeper,       \* the session of the departure sweep, of one cron-worker
    ArrivalsUntil  \* bound: no request arrives later

ASSUME ArrivalsAssumption ==
    ArrivalsUntil \in Nat /\ ArrivalsUntil + MaxLockWait <= RequestsUntil

Sessions == Connections \union Crons \union {Sweeper}

VARIABLE tx  \* [Sessions -> transaction in progress, or Idle]

rowVars == <<vars, tx>>

BookingRow(b) == <<"booking", b>>
FlightRow(f) == <<"flight", f>>
Value(row) == IF row[1] = "booking" THEN bookings[row[2]] ELSE flights[row[2]]

\* A transaction is its request, the clock when it began, and the rows it has
\* locked with the values it read.
Idle == [req |-> [op |-> "none"], t |-> 0, seen |-> EmptyTable]
Begin(s, req) == tx' = [tx EXCEPT ![s] = [req |-> req, t |-> now, seen |-> EmptyTable]]
End(s) == tx' = [tx EXCEPT ![s] = Idle]
Req(s) == tx[s].req
Seen(s, row) == tx[s].seen[row]
Held(s) == DOMAIN tx[s].seen

RowInit == Init /\ tx = [s \in Sessions |-> Idle]

-----------------------------------------------------------------------------
(* Requests.  A uuid is drawn once, also by requests still in flight.      *)

NewBooking(b) ==
    b \notin DOMAIN bookings /\ \A r \in Sessions : Req(r).op = "create" => Req(r).b # b
NewPayment(p) ==
    p \notin DOMAIN payments /\ \A r \in Sessions : Req(r).op \in {"create", "retry"} => Req(r).p # p

BeginCreate(s) ==
    /\ now <= ArrivalsUntil
    /\ \E b \in BookingIds, p \in PaymentIds, f \in Flights, list \in SeatRequests :
          /\ NewBooking(b) /\ NewPayment(p)
          /\ Begin(s, [op |-> "create", b |-> b, p |-> p, f |-> f, list |-> list])

BeginRetry(s) ==
    /\ now <= ArrivalsUntil
    /\ \E b \in DOMAIN bookings, p \in PaymentIds :
          NewPayment(p) /\ Begin(s, [op |-> "retry", b |-> b, p |-> p])

\* The payment intent is read, to find its booking, outside the transaction.
BeginCallback(s) ==
    \E p \in DOMAIN payments, status \in CallbackStatus :
        Begin(s, [op |-> "callback", b |-> payments[p].booking, p |-> p, status |-> status])

BeginRow(c) ==
    batch[c] # << >> /\ Begin(c, [op |-> "cleanup", b |-> Head(batch[c])])

BeginSweep ==
    LET due == {f \in Flights : DepartureTime[f] < now /\ ~IsDeparted(flights[f])} IN
        due # {} /\ Begin(Sweeper, [op |-> "sweep", due |-> due])

BeginTx ==
    /\ \/ \E s \in Connections : tx[s] = Idle /\ (BeginCreate(s) \/ BeginRetry(s) \/ BeginCallback(s))
       \/ \E c \in Crons : tx[c] = Idle /\ BeginRow(c)
       \/ tx[Sweeper] = Idle /\ BeginSweep
    /\ UNCHANGED vars

-----------------------------------------------------------------------------
(* Row locks.                                                              *)

\* Mistake: a callback locks the flight before the booking.
WantedFlightFirst(s) ==
    LET booking == Req(s).b IN
        IF Held(s) = {} THEN {FlightRow(bookings[booking].flight)}
        ELSE {BookingRow(booking)} \ Held(s)

\* The booking first, then the flight of the booking as it was read.
WantedByCallback(s) ==
    LET booking == BookingRow(Req(s).b) IN
        IF booking \notin Held(s) THEN {booking}
        ELSE {FlightRow(Seen(s, booking).flight)} \ Held(s)

\* The flight of a booking that has to expire; the clock is read again here.
WantedByCleanup(s) ==
    LET booking == BookingRow(Req(s).b) IN
        IF booking \notin Held(s) THEN {booking}
        ELSE IF IsTerminal(Seen(s, booking).status) \/ ~IsDue(Seen(s, booking)) THEN {}
        ELSE {FlightRow(Seen(s, booking).flight)} \ Held(s)

\* The rows of which s has to lock one next.
Wanted(s) ==
    CASE Req(s).op = "create" -> {FlightRow(Req(s).f)} \ Held(s)
      [] Req(s).op = "retry" -> {BookingRow(Req(s).b)} \ Held(s)
      [] Req(s).op = "callback" -> WantedByCallback(s)
      [] Req(s).op = "cleanup" -> WantedByCleanup(s)
      [] Req(s).op = "sweep" -> {FlightRow(f) : f \in Req(s).due} \ Held(s)
      [] OTHER -> {}

\* Mistake: flights are read without FOR UPDATE.
FreeUnlocked(row) == row[1] = "booking" => \A r \in Sessions : row \notin Held(r)

Free(row) == \A r \in Sessions : row \notin Held(r)

Lock(s) ==
    /\ \E row \in Wanted(s) :
          /\ Free(row)
          /\ tx' = [tx EXCEPT ![s].seen = Insert(@, row, Value(row))]
    /\ UNCHANGED vars

-----------------------------------------------------------------------------
(* Commits.  Decisions and Go expressions use the values read under the    *)
(* locks; an UPDATE that names a column on its right uses the row itself.  *)

Ready(s, op) == Req(s).op = op /\ Wanted(s) = {}

CommitCreate(s) ==
    LET req == Req(s)
        row == Seen(s, FlightRow(req.f))
        expiry == tx[s].t + InitialReservation
    IN  /\ Ready(s, "create")
        /\ row.status = "SCHEDULED" /\ SeatsAvailable(row, req.list)
        /\ flights' = [flights EXCEPT ![req.f].reserved =
                          AppendSeats(flights[req.f].reserved, req.list)]
        /\ bookings' = Insert(bookings, req.b,
               [flight |-> req.f, seats |-> req.list, active |-> req.p, status |-> "PENDING",
                retryCount |-> 0, expiresAt |-> expiry])
        /\ payments' = Insert(payments, req.p, [booking |-> req.b, status |-> "INITIATED"])
        /\ cleanup' = Insert(cleanup, req.b, expiry)
        /\ End(s) /\ UNCHANGED <<batch, refunded, now>>

CommitRetry(s) ==
    LET req == Req(s)
        expiry == tx[s].t + RetryExtension
    IN  /\ Ready(s, "retry")
        /\ MayRetry(Seen(s, BookingRow(req.b)))
        /\ bookings' = [bookings EXCEPT ![req.b] = Retried(bookings[req.b], req.p, expiry)]
        /\ payments' = Insert(payments, req.p, [booking |-> req.b, status |-> "INITIATED"])
        /\ cleanup' = SetExpiry(req.b, expiry)
        /\ End(s) /\ UNCHANGED <<flights, batch, refunded, now>>

CommitCallback(s) ==
    LET req == Req(s)
        bi == Seen(s, BookingRow(req.b))
        row == Seen(s, FlightRow(bi.flight))
    IN  /\ Ready(s, "callback")
        /\ \/ /\ IsActivePI(bi, req.p) /\ req.status = "SUCCESS"
              /\ bookings' = [bookings EXCEPT ![req.b].status = "CONFIRMED"]
              /\ flights' = [flights EXCEPT ![bi.flight] = Confirmed(row, bi)]
              /\ payments' = ExpireInitiated(SetPayment(req.p, "SUCCESS"), req.b, {req.p})
              /\ cleanup' = Delete(cleanup, req.b)
              /\ UNCHANGED refunded
           \/ /\ IsActivePI(bi, req.p) /\ req.status = "FAILED"
              /\ bookings' = [bookings EXCEPT ![req.b].status = "PAYMENT_FAILED"]
              /\ payments' = SetPayment(req.p, "FAILED")
              /\ UNCHANGED <<flights, cleanup, refunded>>
           \/ /\ ~IsActivePI(bi, req.p)
              /\ payments' = SetPayment(req.p, req.status)
              /\ RefundIfPaid(req.p, req.status)
              /\ UNCHANGED <<flights, bookings, cleanup>>
        /\ End(s) /\ UNCHANGED <<batch, now>>

CommitRow(c) ==
    LET b == Req(c).b
        bi == Seen(c, BookingRow(b))
        row == Seen(c, FlightRow(bi.flight))
        newRow == Released(row, bi)
    IN  /\ Ready(c, "cleanup")
        /\ \/ /\ IsTerminal(bi.status)
              /\ cleanup' = Delete(cleanup, b)
              /\ UNCHANGED <<flights, bookings, payments>>
           \/ /\ ~IsTerminal(bi.status) /\ ~IsDue(bi)
              /\ cleanup' = SetExpiry(b, bi.expiresAt)
              /\ UNCHANGED <<flights, bookings, payments>>
           \/ /\ ~IsTerminal(bi.status) /\ IsDue(bi)
              /\ bookings' = [bookings EXCEPT ![b].status = "EXPIRED"]
              /\ payments' = ExpireInitiated(payments, b, {})
              /\ flights' = [flights EXCEPT
                     ![bi.flight].reserved = newRow.reserved,
                     ![bi.flight].status = IF newRow.status # row.status THEN newRow.status ELSE @]
              /\ cleanup' = Delete(cleanup, b)
        /\ RowDone(c) /\ End(c) /\ UNCHANGED <<refunded, now>>

CommitSweep ==
    /\ Ready(Sweeper, "sweep")
    /\ flights' = [f \in Flights |->
           IF f \in Req(Sweeper).due THEN [flights[f] EXCEPT !.status = "DEPARTED"]
           ELSE flights[f]]
    /\ End(Sweeper) /\ UNCHANGED <<bookings, payments, cleanup, batch, refunded, now>>

\* An early return, a database error or the loss of the session: nothing is
\* written, and a cron goes on to its next row.
Rollback(s) ==
    /\ tx[s] # Idle
    /\ IF s \in Crons THEN CleanupRowError(s) ELSE UNCHANGED vars
    /\ End(s)

CronDies(c) == CronCrash(c) /\ End(c)

\* No transaction waits longer than MaxLockWait: a bound of the model.
TickTx ==
    /\ \A s \in Sessions : tx[s] # Idle => now - tx[s].t < MaxLockWait
    /\ Tick /\ UNCHANGED tx

RowNext ==
    \/ BeginTx
    \/ \E s \in Sessions : Lock(s)
    \/ \E s \in Connections : CommitCreate(s) \/ CommitRetry(s) \/ CommitCallback(s)
    \/ \E c \in Crons : CommitRow(c)
    \/ CommitSweep
    \/ \E s \in Sessions : Rollback(s)
    \/ \E c \in Crons : CronDies(c) \/ (RunCleanup(c) /\ UNCHANGED tx)
    \/ TickTx

RowSpec == RowInit /\ [][RowNext]_rowVars

-----------------------------------------------------------------------------
(* Properties.                                                             *)

\* What the database shows is a run of the one-step transactions of
\* BookingStore: interleaving their reads, locks and writes changes nothing.
ActsAtomically == Spec

\* What a transaction read under its locks is still what the rows hold: no
\* decision and no array computed in Go is out of date when it is written.
SnapshotIsCurrent ==
    \A s \in Sessions, row \in UNION {Held(r) : r \in Sessions} :
        row \in Held(s) => Seen(s, row) = Value(row)

\* No set of sessions waits for rows of its own members only: callbacks and the
\* cleanup, which lock two rows each, and the sweep never stop each other.  (Two
\* sweeps at once might, on several flights: no code orders the rows of one.)
WaitsFor(s, r) == Wanted(s) \intersect Held(r) # {}
NoDeadlock ==
    \A circle \in (SUBSET Sessions) \ {{}} :
        \E s \in circle : \A r \in circle : ~WaitsFor(s, r)
=============================================================================
