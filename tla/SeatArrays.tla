----------------------------- MODULE SeatArrays -----------------------------
(***************************************************************************)
(* The seat arrays of a flight as Go and PostgreSQL hold them, sequences   *)
(* of seat names, and what the loops of the services compute from them.    *)
(* BookingStore keeps of an array only how often each seat is in it;       *)
(* SeatArraysProofs shows that the two computations agree on every array.  *)
(***************************************************************************)
EXTENDS BookingStore

SeatArray == Seq(Seats)

\* for _, s := range from { if !marked[s] { out = append(out, s) } }, where
\* out[n] is what the loop has built after n elements.
Unmarked(from, marked) ==
    LET out[n \in 0..Len(from)] ==
            IF n = 0 THEN << >>
            ELSE IF from[n] \in marked THEN out[n - 1] ELSE Append(out[n - 1], from[n])
    IN  out[Len(from)]

\* removeSeats of the callback and removeSeatsSlice of the cleanup.
RemoveFromArray(from, toRemove) == Unmarked(from, Range(toRemove))

\* A row of flights: Flight with arrays in place of counts.
ArrayFlight == [status : FlightStatus, reserved : SeatArray, booked : SeatArray]
TakenIn(row) == Range(row.reserved) \union Range(row.booked)

\* The seats a search shows as available, in the order of constants.AllSeats.
AvailableSeats(allSeats, row) == Unmarked(allSeats, TakenIn(row))

\* CreateBooking: the check, and array_cat.
ArraysAvailable(row, list) == \A i \in DOMAIN list : list[i] \notin TakenIn(row)
ArraysReserved(row, list) == [row EXCEPT !.reserved = row.reserved \o list]

\* ProcessPaymentCallback: make, copy and append; the length decides.
ArraysConfirmed(row, list) ==
    LET newBooked == row.booked \o list IN
        [reserved |-> RemoveFromArray(row.reserved, list),
         booked |-> newBooked,
         status |-> IF Len(newBooked) >= TotalSeats THEN "FULLY_BOOKED" ELSE row.status]

\* ProcessCleanupRow.
ArraysReleased(row, list) ==
    LET newReserved == RemoveFromArray(row.reserved, list)
        reopened == row.status = "FULLY_BOOKED" /\ Len(newReserved) + Len(row.booked) < TotalSeats
    IN  [row EXCEPT !.reserved = newReserved,
                    !.status = IF reopened THEN "SCHEDULED" ELSE row.status]

-----------------------------------------------------------------------------
(* What BookingStore keeps of an array and of a row.                       *)

Copies(array) == [s \in Seats |-> Cardinality({i \in DOMAIN array : array[i] = s})]
CountedRow(row) ==
    [status |-> row.status, reserved |-> Copies(row.reserved), booked |-> Copies(row.booked)]

\* The operators of BookingStore compute with the counts what the code computes
\* with the arrays: the same flights can be booked, and every new row is the
\* row of counts of the new arrays.
CountsAgree(row, list) ==
    LET counts == CountedRow(row)
        booking == [seats |-> Copies(list)]
    IN  /\ ArraysAvailable(row, list) <=> SeatsAvailable(counts, Copies(list))
        /\ CountedRow(ArraysReserved(row, list)) =
               [counts EXCEPT !.reserved = AppendSeats(counts.reserved, Copies(list))]
        /\ CountedRow(ArraysConfirmed(row, list)) = Confirmed(counts, booking)
        /\ CountedRow(ArraysReleased(row, list)) = Released(counts, booking)

\* What a search shows as available is each seat that is neither held nor sold,
\* once.
ShowsFreeSeats(allSeats, row) ==
    Copies(AvailableSeats(allSeats, row)) =
        [s \in Seats |-> IF s \in Taken(Copies(row.reserved)) \union Taken(Copies(row.booked))
                         THEN 0 ELSE 1]
=============================================================================
