----------------------------- MODULE MCRowLocks -----------------------------
(***************************************************************************)
(* RowLocks on small tables, for TLC.  The rows that its commits write are *)
(* compared with the arrays that the code computes, on arrays of their own *)
(* seats: the transactions are checked with fewer.                         *)
(***************************************************************************)
EXTENDS RowLocks, TLC

CONSTANTS departureTime, arraySeats

\* Every flight departs at the same time.
MCDepartureTime == [f \in Flights |-> departureTime]

\* Ids and connections are interchangeable.
RowSymmetry == Permutations(BookingIds) \union Permutations(PaymentIds)
                   \union Permutations(Connections)

\* Counts and arrays agree on every row and request with at most two seats in
\* an array.
Arrays == INSTANCE SeatArrays WITH Seats <- arraySeats
SmallArrays == UNION {[1..n -> arraySeats] : n \in 0..2}
SeatOrders == {order \in [1..Cardinality(arraySeats) -> arraySeats] : IsInjective(order)}
ASSUME ArraysAgree ==
    \A row \in [status : FlightStatus, reserved : SmallArrays, booked : SmallArrays] :
        /\ \A list \in SmallArrays : Arrays!CountsAgree(row, list)
        /\ \A order \in SeatOrders : Arrays!ShowsFreeSeats(order, row)
=============================================================================
