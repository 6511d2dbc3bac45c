--------------------------- MODULE MCBookingStore ---------------------------
(***************************************************************************)
(* BookingStore on small tables, for TLC.                                  *)
(***************************************************************************)
EXTENDS BookingStore, TLC

CONSTANT departureTime

\* Every flight departs at the same time.
MCDepartureTime == [f \in Flights |-> departureTime]

\* The ids are interchangeable.  Used in safety runs only.
IdSymmetry == Permutations(BookingIds) \union Permutations(PaymentIds)
                  \union Permutations(Seats) \union Permutations(Crons)
=============================================================================
