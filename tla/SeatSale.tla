------------------------------ MODULE SeatSale ------------------------------
(***************************************************************************)
(* What the booking database promises about seats: a booking takes free    *)
(* seats of one flight, holds them, and in the end either owns all of them *)
(* or gives all of them back.  Payments, retries, expiries and arrays are  *)
(* the business of BookingStore, which implements this.                    *)
(***************************************************************************)
CONSTANTS
    Flights,
    Seats,       \* of every flight
    BookingIds

VARIABLES
    seat,   \* [Flights -> [Seats -> {"free", "held", "sold"}]]: the seat map
    claim   \* bookings made so far -> [flight, seats, stage]

saleVars == <<seat, claim>>

Claim == [flight : Flights, seats : SUBSET Seats, stage : {"holds", "owns", "gone"}]

SaleInit ==
    /\ seat = [f \in Flights |-> [s \in Seats |-> "free"]]
    /\ claim = [b \in {} |-> b]

\* The seat map once the seats S of flight f are in a new state.
Marked(f, S, mark) ==
    [seat EXCEPT ![f] = [s \in Seats |-> IF s \in S THEN mark ELSE seat[f][s]]]

Hold(b, f, S) ==
    /\ b \notin DOMAIN claim
    /\ S # {} /\ \A s \in S : seat[f][s] = "free"
    /\ seat' = Marked(f, S, "held")
    /\ claim' = [a \in DOMAIN claim \union {b} |->
           IF a = b THEN [flight |-> f, seats |-> S, stage |-> "holds"] ELSE claim[a]]

\* A hold ends: its booking goes to stage, all of its seats become mark.
Settle(b, stage, mark) ==
    /\ b \in DOMAIN claim /\ claim[b].stage = "holds"
    /\ seat' = Marked(claim[b].flight, claim[b].seats, mark)
    /\ claim' = [claim EXCEPT ![b].stage = stage]

Sell(b) == Settle(b, "owns", "sold")
Release(b) == Settle(b, "gone", "free")

SaleNext ==
    \/ \E b \in BookingIds, f \in Flights, S \in SUBSET Seats : Hold(b, f, S)
    \/ \E b \in BookingIds : Sell(b) \/ Release(b)

SaleSpec == SaleInit /\ [][SaleNext]_saleVars
=============================================================================
