-------------------------- MODULE MCPaymentPipeline --------------------------
(***************************************************************************)
(* PaymentPipeline on a small instance, for TLC.                           *)
(***************************************************************************)
EXTENDS PaymentPipeline, TLC

CONSTANT departureTime

\* Every flight departs at the same time.
MCDepartureTime == [f \in Flights |-> departureTime]

\* Each payment intent has a partition of its own while there are enough.
MCPartitionOf ==
    CHOOSE g \in [PaymentIds -> Partitions] :
        \A k \in Partitions : Cardinality(Partitions) <= Cardinality(PaymentIds) => \E p \in PaymentIds : g[p] = k
=============================================================================
