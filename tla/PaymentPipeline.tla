--------------------------- MODULE PaymentPipeline ---------------------------
(***************************************************************************)
(* How a payment callback reaches the booking database:                    *)
(*                                                                         *)
(*   api             commits a booking or a retry, then a goroutine posts  *)
(*                   the payment intent to the payment server              *)
(*   payment-server  a goroutine per payment: draws one outcome, posts it  *)
(*                   to the webhook, perhaps twice, perhaps never          *)
(*   anyone          posts to the webhook by hand, as the scripts do       *)
(*   api             the webhook appends the event to a Kafka partition    *)
(*   booking-worker  fetches, handles and commits one event at a time      *)
(*                                                                         *)
(* The database and everything else that runs on it is BookingStore.       *)
(***************************************************************************)
EXTENDS BookingStore

CONSTANTS
    Partitions,   \* partitions of the topic payment.callbacks
    PartitionOf,  \* kafka.Hash of the message key, the payment intent id
    Exposed,      \* bound: payment intents that others than the payment server post
    MaxByHand,    \* bound: how often they post
    MaxFaults     \* bound: failures and restarts of the worker

ASSUME PipelineAssumption ==
    /\ PartitionOf \in [PaymentIds -> Partitions] /\ Exposed \subseteq PaymentIds
    /\ MaxByHand \in Nat /\ MaxFaults \in Nat

VARIABLES
    journey,    \* [PaymentIds -> Stages]: the goroutine that carries a payment
    outcome,    \* [payments whose outcome was drawn -> CallbackStatus]
    byHand,     \* Seq(Event): what others have posted
    topic,      \* [Partitions -> Seq(Event)]
    committed,  \* [Partitions -> Nat]: how many events the group has committed
    position,   \* [Partitions -> Nat]: how many the running worker has fetched
    inHand,     \* the fetched event the worker is busy with, or NoEvent
    handled,    \* <<partition, offset>> of the events the handler has accepted
    failed,     \* <<partition, offset>> of the events it returned an error for
    faults      \* failures and restarts so far

kafkaVars == <<topic, committed, position, inHand, handled, failed, faults>>
pipeVars == <<vars, journey, outcome, byHand, kafkaVars>>

Stages == {"none", "charging", "posting", "reposting", "over"}
\* The webhook takes any string for a status.
PostedStatus == CallbackStatus \union {"OTHER"}
Event == [p : PaymentIds, status : PostedStatus]
NoEvent == << >>

PipeInit ==
    /\ Init
    /\ journey = [p \in PaymentIds |-> "none"] /\ outcome = EmptyTable
    /\ byHand = << >>
    /\ topic = [k \in Partitions |-> << >>]
    /\ committed = [k \in Partitions |-> 0] /\ position = [k \in Partitions |-> 0]
    /\ inHand = NoEvent /\ handled = {} /\ failed = {} /\ faults = 0

Advance(p, from, to) == journey[p] = from /\ journey' = [journey EXCEPT ![p] = to]

-----------------------------------------------------------------------------
(* api: the booking transaction, then go s.callPaymentServer(...).         *)

RequestPayment ==
    /\ \E b \in BookingIds, p \in PaymentIds, t \in RequestTimes :
          /\ \/ \E f \in Flights, list \in SeatRequests : CreateBooking(b, p, f, list, t)
             \/ RetryPayment(b, p, t)
          /\ Advance(p, "none", "charging")
    /\ UNCHANGED <<outcome, byHand, kafkaVars>>

\* The call fails, the payment server decides to send no callback
\* (PaymentNoCallbackRate), or a process dies with the goroutine: nobody tries
\* again.
PaymentLost(p) ==
    /\ journey[p] \in {"charging", "posting", "reposting"}
    /\ journey' = [journey EXCEPT ![p] = "over"]
    /\ UNCHANGED <<vars, outcome, byHand, kafkaVars>>

-----------------------------------------------------------------------------
(* payment-server: handleCreatePayment's goroutine, after its delay.       *)

DrawOutcome(p, status) ==
    /\ Advance(p, "charging", "posting")
    /\ outcome' = Insert(outcome, p, status)
    /\ UNCHANGED <<vars, byHand, kafkaVars>>

-----------------------------------------------------------------------------
(* api: the webhook.                                                       *)

\* Mistake: the writer's default balancer, which does not look at the key.
ShortestPartition(p) ==
    CHOOSE k \in Partitions : \A j \in Partitions : Len(topic[k]) <= Len(topic[j])

\* kafka.Hash: every event of a payment goes to the same partition.
HomeOf(p) == PartitionOf[p]

\* HandlePaymentWebhook: the event is the last of its partition.
Publish(event) == topic' = [topic EXCEPT ![HomeOf(event.p)] = Append(@, event)]

\* The payment server posts the outcome.  The first post is followed by a second
\* after a transport error, delivered or not, and in some cases
\* (PaymentDuplicateRate) after a success.  A post leaves nothing in the topic
\* when the webhook is unreachable or cannot enqueue, and may do so when it
\* answers 200: the writer asks for no acknowledgement.
PostCallback(p) ==
    /\ \/ Advance(p, "posting", "over")
       \/ Advance(p, "posting", "reposting")
       \/ Advance(p, "reposting", "over")
    /\ Publish([p |-> p, status |-> outcome[p]]) \/ UNCHANGED topic
    /\ UNCHANGED <<vars, outcome, byHand, committed, position, inHand, handled, failed, faults>>

\* Anyone who knows a payment intent may post a status for it, at any time and
\* whatever was posted before: the webhook asks nobody who he is.  (A post that
\* is lost is no step.)
PostByHand(p, status) ==
    /\ Len(byHand) < MaxByHand
    /\ p \in DOMAIN payments \intersect Exposed
    /\ byHand' = Append(byHand, [p |-> p, status |-> status])
    /\ Publish([p |-> p, status |-> status])
    /\ UNCHANGED <<vars, journey, outcome, committed, position, inHand, handled, failed, faults>>

-----------------------------------------------------------------------------
(* booking-worker: Consumer.Start.                                         *)

\* Mistake: the event is committed when it is fetched.
FetchMessageAutoCommit(k) ==
    /\ inHand = NoEvent /\ position[k] < Len(topic[k])
    /\ position' = [position EXCEPT ![k] = @ + 1]
    /\ committed' = [committed EXCEPT ![k] = position[k] + 1]
    /\ inHand' = [at |-> <<k, position[k] + 1>>, done |-> FALSE]
    /\ UNCHANGED <<vars, journey, outcome, byHand, topic, handled, failed, faults>>

FetchMessage(k) ==
    /\ inHand = NoEvent /\ position[k] < Len(topic[k])
    /\ position' = [position EXCEPT ![k] = @ + 1]
    /\ inHand' = [at |-> <<k, position[k] + 1>>, done |-> FALSE]
    /\ UNCHANGED <<vars, journey, outcome, byHand, topic, committed, handled, failed, faults>>

Fault == faults < MaxFaults /\ faults' = faults + 1

\* The event with partition and offset at.
EventAt(at) == topic[at[1]][at[2]]

HandleMessage ==
    /\ inHand # NoEvent /\ ~inHand.done
    /\ LET event == EventAt(inHand.at) IN
           event.status \in CallbackStatus /\ ProcessPaymentCallback(event.p, event.status)
    /\ inHand' = [inHand EXCEPT !.done = TRUE]
    /\ handled' = handled \union {inHand.at}
    /\ UNCHANGED <<journey, outcome, byHand, topic, committed, position, failed, faults>>

\* The handler refuses a status that it does not know: logged, and on to the
\* next event.
HandleUnknown ==
    /\ inHand # NoEvent /\ ~inHand.done
    /\ EventAt(inHand.at).status \notin CallbackStatus
    /\ inHand' = NoEvent /\ failed' = failed \union {inHand.at}
    /\ UNCHANGED <<vars, journey, outcome, byHand, topic, committed, position, handled, faults>>

\* The handler's transaction fails: logged, and on to the next event.
HandleError ==
    /\ Fault
    /\ inHand # NoEvent /\ ~inHand.done
    /\ inHand' = NoEvent /\ failed' = failed \union {inHand.at}
    /\ UNCHANGED <<vars, journey, outcome, byHand, topic, committed, position, handled>>

\* Mistake: the offset of the next event is committed.
CommitMessageNext ==
    /\ inHand # NoEvent /\ inHand.done
    /\ committed' = [committed EXCEPT ![inHand.at[1]] = inHand.at[2] + 1]
    /\ inHand' = NoEvent
    /\ UNCHANGED <<vars, journey, outcome, byHand, topic, position, handled, failed, faults>>

CommitMessage ==
    /\ inHand # NoEvent /\ inHand.done
    /\ committed' = [committed EXCEPT ![inHand.at[1]] = inHand.at[2]]
    /\ inHand' = NoEvent
    /\ UNCHANGED <<vars, journey, outcome, byHand, topic, position, handled, failed, faults>>

CommitError ==
    /\ Fault
    /\ inHand # NoEvent /\ inHand.done
    /\ inHand' = NoEvent
    /\ UNCHANGED <<vars, journey, outcome, byHand, topic, committed, position, handled, failed>>

\* Mistake: the group starts at the end of the topic.
ResumeAtEnd == [k \in Partitions |-> Len(topic[k])]
\* Where a worker begins.
ResumePosition == committed

\* The worker stops or dies and starts again.
WorkerRestart ==
    /\ Fault
    /\ inHand # NoEvent \/ position # committed
    /\ inHand' = NoEvent /\ position' = ResumePosition
    /\ UNCHANGED <<vars, journey, outcome, byHand, topic, committed, handled, failed>>

-----------------------------------------------------------------------------

CronOrClock ==
    /\ \/ \E c \in Crons : CronStep(c)
       \/ \E t \in RequestTimes : DepartureSweep(t)
       \/ Tick
    /\ UNCHANGED <<journey, outcome, byHand, kafkaVars>>

CarryPayment(p) ==
    \/ PaymentLost(p)
    \/ \E status \in CallbackStatus : DrawOutcome(p, status)
    \/ PostCallback(p)

PipeNext ==
    \/ RequestPayment
    \/ \E p \in PaymentIds : CarryPayment(p)
    \/ \E p \in PaymentIds, status \in PostedStatus : PostByHand(p, status)
    \/ \E k \in Partitions : FetchMessage(k)
    \/ HandleMessage \/ HandleUnknown \/ HandleError \/ CommitMessage \/ CommitError \/ WorkerRestart
    \/ CronOrClock

PipeSpec == PipeInit /\ [][PipeNext]_pipeVars

\* A running worker fetches from every partition and finishes what it has in
\* hand; its failures and restarts do not go on for ever.  Nothing obliges a
\* payment to be carried to its end.
FairPipeSpec ==
    /\ PipeSpec
    /\ \A k \in Partitions : SF_pipeVars(FetchMessage(k))
    /\ WF_pipeVars(HandleMessage \/ HandleUnknown \/ HandleError)
    /\ WF_pipeVars(CommitMessage \/ CommitError)

-----------------------------------------------------------------------------
(* Properties.                                                             *)

Offsets(k) == {<<k, i>> : i \in 1..Len(topic[k])}
Enqueued == UNION {Offsets(k) : k \in Partitions}

\* Offsets name events, the worker is ahead of what is committed, and a
\* payment that is being carried is in the database.
PipeTypeOK ==
    /\ TypeOK
    /\ journey \in [PaymentIds -> Stages]
    /\ \A p \in PaymentIds : journey[p] # "none" <=> p \in DOMAIN payments
    /\ DOMAIN outcome \subseteq DOMAIN payments /\ \A p \in DOMAIN outcome : outcome[p] \in CallbackStatus
    /\ byHand \in Seq(Event)
    /\ topic \in [Partitions -> Seq(Event)]
    /\ committed \in [Partitions -> Nat] /\ position \in [Partitions -> Nat]
    /\ \A k \in Partitions : committed[k] <= position[k] /\ position[k] <= Len(topic[k])
    /\ inHand = NoEvent \/ inHand \in [at : Enqueued, done : BOOLEAN]
    /\ handled \subseteq Enqueued /\ failed \subseteq Enqueued

\* What the database says of a payment is what was said of it last: posts may
\* contradict each other, but they are applied in the order in which they were
\* enqueued, and neither a redelivery after a restart nor a failure leaves an
\* older word standing.  (Unless the handler failed on the last event; and while
\* there is more to fetch, an older event may just have been handled again.)
RowTellsLastPost ==
    inHand = NoEvent /\ (\A k \in Partitions : position[k] = Len(topic[k])) =>
        \A x \in Enqueued :
            LET p == EventAt(x).p
                later == {y \in Enqueued : EventAt(y).p = p /\ y[1] = x[1] /\ y[2] > x[2]}
            IN  later = {} => x \in failed \/ payments[p].status = EventAt(x).status

\* Delivery is at least once, and a second delivery does no harm: an event whose
\* payment has had events handled, all of the same status as this one, be they
\* duplicate posts or the same event before a crash, leaves every table as it is.
\* (It may log a refund: see TicketNotRefunded.)
RedeliveryIsNoOp ==
    [][inHand # NoEvent /\ inHand' # NoEvent =>
           LET event == EventAt(inHand.at)
               before == {EventAt(x).status : x \in {y \in handled : EventAt(y).p = event.p}}
           IN  before = {event.status} => UNCHANGED <<flights, bookings, payments, cleanup>>]_inHand

\* An event that the group has committed, or committed past, was given to the
\* handler: crashes and restarts alone lose nothing.
CommittedWasTried ==
    \A k \in Partitions : \A i \in 1..committed[k] : <<k, i>> \in handled \union failed

\* Every success event that is enqueued ends in a confirmed booking or in a
\* refund, unless the handler failed on it, and however often the worker
\* is restarted.
PaidIsSettled ==
    \A p \in PaymentIds :
        (\E x \in Enqueued : EventAt(x) = [p |-> p, status |-> "SUCCESS"]) ~>
            \/ p \in refunded
            \/ \E b \in DOMAIN bookings : bookings[b].status = "CONFIRMED" /\ bookings[b].active = p
            \/ \E x \in failed : EventAt(x).p = p

\* A success that the handler has accepted is settled from that moment on: it
\* bought the booking it was for, or it is refunded, whichever of duplicates,
\* retries, expiries and restarts came before it or come after.
HandledIsSettled ==
    \A x \in handled :
        LET p == EventAt(x).p
            bi == bookings[payments[p].booking]
        IN  EventAt(x).status = "SUCCESS" =>
                p \in refunded \/ (bi.status = "CONFIRMED" /\ bi.active = p)

\* Nothing is given for nothing: the customer of a confirmed booking has paid
\* for it, on the attempt that the booking names, and only money that was paid
\* is paid back.  (Paid is what the payment server drew, or what somebody posted
\* in its place: the api cannot tell one from the other.)
OnlyPaidIsSettled ==
    LET paid == {p \in DOMAIN outcome : outcome[p] = "SUCCESS"}
                    \union {event.p : event \in {e \in Range(byHand) : e.status = "SUCCESS"}}
    IN  /\ \A b \in DOMAIN bookings :
              bookings[b].status = "CONFIRMED" => bookings[b].active \in paid
        /\ refunded \subseteq paid

(* What the documents say and the code does not do. *)

\* LLD.md:880 "Message is not committed - will be retried": an event that the
\* group has committed past was handled.
CommittedWasHandled ==
    \A k \in Partitions : \A i \in 1..committed[k] : <<k, i>> \in handled

\* HLD.md:766 "Same PI -> duplicate, no-op": a second delivery of the success
\* that bought a ticket does not refund it.
TicketNotRefunded ==
    \A b \in DOMAIN bookings :
        bookings[b].status = "CONFIRMED" => bookings[b].active \notin refunded
=============================================================================
