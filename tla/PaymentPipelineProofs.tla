------------------------ MODULE PaymentPipelineProofs ------------------------
(***************************************************************************)
(* Proofs about PaymentPipeline.  The pipeline implements BookingStore, so *)
(* the theorems of BookingStoreProofs hold of it; what its own properties  *)
(* add is proved from the invariants of the worker and of the events.      *)
(***************************************************************************)
EXTENDS PaymentPipeline, BookingStoreProofs

-----------------------------------------------------------------------------
(* What a step of the database does to the payment attempts.               *)

\* Attempt q is recorded as paid or failed, and so it was before.
RecordedBefore(q) == q \in DOMAIN payments /\ payments[q].status = payments'[q].status
KeepsRecords(ids) ==
    /\ \A q \in DOMAIN payments' \ ids :
           payments'[q].status \in CallbackStatus => RecordedBefore(q)
    /\ \A q \in DOMAIN payments \ ids :
           payments[q].status \in CallbackStatus =>
               q \in DOMAIN payments' /\ payments'[q].status = payments[q].status

\* A request opens one attempt and records nothing.
LEMMA OpenedRecords ==
    ASSUME TypeOK, NEW b \in BookingIds, NEW p \in PaymentIds, NEW t \in RequestTimes,
           \/ \E f \in Flights, list \in SeatRequests : CreateBooking(b, p, f, list, t)
           \/ RetryPayment(b, p, t)
    PROVE  /\ DOMAIN payments' = DOMAIN payments \union {p} /\ p \notin DOMAIN payments
           /\ KeepsRecords({})
           /\ \A a \in DOMAIN bookings' \ DOMAIN bookings : bookings'[a].status = "PENDING"
  <1>1. /\ payments' = Insert(payments, p, [booking |-> b, status |-> "INITIATED"])
        /\ p \notin DOMAIN payments
    BY DEF CreateBooking, RetryPayment
  <1>2. /\ DOMAIN payments' = DOMAIN payments \union {p}
        /\ payments'[p].status = "INITIATED"
        /\ \A q \in DOMAIN payments : payments'[q] = payments[q]
    BY <1>1 DEF Insert
  <1>3. KeepsRecords({})
    BY <1>2 DEF KeepsRecords, RecordedBefore, CallbackStatus
  <1>4. \A a \in DOMAIN bookings' \ DOMAIN bookings : bookings'[a].status = "PENDING"
    BY DEF CreateBooking, RetryPayment, Insert
  <1> QED
    BY <1>1, <1>2, <1>3, <1>4

\* A callback records its own status and leaves other records alone.
LEMMA CallbackRecords ==
    ASSUME TypeOK, NEW p \in PaymentIds, NEW status \in CallbackStatus,
           ProcessPaymentCallback(p, status)
    PROVE  /\ DOMAIN payments' = DOMAIN payments /\ p \in DOMAIN payments
           /\ payments'[p].status = status
           /\ KeepsRecords({p})
           /\ DOMAIN bookings' = DOMAIN bookings
  <1>1. PICK b : p \in DOMAIN payments /\ b = payments[p].booking
    BY DEF ProcessPaymentCallback
  <1>2. CASE status = "SUCCESS" /\ ConfirmBooking(p)
    BY <1>1, <1>2, ConfirmPayments DEF SameOwners, KeepsRecords, RecordedBefore, CallbackStatus
  <1>3. CASE status = "FAILED" /\ FailBooking(p)
    BY <1>1, <1>3, FailPayments DEF SameOwners, KeepsRecords, RecordedBefore, CallbackStatus
  <1>4. CASE StaleCallback(p, status) \/ TerminalCallback(p, status)
    BY <1>1, <1>4, RecordPayments DEF SameOwners, KeepsRecords, RecordedBefore, CallbackStatus
  <1> QED
    BY <1>2, <1>3, <1>4 DEF ProcessPaymentCallback

\* The crons and the clock record nothing.
LEMMA CronRecords ==
    ASSUME TypeOK,
           \/ \E c \in Crons : CronStep(c)
           \/ \E t \in RequestTimes : DepartureSweep(t)
           \/ Tick
           \/ UNCHANGED vars
    PROVE  /\ DOMAIN payments' = DOMAIN payments
           /\ KeepsRecords({})
           /\ DOMAIN bookings' = DOMAIN bookings
  <1> DEFINE Goal == /\ DOMAIN payments' = DOMAIN payments
                     /\ KeepsRecords({})
                     /\ DOMAIN bookings' = DOMAIN bookings
  <1>1. ASSUME UNCHANGED <<bookings, payments>> PROVE Goal
    BY <1>1 DEF KeepsRecords, RecordedBefore
  <1>2. ASSUME NEW c \in Crons, ExpireBooking(c) PROVE Goal
    <2>1. PICK b : b = Head(batch[c])
      OBVIOUS
    <2> QED
      BY <1>2, <2>1, ExpirePayments DEF SameOwners, KeepsRecords, RecordedBefore, CallbackStatus
  <1>3. ASSUME NEW c \in Crons, CronStep(c), ~ExpireBooking(c) PROVE Goal
    BY <1>1, <1>3 DEF CronStep, RunCleanup, ProcessCleanupRow, CleanupDecided,
       CleanupExtended, CleanupRowError, CronCrash
  <1>4. CASE (\E t \in RequestTimes : DepartureSweep(t)) \/ Tick \/ UNCHANGED vars
    BY <1>1, <1>4 DEF DepartureSweep, Tick, vars
  <1> QED
    BY <1>2, <1>3, <1>4

-----------------------------------------------------------------------------
(* Refinement.                                                             *)

\* An enqueued event has a place in a partition and is well formed.
LEMMA EventType ==
    ASSUME topic \in [Partitions -> Seq(Event)], NEW x \in Enqueued
    PROVE  /\ x = <<x[1], x[2]>> /\ x[1] \in Partitions
           /\ x[2] \in Nat \ {0} /\ x[2] <= Len(topic[x[1]])
           /\ EventAt(x) \in Event
  <1>1. PICK k \in Partitions : x \in Offsets(k)
    BY DEF Enqueued
  <1>2. PICK i \in 1..Len(topic[k]) : x = <<k, i>>
    BY <1>1 DEF Offsets
  <1>3. topic[k] \in Seq(Event)
    OBVIOUS
  <1>4. Len(topic[k]) \in Nat /\ i \in Nat \ {0} /\ i <= Len(topic[k])
    BY <1>3
  <1>5. topic[k][i] \in Event
    BY <1>3, <1>4, ElementOfSeq
  <1> QED
    BY <1>2, <1>4, <1>5 DEF EventAt

\* Every step of the pipeline is a transaction of the database or leaves the
\* database as it is.
LEMMA PipeStep == PipeTypeOK /\ [PipeNext]_pipeVars => [Next]_vars
  <1> SUFFICES ASSUME PipeTypeOK, [PipeNext]_pipeVars PROVE [Next]_vars
    OBVIOUS
  <1>1. CASE RequestPayment
    BY <1>1 DEF RequestPayment, Next
  <1>2. ASSUME NEW p \in PaymentIds, CarryPayment(p) PROVE UNCHANGED vars
    BY <1>2 DEF CarryPayment, PaymentLost, DrawOutcome, PostCallback
  <1>3. ASSUME NEW k \in Partitions, FetchMessage(k) PROVE UNCHANGED vars
    BY <1>3 DEF FetchMessage
  <1>4. CASE HandleMessage
    <2>1. PICK event : /\ event = EventAt(inHand.at) /\ event.status \in CallbackStatus
                       /\ ProcessPaymentCallback(event.p, event.status)
      BY <1>4 DEF HandleMessage
    <2>2. inHand.at \in Enqueued /\ topic \in [Partitions -> Seq(Event)]
      BY <1>4 DEF HandleMessage, PipeTypeOK
    <2>3. event.p \in PaymentIds /\ event.status \in CallbackStatus
      BY <2>1, <2>2, EventType DEF Event
    <2> QED
      BY <2>1, <2>3 DEF Next
  <1>5. CASE HandleUnknown \/ HandleError \/ CommitMessage \/ CommitError \/ WorkerRestart
    BY <1>5 DEF HandleUnknown, HandleError, CommitMessage, CommitError, WorkerRestart
  <1>6. CASE CronOrClock
    BY <1>6 DEF CronOrClock, Next
  <1>7. CASE UNCHANGED pipeVars
    BY <1>7 DEF pipeVars
  <1>8. ASSUME NEW p \in PaymentIds, NEW status \in PostedStatus, PostByHand(p, status)
        PROVE  UNCHANGED vars
    BY <1>8 DEF PostByHand
  <1> QED
    BY <1>1, <1>2, <1>3, <1>4, <1>5, <1>6, <1>7, <1>8 DEF PipeNext

-----------------------------------------------------------------------------
(* Types.                                                                  *)

\* The event in hand is the last one fetched from its partition.
InHandIsLast == inHand # NoEvent => inHand.at[2] = position[inHand.at[1]]

\* A post adds to the partition of its payment at most its event, at the end.
LEMMA TopicGrows ==
    ASSUME PipeTypeOK, NEW event \in Event, Publish(event) \/ UNCHANGED topic
    PROVE  /\ topic' \in [Partitions -> Seq(Event)]
           /\ \A k \in Partitions :
                 /\ Len(topic[k]) \in Nat /\ Len(topic'[k]) \in Nat
                 /\ Len(topic[k]) <= Len(topic'[k])
           /\ \A k \in Partitions : \A i \in 1..Len(topic[k]) : topic'[k][i] = topic[k][i]
           /\ \A k \in Partitions : \A i \in 1..Len(topic'[k]) :
                  i > Len(topic[k]) => topic'[k][i] = event /\ k = PartitionOf[event.p]
  <1> DEFINE home == PartitionOf[event.p]
  <1>1. topic \in [Partitions -> Seq(Event)] /\ home \in Partitions
    BY PipelineAssumption DEF PipeTypeOK, Event
  <1>2. \A k \in Partitions : Len(topic[k]) \in Nat
    BY <1>1
  <1>3. CASE UNCHANGED topic
    BY <1>1, <1>2, <1>3
  <1>4. CASE Publish(event)
    <2>1. topic' = [topic EXCEPT ![home] = Append(topic[home], event)]
      BY <1>4 DEF Publish, HomeOf
    <2> HIDE DEF home
    <2>2. topic'[home] = Append(topic[home], event) /\ \A k \in Partitions : k # home => topic'[k] = topic[k]
      BY <1>1, <2>1
    <2>3. /\ Append(topic[home], event) \in Seq(Event)
          /\ Len(Append(topic[home], event)) = Len(topic[home]) + 1
          /\ \A i \in 1..Len(topic[home]) : Append(topic[home], event)[i] = topic[home][i]
          /\ Append(topic[home], event)[Len(topic[home]) + 1] = event
      BY <1>1
    <2>4. topic' \in [Partitions -> Seq(Event)]
      BY <1>1, <2>1, <2>3
    <2>5. ASSUME NEW k \in Partitions
          PROVE  /\ Len(topic[k]) \in Nat /\ Len(topic'[k]) \in Nat
                 /\ Len(topic[k]) <= Len(topic'[k])
                 /\ \A i \in 1..Len(topic[k]) : topic'[k][i] = topic[k][i]
                 /\ \A i \in 1..Len(topic'[k]) : i > Len(topic[k]) => topic'[k][i] = event /\ k = home
      <3>1. CASE k = home
        <4>1. Len(topic'[k]) = Len(topic[k]) + 1
          BY <2>2, <2>3, <3>1
        <4>2. \A i \in 1..Len(topic'[k]) : i > Len(topic[k]) => i = Len(topic[k]) + 1
          BY <1>2, <4>1
        <4> QED
          BY <1>2, <2>2, <2>3, <3>1, <4>1, <4>2
      <3>2. CASE k # home
        BY <1>2, <2>2, <3>2
      <3> QED
        BY <3>1, <3>2
    <2> QED
      BY <2>4, <2>5 DEF home
  <1> QED
    BY <1>3, <1>4

\* What is enqueued stays where it is, and what is new is what was posted.
LEMMA EnqueuedGrows ==
    ASSUME PipeTypeOK, NEW event \in Event, Publish(event) \/ UNCHANGED topic
    PROVE  /\ \A x \in Enqueued : x \in Enqueued' /\ EventAt(x)' = EventAt(x)
           /\ \A x \in Enqueued' \ Enqueued :
                 EventAt(x)' = event /\ x[1] = PartitionOf[event.p] /\ x[2] > Len(topic[x[1]])
  <1>1. ASSUME NEW x \in Enqueued PROVE x \in Enqueued' /\ EventAt(x)' = EventAt(x)
    <2>1. PICK k \in Partitions : x \in Offsets(k)
      BY DEF Enqueued
    <2>2. PICK i \in 1..Len(topic[k]) : x = <<k, i>>
      BY <2>1 DEF Offsets
    <2>3. /\ Len(topic[k]) \in Nat /\ Len(topic'[k]) \in Nat
          /\ Len(topic[k]) <= Len(topic'[k]) /\ topic'[k][i] = topic[k][i]
      BY TopicGrows
    <2>4. i \in 1..Len(topic'[k])
      BY <2>3
    <2> QED
      BY <2>2, <2>3, <2>4 DEF Enqueued, Offsets, EventAt
  <1>2. ASSUME NEW x \in Enqueued', x \notin Enqueued
        PROVE  EventAt(x)' = event /\ x[1] = PartitionOf[event.p] /\ x[2] > Len(topic[x[1]])
    <2>1. PICK k \in Partitions : x \in Offsets(k)'
      BY DEF Enqueued
    <2>2. PICK i \in 1..Len(topic'[k]) : x = <<k, i>>
      BY <2>1 DEF Offsets
    <2>3. i \notin 1..Len(topic[k])
      BY <1>2, <2>2 DEF Enqueued, Offsets
    <2>4. Len(topic[k]) \in Nat /\ Len(topic'[k]) \in Nat
      BY TopicGrows
    <2>5. i > Len(topic[k])
      BY <2>3, <2>4
    <2>6. topic'[k][i] = event /\ k = PartitionOf[event.p]
      BY <2>5, TopicGrows
    <2> QED
      BY <2>2, <2>5, <2>6 DEF EventAt
  <1> QED
    BY <1>1, <1>2

\* A payment has an outcome from the moment it is drawn, and not before.
OutcomeDrawn ==
    \A p \in PaymentIds :
        /\ journey[p] \in {"posting", "reposting"} => p \in DOMAIN outcome
        /\ journey[p] \in {"none", "charging"} => p \notin DOMAIN outcome

PipeType == PipeTypeOK /\ InHandIsLast /\ OutcomeDrawn

\* While nothing is enqueued and no payment travels, the types are those of
\* the database and of the worker's own variables.
LEMMA WorkerType ==
    ASSUME PipeType, TypeOK', DOMAIN payments' = DOMAIN payments,
           UNCHANGED <<journey, outcome, byHand, topic>>,
           committed' \in [Partitions -> Nat], position' \in [Partitions -> Nat],
           \A k \in Partitions : committed'[k] <= position'[k] /\ position'[k] <= Len(topic[k]),
           inHand' = NoEvent \/ inHand' \in [at : Enqueued, done : BOOLEAN],
           inHand' # NoEvent => inHand'.at[2] = position'[inHand'.at[1]],
           handled' \subseteq Enqueued, failed' \subseteq Enqueued
    PROVE  PipeType'
  <1>1. Enqueued' = Enqueued
    BY DEF Enqueued, Offsets
  <1> QED
    BY <1>1 DEF PipeType, PipeTypeOK, InHandIsLast, OutcomeDrawn

\* The event in hand has been fetched and is enqueued.
LEMMA HandType ==
    ASSUME PipeType, inHand # NoEvent
    PROVE  /\ inHand \in [at : Enqueued, done : BOOLEAN]
           /\ inHand.at = <<inHand.at[1], inHand.at[2]>> /\ inHand.at[1] \in Partitions
           /\ inHand.at[2] = position[inHand.at[1]] /\ inHand.at \in Enqueued
           /\ EventAt(inHand.at) \in Event
  <1>1. inHand.at \in Enqueued /\ inHand \in [at : Enqueued, done : BOOLEAN]
    BY DEF PipeType, PipeTypeOK
  <1>2. topic \in [Partitions -> Seq(Event)]
    BY DEF PipeType, PipeTypeOK
  <1> QED
    BY <1>1, <1>2, EventType DEF PipeType, InHandIsLast

\* A post keeps the types of the queue.
LEMMA PostType ==
    ASSUME PipeType, TypeOK', OutcomeDrawn', NEW event \in Event, Publish(event) \/ UNCHANGED topic,
           payments' = payments, UNCHANGED <<committed, position, inHand, handled, failed>>,
           journey' \in [PaymentIds -> Stages], byHand' \in Seq(Event),
           \A q \in PaymentIds : journey'[q] # "none" <=> q \in DOMAIN payments,
           UNCHANGED outcome
    PROVE  PipeType'
  <1>1. /\ topic' \in [Partitions -> Seq(Event)]
        /\ \A k \in Partitions : /\ Len(topic[k]) \in Nat /\ Len(topic'[k]) \in Nat
                                  /\ Len(topic[k]) <= Len(topic'[k])
    BY TopicGrows DEF PipeType
  <1>2. Enqueued \subseteq Enqueued'
    BY EnqueuedGrows DEF PipeType
  <1>3. \A k \in Partitions : position[k] <= Len(topic'[k])
    BY <1>1 DEF PipeType, PipeTypeOK
  <1>4. inHand = NoEvent \/ inHand \in [at : Enqueued', done : BOOLEAN]
    BY <1>2 DEF PipeType, PipeTypeOK
  <1> QED
    BY <1>1, <1>2, <1>3, <1>4 DEF PipeType, PipeTypeOK, InHandIsLast

LEMMA RequestType ==
    ASSUME PipeType, TypeOK', RequestPayment
    PROVE  PipeType'
  <1>1. PICK b \in BookingIds, p \in PaymentIds, t \in RequestTimes :
           /\ \/ \E f \in Flights, list \in SeatRequests : CreateBooking(b, p, f, list, t)
              \/ RetryPayment(b, p, t)
           /\ Advance(p, "none", "charging")
    BY DEF RequestPayment
  <1>2. DOMAIN payments' = DOMAIN payments \union {p}
    BY <1>1, OpenedRecords DEF PipeType, PipeTypeOK
  <1>3. journey' = [journey EXCEPT ![p] = "charging"] /\ journey[p] = "none"
    BY <1>1 DEF Advance
  <1>4. UNCHANGED <<outcome, byHand, topic, committed, position, inHand, handled, failed>>
    BY DEF RequestPayment, kafkaVars
  <1>5. Enqueued' = Enqueued
    BY <1>4 DEF Enqueued, Offsets
  <1>6. journey' \in [PaymentIds -> Stages] /\ \A q \in PaymentIds : journey'[q] # "none" <=> q \in DOMAIN payments'
    BY <1>2, <1>3 DEF PipeType, PipeTypeOK, Stages
  <1>7. DOMAIN outcome \subseteq DOMAIN payments'
    BY <1>2 DEF PipeType, PipeTypeOK
  <1>8. OutcomeDrawn'
    BY <1>3, <1>4 DEF PipeType, PipeTypeOK, OutcomeDrawn
  <1> QED
    BY <1>4, <1>5, <1>6, <1>7, <1>8 DEF PipeType, PipeTypeOK, InHandIsLast

LEMMA CarryType ==
    ASSUME PipeType, TypeOK', NEW p \in PaymentIds, CarryPayment(p)
    PROVE  PipeType'
  <1>0. /\ payments' = payments /\ UNCHANGED <<committed, position, inHand, handled, failed>>
        /\ journey \in [PaymentIds -> Stages]
    BY DEF CarryPayment, PaymentLost, DrawOutcome, PostCallback, vars, kafkaVars, PipeType, PipeTypeOK
  <1>1. /\ journey' \in [PaymentIds -> Stages]
        /\ \A q \in PaymentIds : journey'[q] # "none" <=> q \in DOMAIN payments
    BY <1>0 DEF PipeType, PipeTypeOK, CarryPayment, PaymentLost, DrawOutcome, PostCallback, Advance, Stages
  <1>2. CASE PaymentLost(p)
    <2>1. Enqueued' = Enqueued /\ UNCHANGED <<outcome, byHand, topic>>
      BY <1>2 DEF PaymentLost, kafkaVars, Enqueued, Offsets
    <2>2. OutcomeDrawn'
      BY <1>0, <1>2, <2>1 DEF PaymentLost, PipeType, OutcomeDrawn
    <2> QED
      BY <1>0, <1>1, <2>1, <2>2 DEF PipeType, PipeTypeOK, InHandIsLast
  <1>3. ASSUME NEW status \in CallbackStatus, DrawOutcome(p, status) PROVE PipeType'
    <2>1. Enqueued' = Enqueued /\ UNCHANGED <<byHand, topic>>
      BY <1>3 DEF DrawOutcome, kafkaVars, Enqueued, Offsets
    <2>2. /\ outcome' = Insert(outcome, p, status) /\ journey[p] = "charging"
          /\ journey' = [journey EXCEPT ![p] = "posting"]
      BY <1>3 DEF DrawOutcome, Advance
    <2>3. /\ DOMAIN outcome' \subseteq DOMAIN payments
          /\ \A q \in DOMAIN outcome' : outcome'[q] \in CallbackStatus
      BY <2>2 DEF Insert, PipeType, PipeTypeOK
    <2>4. OutcomeDrawn'
      BY <1>0, <2>2 DEF Insert, PipeType, OutcomeDrawn
    <2> QED
      BY <1>0, <1>1, <2>1, <2>3, <2>4 DEF PipeType, PipeTypeOK, InHandIsLast
  <1>4. CASE PostCallback(p)
    <2>1. PICK event : /\ event = [p |-> p, status |-> outcome[p]]
                       /\ Publish(event) \/ UNCHANGED topic
                       /\ p \in DOMAIN outcome /\ UNCHANGED <<outcome, byHand>>
      BY <1>4 DEF PostCallback, Advance, PipeType, OutcomeDrawn
    <2>2. event \in Event
      BY <2>1 DEF PipeType, PipeTypeOK, Event, PostedStatus
    <2>3. OutcomeDrawn'
      BY <1>0, <1>4, <2>1 DEF PostCallback, Advance, PipeType, OutcomeDrawn
    <2> QED
      BY <1>0, <1>1, <2>1, <2>2, <2>3, PostType DEF PipeType, PipeTypeOK
  <1> QED
    BY <1>2, <1>3, <1>4 DEF CarryPayment

LEMMA ByHandType ==
    ASSUME PipeType, TypeOK', NEW p \in PaymentIds, NEW status \in PostedStatus, PostByHand(p, status)
    PROVE  PipeType'
  <1>0. [p |-> p, status |-> status] \in Event
    BY DEF Event
  <1>1. PICK event \in Event : event = [p |-> p, status |-> status]
    BY <1>0
  <1>2. /\ Publish(event) /\ byHand' = Append(byHand, event)
        /\ UNCHANGED <<payments, journey, outcome, committed, position, inHand, handled, failed>>
    BY <1>1 DEF PostByHand, vars
  <1>3. byHand' \in Seq(Event)
    BY <1>1, <1>2 DEF PipeType, PipeTypeOK
  <1>4. OutcomeDrawn'
    BY <1>2 DEF PipeType, OutcomeDrawn
  <1> QED
    BY <1>1, <1>2, <1>3, <1>4, PostType DEF PipeType, PipeTypeOK

LEMMA FetchType ==
    ASSUME PipeType, TypeOK', NEW k \in Partitions, FetchMessage(k)
    PROVE  PipeType'
  <1>1. /\ position \in [Partitions -> Nat] /\ committed \in [Partitions -> Nat]
        /\ topic \in [Partitions -> Seq(Event)]
        /\ \A j \in Partitions : committed[j] <= position[j] /\ position[j] <= Len(topic[j])
        /\ handled \subseteq Enqueued /\ failed \subseteq Enqueued
    BY DEF PipeType, PipeTypeOK
  <1>2. /\ position[k] < Len(topic[k]) /\ position' = [position EXCEPT ![k] = position[k] + 1]
        /\ inHand' = [at |-> <<k, position[k] + 1>>, done |-> FALSE]
        /\ UNCHANGED <<payments, journey, outcome, byHand, topic, committed, handled, failed>>
    BY DEF FetchMessage, vars
  <1>3. Len(topic[k]) \in Nat
    BY <1>1
  <1>4. <<k, position[k] + 1>> \in Enqueued
    BY <1>1, <1>2, <1>3 DEF Enqueued, Offsets
  <1>5. /\ position' \in [Partitions -> Nat]
        /\ \A j \in Partitions : committed'[j] <= position'[j] /\ position'[j] <= Len(topic[j])
    BY <1>1, <1>2, <1>3
  <1>6. /\ inHand' \in [at : Enqueued, done : BOOLEAN]
        /\ inHand'.at[2] = position'[inHand'.at[1]]
    BY <1>1, <1>2, <1>4
  <1> QED
    BY <1>1, <1>2, <1>5, <1>6, WorkerType

LEMMA HandleType ==
    ASSUME PipeType, TypeOK', HandleMessage
    PROVE  PipeType'
  <1>1. PICK event : /\ event = EventAt(inHand.at) /\ event.status \in CallbackStatus
                     /\ ProcessPaymentCallback(event.p, event.status)
    BY DEF HandleMessage
  <1>2. event.p \in PaymentIds
    BY <1>1, HandType DEF HandleMessage, Event
  <1>3. DOMAIN payments' = DOMAIN payments
    BY <1>1, <1>2, CallbackRecords DEF PipeType, PipeTypeOK
  <1>4. /\ inHand' = [inHand EXCEPT !.done = TRUE] /\ handled' = handled \union {inHand.at}
        /\ UNCHANGED <<journey, outcome, byHand, topic, committed, position, failed>>
    BY DEF HandleMessage
  <1>5. /\ inHand \in [at : Enqueued, done : BOOLEAN] /\ inHand.at \in Enqueued
        /\ inHand.at[2] = position[inHand.at[1]]
    BY HandType DEF HandleMessage
  <1>6. inHand' \in [at : Enqueued, done : BOOLEAN] /\ inHand'.at = inHand.at
    BY <1>4, <1>5
  <1> QED
    BY <1>3, <1>4, <1>5, <1>6, WorkerType DEF PipeType, PipeTypeOK

\* The steps that only move the worker: an error, a commit or a restart.
WorkerMove == HandleUnknown \/ HandleError \/ CommitMessage \/ CommitError \/ WorkerRestart

LEMMA WorkerMoves ==
    ASSUME PipeType, WorkerMove
    PROVE  /\ UNCHANGED <<vars, journey, outcome, byHand, topic, handled>> /\ inHand' = NoEvent
           /\ committed' \in [Partitions -> Nat] /\ position' \in [Partitions -> Nat]
           /\ \A k \in Partitions : committed'[k] <= position'[k] /\ position'[k] <= position[k]
           /\ failed \subseteq failed' /\ failed' \subseteq Enqueued
  <1>0. /\ committed \in [Partitions -> Nat] /\ position \in [Partitions -> Nat]
        /\ \A k \in Partitions : committed[k] <= position[k]
        /\ failed \subseteq Enqueued
    BY DEF PipeType, PipeTypeOK
  <1>1. CASE HandleUnknown \/ HandleError
    BY <1>0, <1>1, HandType DEF HandleUnknown, HandleError
  <1>2. CASE CommitMessage
    BY <1>0, <1>2, HandType DEF CommitMessage
  <1>3. CASE CommitError
    BY <1>0, <1>3 DEF CommitError
  <1>4. CASE WorkerRestart
    BY <1>0, <1>4 DEF WorkerRestart, ResumePosition
  <1> QED
    BY <1>1, <1>2, <1>3, <1>4 DEF WorkerMove

LEMMA WorkerMoveType ==
    ASSUME PipeType, TypeOK', WorkerMove
    PROVE  PipeType'
  <1>1. /\ UNCHANGED <<payments, journey, outcome, byHand, topic, handled>> /\ inHand' = NoEvent
        /\ committed' \in [Partitions -> Nat] /\ position' \in [Partitions -> Nat]
        /\ \A k \in Partitions : committed'[k] <= position'[k] /\ position'[k] <= position[k]
        /\ failed' \subseteq Enqueued
    BY WorkerMoves DEF vars
  <1>2. \A k \in Partitions : position'[k] <= Len(topic[k])
    <2>1. /\ \A k \in Partitions : position[k] <= Len(topic[k]) /\ position[k] \in Nat
          /\ \A k \in Partitions : Len(topic[k]) \in Nat
      BY DEF PipeType, PipeTypeOK
    <2> QED
      BY <1>1, <2>1
  <1> QED
    BY <1>1, <1>2, WorkerType DEF PipeType, PipeTypeOK

LEMMA PipeTypeStep == PipeType /\ [PipeNext]_pipeVars => PipeType'
  <1> SUFFICES ASSUME PipeType, [PipeNext]_pipeVars PROVE PipeType'
    OBVIOUS
  <1>0. TypeOK'
    BY PipeStep, StepType DEF PipeType, PipeTypeOK
  <1>1. ASSUME UNCHANGED <<journey, outcome, byHand, topic, committed, position, inHand, handled, failed>>,
               DOMAIN payments' = DOMAIN payments
        PROVE  PipeType'
    <2>1. Enqueued' = Enqueued
      BY <1>1 DEF Enqueued, Offsets
    <2> QED
      BY <1>0, <1>1, <2>1 DEF PipeType, PipeTypeOK, InHandIsLast, OutcomeDrawn
  <1>2. CASE CronOrClock
    <2>1. DOMAIN payments' = DOMAIN payments
      BY <1>2, CronRecords DEF CronOrClock, PipeType, PipeTypeOK
    <2> QED
      BY <1>1, <1>2, <2>1 DEF CronOrClock, kafkaVars
  <1>3. CASE UNCHANGED pipeVars
    BY <1>1, <1>3 DEF pipeVars, vars, kafkaVars
  <1> QED
    BY <1>0, <1>2, <1>3, RequestType, CarryType, ByHandType, FetchType, HandleType, WorkerMoveType
       DEF PipeNext, WorkerMove

LEMMA PipeInitType == PipeInit => PipeType
  <1> SUFFICES ASSUME PipeInit PROVE PipeType
    OBVIOUS
  <1>1. TypeOK
    BY InitType DEF PipeInit
  <1>2. DOMAIN payments = {} /\ DOMAIN outcome = {}
    BY DEF PipeInit, Init, EmptyTable
  <1>3. Enqueued = {} /\ \A k \in Partitions : topic[k] \in Seq(Event) /\ Len(topic[k]) = 0
    BY DEF PipeInit, Enqueued, Offsets
  <1> QED
    BY <1>1, <1>2, <1>3 DEF PipeInit, PipeType, PipeTypeOK, InHandIsLast, OutcomeDrawn, Stages

\* The queue, the worker and the travelling payments keep their types, with any
\* number of partitions, payments and restarts.
THEOREM PipeTypeCorrect == PipeSpec => []PipeTypeOK
  <1>1. PipeType => PipeTypeOK
    BY DEF PipeType
  <1> QED
    BY <1>1, PipeInitType, PipeTypeStep, PTL DEF PipeSpec

\* Whatever the network, the queue and the worker do, the database goes through
\* a behaviour of BookingStore: its theorems hold of the whole pipeline.
THEOREM ImplementsStore == PipeSpec => Spec
  <1>1. PipeInit => Init
    BY DEF PipeInit
  <1> QED
    BY <1>1, PipeStep, PipeTypeCorrect, PTL DEF PipeSpec, Spec

\* And so, whatever becomes of the callbacks, seats are sold as SeatSale says.
THEOREM PipelineSellsSeats == PipeSpec => SellsSeats
  BY ImplementsStore, SeatsAreSold

-----------------------------------------------------------------------------
(* The worker.                                                             *)

\* Every fetched event was given to the handler or is in hand, and the one in
\* hand was handled once it is done.
FetchedWasTried ==
    /\ \A k \in Partitions : \A i \in 1..position[k] :
          \/ <<k, i>> \in handled \union failed
          \/ inHand # NoEvent /\ inHand.at = <<k, i>>
    /\ inHand # NoEvent /\ inHand.done => inHand.at \in handled

WorkerInv == CommittedWasTried /\ FetchedWasTried

LEMMA WorkerStep == PipeType /\ WorkerInv /\ [PipeNext]_pipeVars => WorkerInv'
  <1> SUFFICES ASSUME PipeType, WorkerInv, [PipeNext]_pipeVars PROVE WorkerInv'
    OBVIOUS
  <1>0. /\ committed \in [Partitions -> Nat] /\ position \in [Partitions -> Nat]
        /\ \A k \in Partitions : committed[k] <= position[k]
    BY DEF PipeType, PipeTypeOK
  <1>1. ASSUME UNCHANGED <<committed, position, inHand, handled, failed>> PROVE WorkerInv'
    BY <1>1 DEF WorkerInv, CommittedWasTried, FetchedWasTried
  <1>2. ASSUME NEW k \in Partitions, FetchMessage(k) PROVE WorkerInv'
    <2>1. /\ inHand = NoEvent /\ position' = [position EXCEPT ![k] = position[k] + 1]
          /\ inHand' = [at |-> <<k, position[k] + 1>>, done |-> FALSE]
          /\ UNCHANGED <<committed, handled, failed>>
      BY <1>2 DEF FetchMessage
    <2>2. inHand'.at = <<k, position[k] + 1>> /\ ~inHand'.done
      BY <2>1
    <2>3. inHand' # NoEvent
      <3>1. DOMAIN inHand' # {} /\ DOMAIN NoEvent = {}
        BY <2>1 DEF NoEvent
      <3> QED
        BY <3>1
    <2>4. ASSUME NEW j \in Partitions, NEW i \in 1..position'[j]
          PROVE  <<j, i>> \in handled \union failed \/ inHand'.at = <<j, i>>
      <3>1. CASE i \in 1..position[j]
        BY <2>1, <3>1 DEF WorkerInv, FetchedWasTried
      <3>2. CASE i \notin 1..position[j]
        <4>1. j = k /\ i = position[k] + 1
          BY <1>0, <2>1, <3>2
        <4> QED
          BY <2>2, <4>1
      <3> QED
        BY <3>1, <3>2
    <2> QED
      BY <2>1, <2>2, <2>3, <2>4 DEF WorkerInv, CommittedWasTried, FetchedWasTried
  <1>3. CASE HandleMessage
    <2>1. /\ inHand # NoEvent /\ inHand' = [inHand EXCEPT !.done = TRUE]
          /\ handled' = handled \union {inHand.at} /\ UNCHANGED <<committed, position, failed>>
      BY <1>3 DEF HandleMessage
    <2>2. inHand'.at = inHand.at
      BY <2>1, HandType
    <2>3. \A k \in Partitions : \A i \in 1..position[k] : <<k, i>> \in handled' \union failed
      BY <2>1 DEF WorkerInv, FetchedWasTried
    <2> QED
      BY <2>1, <2>2, <2>3 DEF WorkerInv, CommittedWasTried, FetchedWasTried
  <1>4. CASE WorkerMove
    <2>1. UNCHANGED handled /\ failed \subseteq failed' /\ inHand' = NoEvent
      BY <1>4, WorkerMoves
    <2>2. CASE HandleUnknown \/ HandleError
      <3>1. inHand # NoEvent /\ failed' = failed \union {inHand.at} /\ UNCHANGED <<committed, position>>
        BY <2>2 DEF HandleUnknown, HandleError
      <3> QED
        BY <2>1, <3>1 DEF WorkerInv, CommittedWasTried, FetchedWasTried
    <2>3. CASE CommitMessage \/ CommitError
      <3>1. /\ inHand # NoEvent /\ inHand.done /\ UNCHANGED <<position, failed>>
            /\ \/ committed' = [committed EXCEPT ![inHand.at[1]] = inHand.at[2]]
               \/ committed' = committed
        BY <2>3 DEF CommitMessage, CommitError
      <3>2. \A k \in Partitions : \A i \in 1..position[k] : <<k, i>> \in handled \union failed
        BY <3>1 DEF WorkerInv, FetchedWasTried
      <3>3. \A k \in Partitions : committed'[k] \in Nat /\ committed'[k] <= position[k]
        BY <1>0, <3>1, HandType
      <3>4. \A k \in Partitions : \A i \in 1..committed'[k] : i \in 1..position[k]
        BY <1>0, <3>3
      <3> QED
        BY <2>1, <3>1, <3>2, <3>4 DEF WorkerInv, CommittedWasTried, FetchedWasTried
    <2>4. CASE WorkerRestart
      BY <2>1, <2>4 DEF WorkerRestart, ResumePosition, WorkerInv, CommittedWasTried, FetchedWasTried
    <2> QED
      BY <1>4, <2>2, <2>3, <2>4 DEF WorkerMove
  <1>5. CASE RequestPayment \/ CronOrClock \/ UNCHANGED pipeVars
    BY <1>1, <1>5 DEF RequestPayment, CronOrClock, pipeVars, kafkaVars
  <1>6. ASSUME NEW p \in PaymentIds, CarryPayment(p) PROVE WorkerInv'
    BY <1>1, <1>6 DEF CarryPayment, PaymentLost, DrawOutcome, PostCallback, kafkaVars
  <1>7. ASSUME NEW p \in PaymentIds, NEW status \in PostedStatus, PostByHand(p, status)
        PROVE  WorkerInv'
    BY <1>1, <1>7 DEF PostByHand
  <1> QED
    BY <1>2, <1>3, <1>4, <1>5, <1>6, <1>7 DEF PipeNext, WorkerMove

\* No event is ever committed, or committed past, without having been given to
\* the handler, however often the worker fails and restarts.
THEOREM CommittedEventsWereTried == PipeSpec => []CommittedWasTried
  <1>1. PipeInit => WorkerInv
    BY DEF PipeInit, WorkerInv, CommittedWasTried, FetchedWasTried
  <1>2. WorkerInv => CommittedWasTried
    BY DEF WorkerInv
  <1> QED
    BY <1>1, <1>2, PipeInitType, PipeTypeStep, WorkerStep, PTL DEF PipeSpec

-----------------------------------------------------------------------------
(* The events.                                                             *)

\* What an event says was drawn by the payment server or posted in its place.
Said(event) ==
    \/ event.p \in DOMAIN outcome /\ outcome[event.p] = event.status
    \/ \E i \in DOMAIN byHand : byHand[i] = event
Paid(p) == Said([p |-> p, status |-> "SUCCESS"])

\* Nothing else is enqueued, and all that is said of a payment is in one
\* partition, in the order of the posts.
EventsTell ==
    \A x \in Enqueued : Said(EventAt(x)) /\ x[1] = PartitionOf[EventAt(x).p]

\* What was said stays said: an outcome is drawn once, and posts are not undone.
LEMMA SaidKept ==
    ASSUME PipeType, [PipeNext]_pipeVars, NEW event, Said(event)
    PROVE  Said(event)'
  <1>1. UNCHANGED <<outcome, byHand>> => Said(event)'
    BY DEF Said
  <1>2. ASSUME NEW q \in PaymentIds, NEW status \in CallbackStatus, DrawOutcome(q, status)
        PROVE  Said(event)'
    <2>1. q \notin DOMAIN outcome /\ outcome' = Insert(outcome, q, status) /\ byHand' = byHand
      BY <1>2 DEF DrawOutcome, Advance, PipeType, OutcomeDrawn
    <2> QED
      BY <2>1 DEF Said, Insert
  <1>3. ASSUME NEW q \in PaymentIds, NEW status \in PostedStatus, PostByHand(q, status)
        PROVE  Said(event)'
    <2>1. PICK e : e \in Event /\ byHand' = Append(byHand, e) /\ outcome' = outcome
      BY <1>3 DEF PostByHand, Event
    <2>2. byHand \in Seq(Event)
      BY DEF PipeType, PipeTypeOK
    <2>3. \A i \in DOMAIN byHand : i \in DOMAIN byHand' /\ byHand'[i] = byHand[i]
      BY <2>1, <2>2
    <2> QED
      BY <2>1, <2>3 DEF Said
  <1>4. \/ UNCHANGED <<outcome, byHand>>
        \/ \E q \in PaymentIds, status \in CallbackStatus : DrawOutcome(q, status)
        \/ \E q \in PaymentIds, status \in PostedStatus : PostByHand(q, status)
    BY DEF PipeNext, RequestPayment, CarryPayment, PaymentLost, PostCallback, FetchMessage,
       HandleMessage, HandleUnknown, HandleError, CommitMessage, CommitError, WorkerRestart,
       CronOrClock, pipeVars
  <1> QED
    BY <1>1, <1>2, <1>3, <1>4

\* What is posted is said.
LEMMA PostsAreSaid ==
    ASSUME PipeType, [PipeNext]_pipeVars
    PROVE  \/ UNCHANGED topic
           \/ \E event \in Event : /\ Publish(event) /\ Said(event)'
                                   /\ UNCHANGED <<vars, committed, position, inHand, handled, failed>>
  <1> DEFINE Posts(event) == /\ Publish(event) /\ Said(event)'
                             /\ UNCHANGED <<vars, committed, position, inHand, handled, failed>>
  <1>1. ASSUME NEW p \in PaymentIds, PostCallback(p)
        PROVE  UNCHANGED topic \/ \E event \in Event : Posts(event)
    <2>1. PICK event : event = [p |-> p, status |-> outcome[p]]
      OBVIOUS
    <2>2. /\ p \in DOMAIN outcome /\ outcome[p] \in CallbackStatus /\ outcome' = outcome
          /\ Publish(event) \/ UNCHANGED topic
          /\ UNCHANGED <<vars, committed, position, inHand, handled, failed>>
      BY <1>1, <2>1 DEF PostCallback, Advance, PipeType, PipeTypeOK, OutcomeDrawn
    <2>3. event \in Event
      BY <2>1, <2>2 DEF Event, PostedStatus
    <2>4. Said(event)'
      BY <2>1, <2>2 DEF Said
    <2> QED
      BY <2>2, <2>3, <2>4
  <1>2. ASSUME NEW p \in PaymentIds, NEW status \in PostedStatus, PostByHand(p, status)
        PROVE  \E event \in Event : Posts(event)
    <2>0. [p |-> p, status |-> status] \in Event
      BY DEF Event
    <2>1. PICK event \in Event : event = [p |-> p, status |-> status]
      BY <2>0
    <2>2. /\ byHand' = Append(byHand, event) /\ Publish(event)
          /\ UNCHANGED <<vars, committed, position, inHand, handled, failed>>
      BY <1>2, <2>1 DEF PostByHand
    <2>3. byHand \in Seq(Event)
      BY DEF PipeType, PipeTypeOK
    <2>4. Len(byHand) + 1 \in DOMAIN byHand' /\ byHand'[Len(byHand) + 1] = event
      BY <2>1, <2>2, <2>3
    <2>5. Said(event)'
      BY <2>4 DEF Said
    <2> QED
      BY <2>1, <2>2, <2>5
  <1>3. \/ UNCHANGED topic \/ \E p \in PaymentIds : PostCallback(p)
        \/ \E p \in PaymentIds, status \in PostedStatus : PostByHand(p, status)
    BY DEF PipeNext, RequestPayment, CarryPayment, PaymentLost, DrawOutcome, FetchMessage,
       HandleMessage, HandleUnknown, HandleError, CommitMessage, CommitError, WorkerRestart,
       CronOrClock, pipeVars, kafkaVars
  <1> QED
    BY <1>1, <1>2, <1>3

\* What is enqueued stays as it is through every step.
LEMMA EventsStay ==
    ASSUME PipeType, [PipeNext]_pipeVars
    PROVE  \A x \in Enqueued : x \in Enqueued' /\ EventAt(x)' = EventAt(x)
  <1>1. CASE UNCHANGED topic
    BY <1>1 DEF Enqueued, Offsets, EventAt
  <1>2. ASSUME NEW event \in Event, Publish(event)
        PROVE  \A x \in Enqueued : x \in Enqueued' /\ EventAt(x)' = EventAt(x)
    BY <1>2, EnqueuedGrows DEF PipeType
  <1> QED
    BY <1>1, <1>2, PostsAreSaid

LEMMA EventsTellStep ==
    ASSUME PipeType, EventsTell, [PipeNext]_pipeVars
    PROVE  EventsTell'
  <1> SUFFICES ASSUME NEW x \in Enqueued'
               PROVE  Said(EventAt(x))' /\ x[1] = PartitionOf[EventAt(x)'.p]
    BY DEF EventsTell
  <1>1. CASE x \in Enqueued
    <2>1. PICK event : event = EventAt(x)
      OBVIOUS
    <2>2. EventAt(x)' = event
      BY <1>1, <2>1, EventsStay
    <2>3. Said(event) /\ x[1] = PartitionOf[event.p]
      BY <1>1, <2>1 DEF EventsTell
    <2>4. Said(event)'
      BY <2>3, SaidKept
    <2> QED
      BY <2>2, <2>3, <2>4
  <1>2. CASE x \notin Enqueued
    <2>1. ~UNCHANGED topic
      BY <1>2 DEF Enqueued, Offsets
    <2>2. PICK event \in Event : Publish(event) /\ Said(event)'
      BY <2>1, PostsAreSaid
    <2>3. EventAt(x)' = event /\ x[1] = PartitionOf[event.p]
      BY <1>2, <2>2, EnqueuedGrows DEF PipeType
    <2> QED
      BY <2>2, <2>3
  <1> QED
    BY <1>1, <1>2

-----------------------------------------------------------------------------
(* What the database makes of them.                                        *)

\* Only the handler records a payment as paid or failed: as its event says.
LEMMA RecordsStep ==
    ASSUME PipeType, [PipeNext]_pipeVars
    PROVE  \/ KeepsRecords({}) /\ handled' = handled
           \/ \E event \in Event :
                 /\ HandleMessage /\ event = EventAt(inHand.at)
                 /\ event.status \in CallbackStatus /\ ProcessPaymentCallback(event.p, event.status)
                 /\ KeepsRecords({event.p})
                 /\ DOMAIN payments' = DOMAIN payments /\ event.p \in DOMAIN payments
                 /\ payments'[event.p].status = event.status
  <1>1. TypeOK
    BY DEF PipeType, PipeTypeOK
  <1>2. CASE RequestPayment
    <2>1. handled' = handled
      BY <1>2 DEF RequestPayment, kafkaVars
    <2> QED
      BY <1>1, <1>2, <2>1, OpenedRecords DEF RequestPayment
  <1>3. CASE HandleMessage
    <2>1. PICK event : /\ event = EventAt(inHand.at) /\ event.status \in CallbackStatus
                       /\ ProcessPaymentCallback(event.p, event.status)
      BY <1>3 DEF HandleMessage
    <2>2. event \in Event /\ event.p \in PaymentIds
      BY <1>3, <2>1, HandType DEF HandleMessage, Event
    <2>3. /\ DOMAIN payments' = DOMAIN payments /\ event.p \in DOMAIN payments
          /\ payments'[event.p].status = event.status /\ KeepsRecords({event.p})
      BY <1>1, <2>1, <2>2, CallbackRecords
    <2> QED
      BY <1>3, <2>1, <2>2, <2>3
  <1>4. CASE CronOrClock
    <2>1. handled' = handled
      BY <1>4 DEF CronOrClock, kafkaVars
    <2> QED
      BY <1>1, <1>4, <2>1, CronRecords DEF CronOrClock
  <1>5. ASSUME UNCHANGED vars, handled' = handled PROVE KeepsRecords({}) /\ handled' = handled
    BY <1>1, <1>5, CronRecords
  <1>6. ASSUME NEW p \in PaymentIds, CarryPayment(p) PROVE UNCHANGED vars /\ handled' = handled
    BY <1>6 DEF CarryPayment, PaymentLost, DrawOutcome, PostCallback, kafkaVars
  <1>7. ASSUME NEW k \in Partitions, FetchMessage(k) PROVE UNCHANGED vars /\ handled' = handled
    BY <1>7 DEF FetchMessage
  <1>8. ASSUME NEW p \in PaymentIds, NEW status \in PostedStatus, PostByHand(p, status)
        PROVE  UNCHANGED vars /\ handled' = handled
    BY <1>8 DEF PostByHand
  <1>9. WorkerMove => UNCHANGED vars /\ handled' = handled
    BY WorkerMoves
  <1>10. UNCHANGED pipeVars => UNCHANGED vars /\ handled' = handled
    BY DEF pipeVars, kafkaVars
  <1> QED
    BY <1>2, <1>3, <1>4, <1>5, <1>6, <1>7, <1>8, <1>9, <1>10 DEF PipeNext, WorkerMove

\* A payment belongs to its booking for good.
LEMMA OwnersKept ==
    ASSUME TypeOK, [Next]_vars, NEW p \in DOMAIN payments
    PROVE  p \in DOMAIN payments' /\ payments'[p].booking = payments[p].booking
  <1> DEFINE Goal == p \in DOMAIN payments' /\ payments'[p].booking = payments[p].booking
  <1>1. SameOwners \/ UNCHANGED payments => Goal
    BY DEF SameOwners
  <1>2. ASSUME NEW q, NEW row, q \notin DOMAIN payments, payments' = Insert(payments, q, row) PROVE Goal
    BY <1>2 DEF Insert
  <1>3. ASSUME NEW a \in BookingIds, NEW q \in PaymentIds, NEW f \in Flights, NEW list \in SeatRequests,
               NEW t \in RequestTimes, CreateBooking(a, q, f, list, t)
        PROVE  Goal
    BY <1>2, <1>3 DEF CreateBooking
  <1>4. ASSUME NEW a \in BookingIds, NEW q \in PaymentIds, NEW t \in RequestTimes, RetryPayment(a, q, t)
        PROVE  Goal
    BY <1>2, <1>4 DEF RetryPayment
  <1>5. ASSUME NEW q \in PaymentIds, NEW status \in CallbackStatus, ProcessPaymentCallback(q, status)
        PROVE  Goal
    <2>1. q \in DOMAIN payments
      BY <1>5 DEF ProcessPaymentCallback
    <2>2. PICK b : b = payments[q].booking
      OBVIOUS
    <2> QED
      BY <1>1, <1>5, <2>1, <2>2, ConfirmPayments, FailPayments, RecordPayments DEF ProcessPaymentCallback
  <1>6. ASSUME NEW c \in Crons, CronStep(c) PROVE Goal
    <2>1. CASE ExpireBooking(c)
      <3>1. PICK b : b = Head(batch[c])
        OBVIOUS
      <3> QED
        BY <1>1, <2>1, <3>1, ExpirePayments
    <2> QED
      BY <1>1, <1>6, <2>1 DEF CronStep, RunCleanup, ProcessCleanupRow, CleanupDecided,
         CleanupExtended, CleanupRowError, CronCrash
  <1>7. (\E t \in RequestTimes : DepartureSweep(t)) \/ Tick \/ UNCHANGED vars => UNCHANGED payments
    BY DEF DepartureSweep, Tick, vars
  <1> QED
    BY <1>1, <1>3, <1>4, <1>5, <1>6, <1>7 DEF Next

\* A booking begins as PENDING.
LEMMA BeginsPending ==
    ASSUME TypeOK, [Next]_vars, NEW b \in DOMAIN bookings' \ DOMAIN bookings
    PROVE  bookings'[b].status = "PENDING"
  <1>1. CASE \E a \in BookingIds, p \in PaymentIds, f \in Flights :
               \E list \in SeatRequests, t \in RequestTimes : CreateBooking(a, p, f, list, t)
    BY <1>1, OpenedRecords
  <1>2. CASE \E a \in BookingIds, p \in PaymentIds : \E t \in RequestTimes : RetryPayment(a, p, t)
    BY <1>2, OpenedRecords
  <1>3. CASE \E p \in PaymentIds, status \in CallbackStatus : ProcessPaymentCallback(p, status)
    BY <1>3, CallbackRecords
  <1>4. CASE (\E c \in Crons : CronStep(c)) \/ (\E t \in RequestTimes : DepartureSweep(t))
               \/ Tick \/ UNCHANGED vars
    BY <1>4, CronRecords
  <1> QED
    BY <1>1, <1>2, <1>3, <1>4 DEF Next

\* A callback refunds its own payment, and only a success.
LEMMA CallbackRefunds ==
    ASSUME NEW p, NEW status, ProcessPaymentCallback(p, status)
    PROVE  refunded' = refunded \/ (status = "SUCCESS" /\ refunded' = refunded \union {p})
  BY DEF ProcessPaymentCallback, ConfirmBooking, FailBooking, StaleCallback, TerminalCallback,
     RefundIfPaid

\* No other step refunds anything.
LEMMA RefundsOnlyHandled ==
    ASSUME [PipeNext]_pipeVars PROVE HandleMessage \/ UNCHANGED refunded
  <1>1. ASSUME RequestPayment PROVE UNCHANGED refunded
    <2>1. PICK b \in BookingIds, p \in PaymentIds, t \in RequestTimes :
             \/ \E f \in Flights, list \in SeatRequests : CreateBooking(b, p, f, list, t)
             \/ RetryPayment(b, p, t)
      BY <1>1 DEF RequestPayment
    <2>2. ASSUME NEW f \in Flights, NEW list \in SeatRequests, CreateBooking(b, p, f, list, t)
          PROVE  UNCHANGED refunded
      BY <2>2 DEF CreateBooking
    <2>3. CASE RetryPayment(b, p, t)
      BY <2>3 DEF RetryPayment
    <2> QED
      BY <2>1, <2>2, <2>3
  <1>2. CronOrClock => UNCHANGED refunded
    BY DEF CronOrClock, CronStep, RunCleanup, ProcessCleanupRow, CleanupDecided, CleanupExtended,
       ExpireBooking, CleanupRowError, CronCrash, DepartureSweep, Tick
  <1>3. ASSUME UNCHANGED vars PROVE UNCHANGED refunded
    BY <1>3 DEF vars
  <1>4. RequestPayment \/ CronOrClock \/ HandleMessage \/ UNCHANGED vars
    BY DEF PipeNext, CarryPayment, PaymentLost, DrawOutcome, PostCallback, PostByHand, FetchMessage,
       HandleUnknown, HandleError, CommitMessage, CommitError, WorkerRestart, pipeVars
  <1> QED
    BY <1>1, <1>2, <1>3, <1>4

\* An attempt recorded as paid was paid ...
PaymentsPaid == \A p \in DOMAIN payments : payments[p].status = "SUCCESS" => Paid(p)
\* ... so was the attempt of a confirmed booking, whatever its row says by now ...
ConfirmedPaid ==
    \A b \in DOMAIN bookings : bookings[b].status = "CONFIRMED" => Paid(bookings[b].active)
\* ... and so was whatever is refunded.
RefundsPaid == \A p \in refunded : Paid(p)

PaidInv == PaymentsPaid /\ ConfirmedPaid /\ RefundsPaid

LEMMA PaidKept ==
    ASSUME PipeType, [PipeNext]_pipeVars, NEW p, Paid(p)
    PROVE  Paid(p)'
  <1>1. PICK event : event = [p |-> p, status |-> "SUCCESS"]
    OBVIOUS
  <1>2. Said(event)
    BY <1>1 DEF Paid
  <1>3. Said(event)'
    BY <1>2, SaidKept
  <1> QED
    BY <1>1, <1>3 DEF Paid

\* A success in the worker's hand was paid.
LEMMA HandPaid ==
    ASSUME PipeType, EventsTell, [PipeNext]_pipeVars, inHand # NoEvent,
           NEW event \in Event, event = EventAt(inHand.at), event.status = "SUCCESS"
    PROVE  Paid(event.p)'
  <1>1. Said(event)
    BY HandType DEF EventsTell
  <1>2. event = [p |-> event.p, status |-> "SUCCESS"]
    BY DEF Event
  <1>3. Paid(event.p)
    BY <1>1, <1>2 DEF Paid
  <1> QED
    BY <1>3, PaidKept

LEMMA PaymentsPaidStep ==
    ASSUME PipeType, EventsTell, PaymentsPaid, [PipeNext]_pipeVars
    PROVE  PaymentsPaid'
  <1> SUFFICES ASSUME NEW q \in DOMAIN payments', payments'[q].status = "SUCCESS"
               PROVE  Paid(q)'
    BY DEF PaymentsPaid
  <1>1. CASE RecordedBefore(q)
    BY <1>1, PaidKept DEF RecordedBefore, PaymentsPaid
  <1>2. ASSUME NEW event \in Event, HandleMessage, event = EventAt(inHand.at),
               payments'[event.p].status = event.status, q = event.p
        PROVE  Paid(q)'
    BY <1>2, HandPaid DEF HandleMessage
  <1>3. "SUCCESS" \in CallbackStatus
    BY DEF CallbackStatus
  <1> QED
    BY <1>1, <1>2, <1>3, RecordsStep DEF KeepsRecords

LEMMA ConfirmedPaidStep ==
    ASSUME PipeType, IInv, IInv', ConfirmedPaid, PaymentsPaid', [PipeNext]_pipeVars
    PROVE  ConfirmedPaid'
  <1>0. TypeOK /\ [Next]_vars
    BY PipeStep DEF PipeType, PipeTypeOK
  <1> SUFFICES ASSUME NEW b \in DOMAIN bookings', bookings'[b].status = "CONFIRMED",
                      NEW a, a = bookings'[b].active
               PROVE  Paid(a)'
    BY DEF ConfirmedPaid, Paid, Said
  <1>1. b \in DOMAIN bookings
    BY <1>0, BeginsPending
  <1>3. CASE IsLive(b)
    <2>1. payments'[a].status = "SUCCESS"
      BY <1>0, <1>1, <1>3, OutcomeStep
    <2>2. a \in DOMAIN payments'
      BY DEF IInv, PaymentInv, StatusMirrorsActive
    <2> QED
      BY <2>1, <2>2 DEF PaymentsPaid
  <1>4. CASE ~IsLive(b)
    <2>1. bookings'[b] = bookings[b]
      BY <1>0, <1>1, <1>4, OutcomeStep
    <2>2. Paid(a)
      BY <1>1, <2>1 DEF ConfirmedPaid
    <2> QED
      BY <2>2, PaidKept
  <1> QED
    BY <1>3, <1>4

LEMMA RefundsPaidStep ==
    ASSUME PipeType, EventsTell, RefundsPaid, [PipeNext]_pipeVars
    PROVE  RefundsPaid' /\ refunded \subseteq refunded'
  <1>1. CASE UNCHANGED refunded
    BY <1>1, PaidKept DEF RefundsPaid
  <1>2. CASE HandleMessage
    <2>1. PICK event : event = EventAt(inHand.at) /\ ProcessPaymentCallback(event.p, event.status)
      BY <1>2 DEF HandleMessage
    <2>2. event \in Event
      BY <1>2, <2>1, HandType DEF HandleMessage
    <2>3. \/ refunded' = refunded
          \/ event.status = "SUCCESS" /\ refunded' = refunded \union {event.p}
      BY <2>1, CallbackRefunds
    <2>4. event.status = "SUCCESS" => Paid(event.p)'
      BY <1>2, <2>1, <2>2, HandPaid DEF HandleMessage
    <2> QED
      BY <2>3, <2>4, PaidKept DEF RefundsPaid
  <1> QED
    BY <1>1, <1>2, RefundsOnlyHandled

\* The money of attempt p bought its booking or goes back.
Settled(p) ==
    \/ p \in refunded
    \/ /\ bookings[payments[p].booking].status = "CONFIRMED"
       /\ bookings[payments[p].booking].active = p

\* What the handler has accepted is a status that it knows, and a success among
\* it is settled: when it is handled, since BookingStore leaves no paid attempt
\* unsettled, and ever after, whatever becomes of the attempt's row, since
\* refunds are not taken back and decided bookings do not change.
HandledSettled ==
    \A x \in handled : LET event == EventAt(x) IN
        /\ event.status \in CallbackStatus /\ event.p \in DOMAIN payments
        /\ event.status = "SUCCESS" => Settled(event.p)

LEMMA SettledKept ==
    ASSUME TypeOK, [Next]_vars, refunded \subseteq refunded', NEW p \in DOMAIN payments, Settled(p)
    PROVE  Settled(p)'
  <1>1. PICK b : b = payments[p].booking
    OBVIOUS
  <1>2. b \in DOMAIN bookings /\ payments'[p].booking = b
    BY <1>1, OwnersKept DEF TypeOK
  <1>3. ASSUME bookings[b].status = "CONFIRMED", bookings[b].active = p
        PROVE  bookings'[b] = bookings[b]
    BY <1>2, <1>3, OutcomeStep DEF IsLive, IsTerminal
  <1> QED
    BY <1>1, <1>2, <1>3 DEF Settled

LEMMA HandledSettledStep ==
    ASSUME PipeType, IInv', refunded \subseteq refunded', HandledSettled, [PipeNext]_pipeVars
    PROVE  HandledSettled'
  <1>0. TypeOK /\ [Next]_vars /\ handled \subseteq Enqueued
    BY PipeStep DEF PipeType, PipeTypeOK
  <1> SUFFICES ASSUME NEW x \in handled', NEW event, event = EventAt(x)'
               PROVE  /\ event.status \in CallbackStatus /\ event.p \in DOMAIN payments'
                      /\ event.status = "SUCCESS" => Settled(event.p)'
    BY DEF HandledSettled
  <1>1. CASE x \in handled
    <2>1. EventAt(x) = event
      BY <1>0, <1>1, EventsStay
    <2>2. /\ event.status \in CallbackStatus /\ event.p \in DOMAIN payments
          /\ event.status = "SUCCESS" => Settled(event.p)
      BY <1>1, <2>1 DEF HandledSettled
    <2>3. event.p \in DOMAIN payments'
      BY <1>0, <2>2, OwnersKept
    <2> QED
      BY <1>0, <2>2, <2>3, SettledKept
  <1>2. CASE x \notin handled
    <2>1. PICK e \in Event : /\ HandleMessage /\ e = EventAt(inHand.at) /\ e.status \in CallbackStatus
                             /\ DOMAIN payments' = DOMAIN payments /\ e.p \in DOMAIN payments
                             /\ payments'[e.p].status = e.status
      BY <1>2, RecordsStep
    <2>2. x = inHand.at /\ EventAt(x)' = EventAt(x)
      BY <1>2, <2>1 DEF HandleMessage, EventAt
    <2>3. event = e
      BY <2>1, <2>2
    <2>4. ASSUME e.status = "SUCCESS" PROVE Settled(e.p)'
      BY <2>1, <2>4 DEF IInv, PaymentInv, SuccessSettled, Settled
    <2> QED
      BY <2>1, <2>3, <2>4
  <1> QED
    BY <1>1, <1>2

-----------------------------------------------------------------------------
(* The last post stands.                                                   *)

\* The running worker is through with event x.
Done(x) ==
    /\ x[2] <= position[x[1]]
    /\ ~(inHand # NoEvent /\ inHand.at = x /\ ~inHand.done)

\* What event r says of payment p is what its row says: the worker is through
\* with no later event of p, except such as it failed on.
Stands(p, r) ==
    /\ r \in handled /\ EventAt(r).p = p /\ payments[p].status = EventAt(r).status
    /\ \A y \in Enqueued : EventAt(y).p = p /\ y[2] > r[2] /\ Done(y) => y \in failed

LatestStands ==
    \A p \in PaymentIds : (\E x \in handled : EventAt(x).p = p) => \E r \in handled : Stands(p, r)
\* An event in hand is committed only once it is done.
HandUncommitted ==
    inHand # NoEvent /\ ~inHand.done => committed[inHand.at[1]] < inHand.at[2]

LatestInv == LatestStands /\ HandUncommitted

LEMMA HandUncommittedStep == PipeType /\ HandUncommitted /\ [PipeNext]_pipeVars => HandUncommitted'
  <1> SUFFICES ASSUME PipeType, HandUncommitted, [PipeNext]_pipeVars PROVE HandUncommitted'
    OBVIOUS
  <1>1. UNCHANGED <<committed, inHand>> => HandUncommitted'
    BY DEF HandUncommitted
  <1>2. ASSUME NEW k \in Partitions, FetchMessage(k) PROVE HandUncommitted'
    <2>1. /\ inHand' = [at |-> <<k, position[k] + 1>>, done |-> FALSE] /\ committed' = committed
      BY <1>2 DEF FetchMessage
    <2>2. committed[k] \in Nat /\ position[k] \in Nat /\ committed[k] <= position[k]
      BY DEF PipeType, PipeTypeOK
    <2> QED
      BY <2>1, <2>2 DEF HandUncommitted
  <1>3. CASE HandleMessage
    <2>1. inHand \in [at : Enqueued, done : BOOLEAN] /\ inHand' = [inHand EXCEPT !.done = TRUE]
      BY <1>3, HandType DEF HandleMessage
    <2>2. inHand'.done
      BY <2>1
    <2> QED
      BY <2>2 DEF HandUncommitted
  <1>4. CASE WorkerMove
    BY <1>4, WorkerMoves DEF HandUncommitted
  <1>5. \/ UNCHANGED <<committed, inHand>> \/ HandleMessage \/ WorkerMove
        \/ \E k \in Partitions : FetchMessage(k)
    BY DEF PipeNext, RequestPayment, CarryPayment, PaymentLost, DrawOutcome, PostCallback,
       PostByHand, WorkerMove, CronOrClock, pipeVars, kafkaVars
  <1> QED
    BY <1>1, <1>2, <1>3, <1>4, <1>5

\* Unless it handles an event, a step makes the worker through with none that
\* it does not fail on.
LEMMA DoneStep ==
    ASSUME PipeType, HandUncommitted, [PipeNext]_pipeVars, handled' = handled, ~HandleMessage,
           NEW y \in Enqueued', Done(y)', y \notin failed'
    PROVE  y \in Enqueued /\ Done(y) /\ y \notin failed
  <1>0. /\ committed \in [Partitions -> Nat] /\ position \in [Partitions -> Nat]
        /\ \A k \in Partitions : position[k] <= Len(topic[k]) /\ Len(topic[k]) \in Nat
    BY DEF PipeType, PipeTypeOK
  <1>1. CASE UNCHANGED <<topic, position, inHand, failed>>
    BY <1>1 DEF Enqueued, Offsets, Done
  <1>2. ASSUME NEW event \in Event, Publish(event), UNCHANGED <<position, inHand, failed>>
        PROVE  y \in Enqueued /\ Done(y) /\ y \notin failed
    <2>1. y \notin Enqueued => y[1] = PartitionOf[event.p] /\ y[2] > Len(topic[y[1]])
      BY <1>2, EnqueuedGrows DEF PipeType
    <2>2. topic' \in [Partitions -> Seq(Event)]
      BY <1>2, TopicGrows DEF PipeType
    <2>3. y[1] \in Partitions /\ y[2] \in Nat
      <3>1. PICK k \in Partitions : y \in Offsets(k)'
        BY DEF Enqueued
      <3>2. PICK i \in 1..Len(topic'[k]) : y = <<k, i>>
        BY <3>1 DEF Offsets
      <3> QED
        BY <3>2
    <2>4. y[2] <= position[y[1]]
      BY <1>2 DEF Done
    <2> QED
      BY <1>0, <1>2, <2>1, <2>3, <2>4 DEF Done
  <1>3. ASSUME UNCHANGED topic PROVE y \in Enqueued /\ y = <<y[1], y[2]>> /\ y[1] \in Partitions /\ y[2] \in Nat
    <2>1. y \in Enqueued
      BY <1>3 DEF Enqueued, Offsets
    <2> QED
      BY <2>1, EventType DEF PipeType, PipeTypeOK
  <1>4. ASSUME NEW k \in Partitions, FetchMessage(k) PROVE y \in Enqueued /\ Done(y) /\ y \notin failed
    <2>1. /\ inHand = NoEvent /\ position' = [position EXCEPT ![k] = position[k] + 1]
          /\ inHand' = [at |-> <<k, position[k] + 1>>, done |-> FALSE] /\ UNCHANGED <<topic, failed>>
      BY <1>4 DEF FetchMessage
    <2>2. inHand' # NoEvent /\ inHand'.at = <<k, position[k] + 1>> /\ ~inHand'.done
      <3>1. DOMAIN inHand' # {} /\ DOMAIN NoEvent = {}
        BY <2>1 DEF NoEvent
      <3> QED
        BY <2>1, <3>1
    <2>3. y[2] <= position'[y[1]] /\ y # <<k, position[k] + 1>>
      BY <2>2 DEF Done
    <2>4. y = <<y[1], y[2]>> /\ y[1] \in Partitions /\ y[2] \in Nat /\ y \in Enqueued
      BY <1>3, <2>1
    <2>5. y[2] <= position[y[1]]
      <3>1. CASE y[1] = k
        <4>1. y[2] # position[k] + 1 /\ y[2] <= position[k] + 1
          BY <1>0, <2>1, <2>3, <2>4, <3>1
        <4> QED
          BY <1>0, <2>4, <3>1, <4>1
      <3>2. CASE y[1] # k
        BY <1>0, <2>1, <2>3, <2>4, <3>2
      <3> QED
        BY <3>1, <3>2
    <2> QED
      BY <2>1, <2>4, <2>5 DEF Done
  <1>5. CASE HandleUnknown \/ HandleError
    <2>1. /\ failed' = failed \union {inHand.at} /\ UNCHANGED <<topic, position>>
      BY <1>5 DEF HandleUnknown, HandleError
    <2> QED
      BY <1>3, <2>1 DEF Done
  <1>6. CASE CommitMessage \/ CommitError
    BY <1>3, <1>6 DEF CommitMessage, CommitError, Done
  <1>7. CASE WorkerRestart
    <2>1. position' = committed /\ UNCHANGED <<topic, failed>>
      BY <1>7 DEF WorkerRestart, ResumePosition
    <2>2. y[1] \in Partitions /\ y[2] \in Nat /\ y \in Enqueued /\ y[2] <= committed[y[1]]
      BY <1>3, <2>1 DEF Done
    <2>3. y[2] <= position[y[1]]
      BY <1>0, <2>2 DEF PipeType, PipeTypeOK
    <2>4. ~(inHand # NoEvent /\ inHand.at = y /\ ~inHand.done)
      BY <1>0, <2>2 DEF HandUncommitted
    <2> QED
      BY <2>1, <2>2, <2>3, <2>4 DEF Done
  <1>8. \/ UNCHANGED <<topic, position, inHand, failed>>
        \/ HandleUnknown \/ HandleError \/ CommitMessage \/ CommitError \/ WorkerRestart
        \/ \E k \in Partitions : FetchMessage(k)
        \/ ~UNCHANGED topic
    BY DEF PipeNext, RequestPayment, CarryPayment, PaymentLost, DrawOutcome, PostCallback,
       PostByHand, CronOrClock, pipeVars, kafkaVars
  <1> QED
    BY <1>1, <1>2, <1>4, <1>5, <1>6, <1>7, <1>8, PostsAreSaid

\* A row keeps what it says while nothing about its payment is handled.
LEMMA StandsKept ==
    ASSUME PipeType, HandledSettled, HandUncommitted, [PipeNext]_pipeVars,
           NEW p \in PaymentIds, NEW r \in handled, Stands(p, r),
           \/ KeepsRecords({}) /\ handled' = handled /\ ~HandleMessage
           \/ HandleMessage /\ EventAt(inHand.at).p # p /\ KeepsRecords({EventAt(inHand.at).p})
    PROVE  Stands(p, r)'
  <1>0. handled \subseteq Enqueued /\ r \in handled'
    BY DEF PipeType, PipeTypeOK, HandleMessage
  <1>1. EventAt(r)' = EventAt(r) /\ r \in Enqueued
    BY <1>0, EventsStay
  <1>2. p \in DOMAIN payments /\ payments[p].status \in CallbackStatus
    BY DEF HandledSettled, Stands
  <1>3. payments'[p].status = payments[p].status
    BY <1>2 DEF KeepsRecords
  <1>4. ASSUME NEW y \in Enqueued', EventAt(y)'.p = p, y[2] > r[2], Done(y)', y \notin failed'
        PROVE  FALSE
    <2>1. y \in Enqueued /\ Done(y) /\ y \notin failed
      <3>1. CASE ~HandleMessage
        BY <1>4, <3>1, DoneStep
      <3>2. CASE HandleMessage
        <4>1. /\ UNCHANGED <<topic, position, failed>> /\ EventAt(inHand.at).p # p
          BY <3>2 DEF HandleMessage
        <4>2. y \in Enqueued /\ EventAt(y)' = EventAt(y)
          BY <4>1 DEF Enqueued, Offsets, EventAt
        <4>3. y # inHand.at
          BY <1>4, <4>1, <4>2
        <4> QED
          BY <1>4, <4>1, <4>2, <4>3 DEF Done
      <3> QED
        BY <3>1, <3>2
    <2>2. EventAt(y).p = p
      BY <1>4, <2>1, EventsStay
    <2> QED
      BY <1>4, <2>1, <2>2 DEF Stands
  <1> QED
    BY <1>0, <1>1, <1>3, <1>4 DEF Stands

\* The event that is handled stands: all that is said of its payment is in its
\* partition, where the worker has fetched nothing later.
LEMMA HandledStands ==
    ASSUME PipeType, EventsTell, HandleMessage, NEW event \in Event, event = EventAt(inHand.at),
           payments'[event.p].status = event.status, NEW r, r = inHand.at
    PROVE  Stands(event.p, r)'
  <1>1. /\ inHand \in [at : Enqueued, done : BOOLEAN] /\ inHand # NoEvent /\ inHand.at \in Enqueued
        /\ inHand.at[2] = position[inHand.at[1]] /\ inHand.at[1] \in Partitions
    BY HandType DEF HandleMessage
  <1>3. /\ UNCHANGED <<topic, position, failed>> /\ r \in handled'
    BY DEF HandleMessage
  <1>4. EventAt(r)' = event /\ Enqueued' = Enqueued
    BY <1>3 DEF EventAt, Enqueued, Offsets
  <1>5. ASSUME NEW y \in Enqueued, EventAt(y)'.p = event.p, y[2] > r[2], Done(y)' PROVE FALSE
    <2>1. EventAt(y).p = event.p
      BY <1>3, <1>5 DEF EventAt
    <2>2. y[1] = r[1]
      BY <1>1, <2>1 DEF EventsTell
    <2>3. y[2] <= position[r[1]] /\ r[2] = position[r[1]] /\ r[1] \in Partitions
      BY <1>1, <1>3, <1>5, <2>2 DEF Done
    <2>4. y[2] \in Nat /\ position[r[1]] \in Nat
      BY <2>3, EventType DEF PipeType, PipeTypeOK
    <2> QED
      BY <1>5, <2>3, <2>4
  <1> QED
    BY <1>3, <1>4, <1>5 DEF Stands

LEMMA LatestStandsStep ==
    ASSUME PipeType, EventsTell, HandledSettled, LatestInv, [PipeNext]_pipeVars
    PROVE  LatestStands'
  <1>0. handled \subseteq Enqueued
    BY DEF PipeType, PipeTypeOK
  <1> SUFFICES ASSUME NEW p \in PaymentIds, NEW x \in handled', EventAt(x)'.p = p
               PROVE  \E r \in handled' : Stands(p, r)'
    BY DEF LatestStands
  <1>1. ASSUME NEW z \in handled, EventAt(z).p = p,
               \/ KeepsRecords({}) /\ handled' = handled /\ ~HandleMessage
               \/ HandleMessage /\ EventAt(inHand.at).p # p /\ KeepsRecords({EventAt(inHand.at).p})
        PROVE  \E r \in handled' : Stands(p, r)'
    <2>1. PICK r \in handled : Stands(p, r)
      BY <1>1 DEF LatestInv, LatestStands
    <2>2. Stands(p, r)'
      BY <1>1, <2>1, StandsKept DEF LatestInv
    <2> QED
      BY <2>2 DEF Stands
  <1>2. CASE KeepsRecords({}) /\ handled' = handled /\ ~HandleMessage
    BY <1>0, <1>1, <1>2, EventsStay
  <1>3. ASSUME NEW event \in Event, HandleMessage, event = EventAt(inHand.at), KeepsRecords({event.p}),
               payments'[event.p].status = event.status
        PROVE  \E r \in handled' : Stands(p, r)'
    <2>1. CASE event.p = p
      <3>1. PICK r : r = inHand.at
        OBVIOUS
      <3>2. Stands(event.p, r)'
        BY <1>3, <3>1, HandledStands
      <3> QED
        BY <2>1, <3>2 DEF Stands
    <2>2. CASE event.p # p
      <3>1. x \in handled /\ EventAt(x).p = p
        <4>1. handled' = handled \union {inHand.at} /\ topic' = topic
          BY <1>3 DEF HandleMessage
        <4>2. EventAt(x)' = EventAt(x)
          BY <4>1 DEF EventAt
        <4> QED
          BY <1>3, <2>2, <4>1, <4>2
      <3> QED
        BY <1>1, <1>3, <2>2, <3>1
    <2> QED
      BY <2>1, <2>2
  <1>4. HandleMessage => \E event \in Event :
            /\ event = EventAt(inHand.at) /\ KeepsRecords({event.p})
            /\ payments'[event.p].status = event.status
    <2>1. ASSUME HandleMessage PROVE TypeOK
      BY DEF PipeType, PipeTypeOK
    <2>2. ASSUME HandleMessage
          PROVE  \E event \in Event : /\ event = EventAt(inHand.at) /\ KeepsRecords({event.p})
                                      /\ payments'[event.p].status = event.status
      <3>1. PICK event : /\ event = EventAt(inHand.at) /\ event.status \in CallbackStatus
                         /\ ProcessPaymentCallback(event.p, event.status)
        BY <2>2 DEF HandleMessage
      <3>2. event \in Event /\ event.p \in PaymentIds
        BY <2>2, <3>1, HandType DEF HandleMessage, Event
      <3> QED
        BY <2>1, <2>2, <3>1, <3>2, CallbackRecords
    <2> QED
      BY <2>2
  <1> QED
    BY <1>2, <1>3, <1>4, RecordsStep

-----------------------------------------------------------------------------
(* All of it together.                                                     *)

PipeIInv == PipeType /\ IInv /\ EventsTell /\ PaidInv /\ WorkerInv /\ HandledSettled /\ LatestInv

LEMMA PipeIInvStep == PipeIInv /\ [PipeNext]_pipeVars => PipeIInv'
  <1> SUFFICES ASSUME PipeIInv, [PipeNext]_pipeVars PROVE PipeIInv'
    OBVIOUS
  <1>1. PipeType /\ IInv /\ EventsTell /\ PaidInv /\ WorkerInv /\ HandledSettled /\ LatestInv
    BY DEF PipeIInv
  <1>2. [Next]_vars
    BY <1>1, PipeStep DEF PipeType
  <1>3. IInv'
    BY <1>1, <1>2, StepType, SeatStep, PaymentStep, CleanupStep, AttemptsStep, ActiveUnrefundedStep
       DEF IInv
  <1>4. PipeType' /\ EventsTell' /\ WorkerInv'
    BY <1>1, PipeTypeStep, EventsTellStep, WorkerStep
  <1>5. PaymentsPaid'
    BY <1>1, PaymentsPaidStep DEF PaidInv
  <1>6. RefundsPaid' /\ refunded \subseteq refunded'
    BY <1>1, RefundsPaidStep DEF PaidInv
  <1>7. ConfirmedPaid'
    BY <1>1, <1>3, <1>5, ConfirmedPaidStep DEF PaidInv
  <1>8. HandledSettled'
    BY <1>1, <1>3, <1>6, HandledSettledStep
  <1>9. LatestInv'
    BY <1>1, LatestStandsStep, HandUncommittedStep DEF LatestInv
  <1> QED
    BY <1>3, <1>4, <1>5, <1>6, <1>7, <1>8, <1>9 DEF PipeIInv, PaidInv

\* The types of the pipeline, the inductive invariant of BookingStore and what
\* relates posts, events and rows hold in every reachable state, although the
\* posts may contradict each other: what deliveries, duplicates, failures and
\* restarts all preserve.
THEOREM PipeInvariance == PipeSpec => []PipeIInv
  <1>1. PipeInit => IInv
    <2>1. Init => AttemptsInv /\ ActiveUnrefunded
      BY DEF Init, EmptyTable, AttemptsInv, ActiveUnrefunded
    <2> QED
      BY <2>1, InitType, InitSeatInv, InitPaymentInv, InitCleanup DEF PipeInit, IInv
  <1>2. PipeInit => EventsTell /\ PaidInv
    BY DEF PipeInit, Init, EmptyTable, EventsTell, PaidInv, PaymentsPaid, ConfirmedPaid,
       RefundsPaid, Enqueued, Offsets
  <1>3. PipeInit => WorkerInv
    BY DEF PipeInit, WorkerInv, CommittedWasTried, FetchedWasTried
  <1>4. PipeInit => HandledSettled /\ LatestInv
    BY DEF PipeInit, HandledSettled, LatestInv, LatestStands, HandUncommitted
  <1>5. PipeInit => PipeIInv
    BY <1>1, <1>2, <1>3, <1>4, PipeInitType DEF PipeIInv
  <1> QED
    BY <1>5, PipeIInvStep, PTL DEF PipeSpec

\* What the database says of a payment is what was said of it last, whoever
\* said it and in whatever order posts, handling, failures and restarts meet.
THEOREM LastPostStands == PipeSpec => []RowTellsLastPost
  <1>1. PipeIInv => RowTellsLastPost
    <2> SUFFICES ASSUME PipeIInv, inHand = NoEvent, \A k \in Partitions : position[k] = Len(topic[k]),
                        NEW x \in Enqueued, NEW p, p = EventAt(x).p, x \notin failed,
                        {y \in Enqueued : EventAt(y).p = p /\ y[1] = x[1] /\ y[2] > x[2]} = {}
                 PROVE  payments[p].status = EventAt(x).status
      BY DEF RowTellsLastPost
    <2>0. PipeType /\ EventsTell /\ WorkerInv /\ LatestInv
      BY DEF PipeIInv
    <2>1. /\ x = <<x[1], x[2]>> /\ x[1] \in Partitions /\ x[2] \in Nat \ {0}
          /\ x[2] <= position[x[1]] /\ EventAt(x) \in Event
      BY <2>0, EventType DEF PipeType, PipeTypeOK
    <2>2. x[2] \in 1..position[x[1]]
      BY <2>0, <2>1 DEF PipeType, PipeTypeOK
    <2>3. x \in handled
      BY <2>0, <2>1, <2>2 DEF WorkerInv, FetchedWasTried
    <2>4. p \in PaymentIds
      BY <2>1 DEF Event
    <2>5. PICK r \in handled : Stands(p, r)
      BY <2>0, <2>3, <2>4 DEF LatestInv, LatestStands
    <2>6. r \in Enqueued /\ EventAt(r).p = p /\ payments[p].status = EventAt(r).status
      BY <2>0, <2>5 DEF PipeType, PipeTypeOK, Stands
    <2>7. r = <<r[1], r[2]>> /\ r[2] \in Nat /\ r[1] = x[1]
      <3>1. topic \in [Partitions -> Seq(Event)]
        BY <2>0 DEF PipeType, PipeTypeOK
      <3>2. r = <<r[1], r[2]>> /\ r[2] \in Nat
        BY <2>6, <3>1, EventType
      <3>3. r[1] = PartitionOf[p] /\ x[1] = PartitionOf[p]
        BY <2>0, <2>6 DEF EventsTell
      <3> QED
        BY <3>2, <3>3
    <2>8. ~(r[2] > x[2])
      BY <2>6, <2>7
    <2>9. ~(x[2] > r[2])
      BY <2>1, <2>5 DEF Stands, Done
    <2>10. r = x
      <3>1. r[2] = x[2]
        BY <2>1, <2>7, <2>8, <2>9
      <3> QED
        BY <2>1, <2>7, <3>1
    <2> QED
      BY <2>6, <2>10
  <1> QED
    BY <1>1, PipeInvariance, PTL

\* A success that the handler has accepted stays settled, whatever is posted,
\* retried, expired or restarted afterwards.
THEOREM HandledIsSettledAlways == PipeSpec => []HandledIsSettled
  <1>1. PipeIInv => HandledIsSettled
    BY DEF PipeIInv, HandledSettled, Settled, HandledIsSettled
  <1> QED
    BY <1>1, PipeInvariance, PTL

\* A confirmed booking was paid on the attempt it names, and nothing that was
\* not paid is refunded, as far as the posts that reach the webhook can tell.
THEOREM NothingForNothing == PipeSpec => []OnlyPaidIsSettled
  <1>1. PipeIInv => OnlyPaidIsSettled
    <2> SUFFICES ASSUME PipeIInv PROVE OnlyPaidIsSettled
      OBVIOUS
    <2> DEFINE paid == {p \in DOMAIN outcome : outcome[p] = "SUCCESS"}
                           \union {event.p : event \in {e \in Range(byHand) : e.status = "SUCCESS"}}
    <2>1. ASSUME NEW p, Paid(p) PROVE p \in paid
      <3>1. PICK event : event = [p |-> p, status |-> "SUCCESS"]
        OBVIOUS
      <3>2. event.p = p /\ event.status = "SUCCESS" /\ Said(event)
        BY <2>1, <3>1 DEF Paid
      <3>3. CASE event.p \in DOMAIN outcome /\ outcome[event.p] = event.status
        BY <3>2, <3>3
      <3>4. CASE \E i \in DOMAIN byHand : byHand[i] = event
        BY <3>2, <3>4 DEF Range
      <3> QED
        BY <3>2, <3>3, <3>4 DEF Said
    <2>2. \A b \in DOMAIN bookings : bookings[b].status = "CONFIRMED" => bookings[b].active \in paid
      BY <2>1 DEF PipeIInv, PaidInv, ConfirmedPaid
    <2>3. refunded \subseteq paid
      BY <2>1 DEF PipeIInv, PaidInv, RefundsPaid
    <2> QED
      BY <2>2, <2>3 DEF OnlyPaidIsSettled
  <1> QED
    BY <1>1, PipeInvariance, PTL

\* A callback that says what is recorded already changes no table.
LEMMA RepeatedCallback ==
    ASSUME TypeOK, PaymentInv, NEW p \in DOMAIN payments, NEW status \in CallbackStatus,
           payments[p].status = status, ProcessPaymentCallback(p, status)
    PROVE  UNCHANGED <<flights, bookings, payments, cleanup>>
  <1> DEFINE b == payments[p].booking
  <1>0. /\ b \in DOMAIN bookings /\ bookings[b] \in Booking /\ payments[p] \in Payment
        /\ bookings \in [DOMAIN bookings -> Booking] /\ payments \in [DOMAIN payments -> Payment]
    BY DEF TypeOK
  <1>1. SetPayment(p, status) = payments
    <2>1. [payments[p] EXCEPT !.status = status] = payments[p]
      BY <1>0 DEF Payment
    <2>2. SetPayment(p, status) = [payments EXCEPT ![p] = [payments[p] EXCEPT !.status = status]]
      BY DEF SetPayment
    <2> QED
      BY <1>0, <2>1, <2>2
  <1>2. CASE StaleCallback(p, status) \/ TerminalCallback(p, status)
    BY <1>1, <1>2 DEF StaleCallback, TerminalCallback
  <1>3. ASSUME IsActivePI(bookings[b], p)
        PROVE  status = "FAILED" /\ bookings[b].status = "PAYMENT_FAILED"
    <2>1. IsLive(b) /\ p = bookings[b].active
      BY <1>3 DEF IsActivePI, IsLive
    <2>2. payments[p].status = IF bookings[b].status = "PENDING" THEN "INITIATED" ELSE "FAILED"
      BY <1>0, <2>1 DEF PaymentInv, StatusMirrorsActive
    <2> QED
      BY <1>0, <2>1, <2>2 DEF IsLive, IsTerminal, Booking, BookingStatus, CallbackStatus
  <1>4. CASE status = "SUCCESS" /\ ConfirmBooking(p)
    BY <1>3, <1>4 DEF ConfirmBooking
  <1>5. CASE status = "FAILED" /\ FailBooking(p)
    <2>1. /\ IsActivePI(bookings[b], p)
          /\ bookings' = [bookings EXCEPT ![b].status = "PAYMENT_FAILED"]
          /\ payments' = SetPayment(p, "FAILED")
          /\ UNCHANGED <<flights, cleanup>>
      BY <1>5 DEF FailBooking
    <2>2. [bookings[b] EXCEPT !.status = "PAYMENT_FAILED"] = bookings[b]
      BY <1>0, <1>3, <2>1 DEF Booking
    <2>3. bookings' = [bookings EXCEPT ![b] = [bookings[b] EXCEPT !.status = "PAYMENT_FAILED"]]
      BY <2>1
    <2>4. bookings' = bookings
      BY <1>0, <2>2, <2>3
    <2> QED
      BY <1>1, <1>5, <2>1, <2>4
  <1> QED
    BY <1>2, <1>4, <1>5 DEF ProcessPaymentCallback

\* Delivering an event again, as a duplicate or after a crash, changes no table.
THEOREM RedeliveryIsHarmless == PipeSpec => RedeliveryIsNoOp
  <1>1. PipeIInv /\ [PipeNext]_pipeVars =>
          [inHand # NoEvent /\ inHand' # NoEvent =>
               LET event == EventAt(inHand.at)
                   before == {EventAt(x).status : x \in {y \in handled : EventAt(y).p = event.p}}
               IN  before = {event.status} => UNCHANGED <<flights, bookings, payments, cleanup>>]_inHand
    <2> SUFFICES ASSUME PipeIInv, [PipeNext]_pipeVars, inHand' # inHand,
                        inHand # NoEvent, inHand' # NoEvent, NEW event, event = EventAt(inHand.at),
                        {EventAt(x).status : x \in {y \in handled : EventAt(y).p = event.p}}
                            = {event.status}
                 PROVE  UNCHANGED <<flights, bookings, payments, cleanup>>
      OBVIOUS
    <2>0. PipeType /\ IInv /\ LatestInv /\ HandledSettled
      BY DEF PipeIInv
    <2>1. HandleMessage
      <3>1. WorkerMove => inHand' = NoEvent
        BY <2>0, WorkerMoves
      <3> QED
        BY <3>1 DEF PipeNext, RequestPayment, CarryPayment, PaymentLost, DrawOutcome, PostCallback,
           PostByHand, FetchMessage, WorkerMove, CronOrClock, pipeVars, kafkaVars
    <2>2. event.status \in CallbackStatus /\ ProcessPaymentCallback(event.p, event.status)
      BY <2>1 DEF HandleMessage
    <2>3. event.p \in PaymentIds
      BY <2>0, HandType DEF Event
    <2>4. PICK z \in handled : EventAt(z).p = event.p
      OBVIOUS
    <2>5. PICK r \in handled : Stands(event.p, r)
      BY <2>0, <2>3, <2>4 DEF LatestInv, LatestStands
    <2>6. EventAt(r).status = event.status /\ payments[event.p].status = event.status
      BY <2>5 DEF Stands
    <2>7. event.p \in DOMAIN payments
      BY <2>0, <2>4 DEF HandledSettled
    <2> QED
      BY <2>0, <2>2, <2>6, <2>7, RepeatedCallback DEF IInv
  <1> QED
    BY <1>1, PipeInvariance, PTL DEF PipeSpec, RedeliveryIsNoOp
=============================================================================
