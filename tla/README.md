# Flight booking: a TLA+ verification project

TLA+ models of the flight booking system in `src/`: what its services do to the
bookings, the seats, the payments and the cached flight lists, checked with TLC on
small instances and proved with TLAPS for every instance where that is possible.
Paths below are relative to `src/`.

## 1. The system

### Components, state and operations

| Part | Code | State it keeps | Operations that change state | Model |
|---|---|---|---|---|
| Booking api | `internal/services/booking_service.go`, `internal/handlers/booking_handler.go` | rows of `flights`, `booking_intents`, `payment_intents`, `booking_intent_cleanup` | `CreateBooking`, `RetryPayment`; `GetBooking` only reads | `BookingStore`, `RowLocks` |
| Booking worker | `internal/services/callback_service.go` | the same rows | `ProcessPaymentCallback` (six branches) | `BookingStore`, `RowLocks` |
| Cleanup cron | `internal/services/cleanup_service.go`, `cmd/cron-worker/main.go:37` | the same rows; a batch in memory | `RunCleanup`, `processCleanupRow` | `BookingStore`, `RowLocks` |
| Departure sweep | `cmd/cron-worker/main.go:101` | `flights.status` | one `UPDATE` | `BookingStore`, `RowLocks` |
| Payment call and dummy payment server | `booking_service.go:153`, `cmd/payment-server/main.go` | goroutines only | draw an outcome, post it once, twice or never | `PaymentPipeline` |
| Webhook and producer | `internal/handlers/webhook_handler.go`, `internal/queue/producer.go` | Kafka topic `payment.callbacks` | append an event | `PaymentPipeline` |
| Consumer | `internal/queue/consumer.go`, `cmd/booking-worker/main.go` | group offsets, position, event in hand | fetch, handle, commit, fail, restart | `PaymentPipeline` |
| Flight search | `internal/services/flight_service.go`, `internal/cache/redis.go` | Redis lists per route and per hot origin | fill on a miss | `FlightCache`, `Seeding` |
| CDC worker | `internal/cdc/listener.go`, trigger in `migrations/001_initial.up.sql` | notifications; Redis lists | read a list, change one flight, write it back | `FlightCache` |
| Hot key refresh | `cmd/cron-worker/main.go:47` | Redis hot sets and hot lists; the keys of a round | look at each counter, read the database, write the list | `SearchDemand`, `FlightCache` |
| Search metrics | `internal/cache/redis.go:118` | Redis counters | `INCR`, `EXPIRE` | `SearchDemand` |
| Seeder | `internal/seed/seed.go`, `cmd/seeder`, start of `cmd/api` | `flights` | count, insert the timetable in batches | `Seeding`; its result is the initial state of `BookingStore` |
| Flight handlers | `internal/handlers/flight_handler.go`, `internal/models/flight.go:30` | none | none; they show `AvailableSeats` | `SeatArrays` (what they show) |
| Config, connection, web page, scripts | `internal/config`, `internal/database`, `web`, `scripts` | none | none | not modelled |

How they interact: the services share the database and nothing else; row locks
(`SELECT ... FOR UPDATE`) order them. A request starts a goroutine that calls the
payment server; the payment server posts to the webhook; the webhook appends to
Kafka; the worker consumes. A trigger notifies the CDC worker of every change of a
flight; the CDC worker, the api and the cron write the same Redis keys without any
lock. Searches drive the cron through counters. Every api process may seed the table
while another one already serves searches from it.

### What is hard

* *Concurrency.* Requests, callbacks and crons race for the same rows. The new seat
  arrays are computed in Go from values read earlier and written whole.
* *Order.* The callbacks of two attempts of one booking travel in different Kafka
  partitions; a retry may replace the attempt that a callback belongs to; the
  cleanup may expire a booking whose success is on its way.
* *Failure.* The payment call, the posts and the broker may lose an event; the
  payment server may duplicate it; the worker and the crons may fail or die between
  any two steps; a pipeline of two Redis commands may be cut between them; a seeding
  may stop between two batches.
* *Stale reads.* The cleanup batch, the request's clock reading, and every cached
  list are older than the state they are used on.

The correctness of each part: no seat is held or sold twice and the arrays agree
with the bookings; every undecided booking is in the cleanup table and is decided in
the end; a decided booking never changes; every success buys its booking or is
refunded; retries are bounded; an enqueued event is never lost by restarts alone; a
cached list never hides a bookable flight and is never out of date for ever; what is
searched often is kept warm and what is not is let go; what a search finds after the
start-up is a whole timetable.
`PROJECT.json` lists the hazards line by line.

## 2. The modules

| Module | Models | Composes |
|---|---|---|
| `SeatSale` | what the database promises about seats: a seat map and the bookings that hold, own or give back | abstract specification |
| `BookingStore` | the database and every transaction as one step | implements `SeatSale` (`SellsSeats`) |
| `RowLocks` | the same transactions cut into begin, one row lock at a time, and commit | extends `BookingStore`, which is also its abstract specification |
| `PaymentPipeline` | request, payment server, webhook, Kafka, worker | extends `BookingStore`, which it implements |
| `FlightCache` | the cached lists of one route | on its own; a flight row is reduced to what a reader can tell apart |
| `SearchDemand` | the search counters, and the rounds of the cron that they drive | extends `FlightCache`, which it implements |
| `Seeding` | the start of api processes and runs of the seeder, with searches meanwhile | on its own |
| `SeatArrays` | the seat arrays as the sequences they are, and the loops that compute with them | extends `BookingStore`, whose counts it compares with the sequences |
| `SumProofs` | lemmas about sums over finite sets | - |
| `BookingStoreProofs`, `RowLocksProofs`, `PaymentPipelineProofs`, `SeatArraysProofs`, `FlightCacheProofs`, `SearchDemandProofs`, `SeedingProofs` | theorems | the module they are named after |
| `MCBookingStore`, `MCRowLocks`, `MCPaymentPipeline`, `MCSeeding` | constants and symmetry for TLC; `MCRowLocks` also compares counts and arrays on small arrays | - |

Operators marked `Mistake:` are not part of the model. Each is a definition of the
model as a plausible bug would have it (a dropped guard, a missing update, a lock
that is not taken); the property listed with it in `PROJECT.json` is violated when it
takes the definition's place, which shows that the property can fail.

### SeatSale

No payments, no arrays, no clock: a seat is free, held or sold, and a claim is the seats
that a booking asked for and whether it holds them, owns them or gave them back. `Hold`
takes free seats of one flight all at once; `Sell` and `Release` end a hold for all of
its seats. `BookingStore` maps a seat to sold if it is in `bookedSeats`, else to held if it
is in `reservedSeats`; a claim to its booking, RESERVED and PAYMENT_PENDING being holds.
Retries, failures, extensions and departures are stuttering steps: they touch no seat.

### BookingStore

State: `flights`, `bookings`, `payments` and `cleanup` are the four tables; a table
with generated keys is a function whose domain is the keys in use. A `text[]` column
of seats is the function that counts each seat in it: no code looks at the order, and
`removeSeats` takes out every copy of a named seat; `SeatArrays` shows that nothing is
lost by it. `batch` is what each cron has
fetched and not yet processed; `refunded` collects the `REFUND` log lines, the only
trace of a refund; `now` is the clock in minutes. The line is logged before the commit
(`callback_service.go:63`, `:137`), so a transaction that then rolls back leaves it
behind; here the line and the commit are one step, and a failed callback logs nothing.

| Action | Code |
|---|---|
| `CreateBooking`, `RetryPayment` | `booking_service.go:66`, `:185` |
| `ConfirmBooking`, `FailBooking`, `StaleCallback`, `TerminalCallback` | the branches of `callback_service.go:22` |
| `RunCleanup` | the query of `cleanup_service.go:25` |
| `CleanupDecided`, `CleanupExtended`, `ExpireBooking` | the branches of `processCleanupRow`, `cleanup_service.go:38` |
| `CleanupRowError`, `CronCrash` | a row's transaction rolls back (`:30`); the process dies |
| `DepartureSweep` | `cron-worker/main.go:101` |
| `Tick` | the clock |

Refused requests, orphan callbacks and rolled back requests change nothing and are
no steps. A request reads the clock before it waits for its lock
(`booking_service.go:69`, `:187`), so it commits with a time up to `MaxLockWait` ago.
A flight that the sweep saw as DEPARTED when its statement began, and that was sold
out while the statement waited, is not updated: hence the choice of `swept`.

### SeatArrays

A row with `Seq(Seats)` in place of counts. `Unmarked` is the loop that `removeSeats`
(`callback_service.go:152`), `removeSeatsSlice` (`cleanup_service.go:96`) and
`AvailableSeats` (`models/flight.go:30`) share; `ArraysReserved`, `ArraysConfirmed` and
`ArraysReleased` are the rows that `array_cat`, `append` and these loops write.
`CountedRow` is what `BookingStore` keeps of a row; `CountsAgree` says that its operators
compute the counts of the arrays the code computes. The module has no actions.

### RowLocks

A session holds a transaction `tx`: its request, the clock when it began, the rows it
has locked and the values it read. `Lock` takes one free row of those wanted next, in
the order of the code. The commits decide on the values read and write, like the
code, whole arrays where Go computed them and columns where SQL does. PostgreSQL's
row lock is `Free`, an external definition. `ActsAtomically` is the specification of
`BookingStore`: its variables are those of this module, so no mapping is needed.
The cleanup compares the expiry with a clock that it reads after locking the booking
(`cleanup_service.go:53`); the model reads it again when it commits, so a row that is not
due at the comparison does not fall due before the commit, one `UPDATE` later. There is
one sweep: each cron-worker runs its own (`cron-worker/main.go:30`), and two of them at
once, which lock several flights in whatever order PostgreSQL scans them, are left out.

### PaymentPipeline

`journey` is where the goroutine that carries a payment is, `outcome` what the payment
server drew, `byHand` what others posted, `topic` the partitions, `committed` and
`position` the offsets of the group and of the running worker, `inHand` the event it is
busy with. `handled` and `failed` remember which events the handler accepted and on which
it returned an error. The payment server draws one outcome for each payment
(`payment-server/main.go:50`), but the webhook takes any status for any payment from
anyone (`webhook_handler.go:17`): `PostByHand` posts SUCCESS, FAILED or a status that no
code knows, before or after any other post of that payment, as HLD.md:998 announces and
`scripts/race_simulation.sh:65` does. `PostCallback` leaves its event in the topic or
nothing: the writer asks for no acknowledgement (`producer.go:24`), so a positive answer
promises nothing. `HandleUnknown` is the handler's error on a status it does not know,
`HandleError` one of its database; both drop the event and go on to the next
(`consumer.go:57`). `CommitError` leaves the offset, `WorkerRestart` begins at the
committed offsets.

### FlightCache

One origin, destination and date: the route list and the hot lists that contain its
flights. A row is `[changes, scheduled]`: how often the flight was changed and whether
it is SCHEDULED. Filling (`SearchMiss`, `SetRouteFlights`), refreshing (`RefreshRead`,
`RefreshWrite`) are two steps each, as in the code, and updating a list is three, for
`GET`, `TTL` and `SET` (`ListenerRead`, `ListenerTTL`, `ListenerWrite`). `TTL` answers in
whole seconds, rounded: `TTLAnswers` has the exact time and one tick less, so that a key in
its last tick may answer 0; a failed call and a key that is gone answer 0 too, and then the
list is written back for 5 minutes (`redis.go:192`), whatever became of its key since.
`missed` marks a list that was read before and written after a change, or that a fault
kept a change from; no action reads it. The refresh may run at any time here;
`SearchDemand` says when it does.

### SearchDemand

`counter` is a Redis counter with its time to live, saturated at the threshold because
nothing looks further; `round` is what the cron's loop over the counted keys has left to
do. `IncrSearch` is the pipeline of `INCR` and `EXPIRE` (`redis.go:118`), `IncrSearchError`
what else the two, which are no transaction, may come to: they fail before or after the
`INCR`, and without its `EXPIRE` a new counter never runs out; or a counter at its end runs
out between them. `SkipCold`, `WarmRead` and `WarmWrite` are one turn of `runHotKeyRefresh`
(`cron-worker/main.go:58`); a key that has become hot is never taken out of `hot`.
`recent` remembers the searches of each age, up to the first mishap; no action decides on
it. Every step is a step of `FlightCache` or leaves its variables alone
(`DemandRefines`), so the counters only choose among the refreshes `FlightCache` allows.

### Seeding

`made` is how much of its timetable a process has inserted, and `flights`, a derived
value, the rows of all of them. `SeedIfEmpty` counts (`seed.go:19`), `InsertBatch` is one
`CreateInBatches` of `Run`, `Crash` the death of a process between two batches.
`SearchMiss` and `SetRouteFlights` are those of the search, for every route (an origin, a
destination and a date): an INSERT notifies nobody of use, because the listener adds no
flight to a list. `left` are the flights that are SCHEDULED no more, `over` the routes
whose date is over: `DateEnds` takes away their lists, which live to 23:59:59
(`flight_service.go:77`), and their flights with them; one that is stored later lives an
hour (`Expire`), and Redis may drop any (`Evict`). `early` marks a list that was read
before the seeding was over; no action reads it. Such a list may miss flights until its
date is over, and nothing before that repairs it: the model shows which lists these are
(`LateListsAreComplete`), not that they do no harm. Hot lists are left out. All processes
make the same timetable here, where the code draws 3 to 5 flights for each route and day
(`seed.go:44`) and begins with the day it runs: nothing asked of the model compares the
timetables of two processes.

## 3. What is checked

Passing runs:

| Run | Instance | Properties |
|---|---|---|
| `store_safety` | 1 flight of 2 seats, 2 bookings, 3 payments, 2 crons, batches of 2, departure at 2, clock to 4 | `TypeOK`, `SeatLedger`, `SeatExclusive`, `CleanupCoversLive`, `StatusMirrorsActive`, `TerminalClosesPayments`, `SuccessSettled`, `AttemptsBounded`, `TerminalIsFinal`, `NoFalseExpiry`, `ConfirmedOnUnrefunded`, `SellsSeats` |
| `store_liveness` | 1 flight of 2 seats that a request may name twice, 2 bookings, 2 payments, 1 cron that fails and dies, departure at 1, fairness | `SoldOutIsClosed`, `NeverReopened`, `EventuallyDecided`, `DepartsInTheEnd` |
| `row_locks` | 1 flight of 1 seat, 2 bookings, 2 payments, 2 connections, 1 cron, the sweep | `SnapshotIsCurrent`, `NoDeadlock`, `ActsAtomically` |
| `pipeline` | 1 booking, 2 payments in 2 partitions, 1 fault, 1 post by hand of one of them, 1 cron, fairness | `PipeTypeOK`, `RowTellsLastPost`, `CommittedWasTried`, `PaidIsSettled`, `HandledIsSettled`, `OnlyPaidIsSettled`, `RedeliveryIsNoOp` |
| `flight_cache` | 2 flights, 1 of them on the route, 1 hot list, 1 reader, 2 changes, 1 fault, fairness | `TypeOK`, `StaleOnlyIfMissed`, `SearchIsComplete`, `StaleEnds` |
| `search_demand` | 1 hot list of 1 flight, threshold 2, counters that live 2 ticks, 2 changes, 1 fault, 1 mishap, fairness | `DemandTypeOK`, `NoDemandForgotten`, `PopularWasSearched`, `PopularIsPrewarmed`, `DemandFades` |
| `seeding` | 2 apis, 1 seeder, 3 flights of 2 routes in batches of 2, 2 faults, 1 flight that fills up | `TypeOK`, `ServedComplete`, `LateListsAreComplete` |

What they show, in words: no interleaving of transactions sells a seat twice or loses
one, leaves a booking undecided, or changes a decision; cutting the transactions into
locks adds no behaviour and no deadlock; a success that reached Kafka is settled although
the worker fails and restarts, and one that was handled is settled from then on, whatever
else is posted for it; the database tells what was posted last; what is confirmed was
paid, what is refunded was paid, and an event that comes again changes no
table; lists are stale only for a reason that the model names, and not for ever once
their flights stop changing; a popular key is warmed again and again although rounds fail,
and a forgotten one is let go although its key stays in the hot set; what is served when
nothing failed, and what was cached after the seeding, is complete.

What they do not show. As long as the flights of a list go on changing, each notification
may renew the list for 5 minutes as it runs out, with an old row of another flight in it:
`StaleEnds` and `DemandFades` speak of the time after the last change (`MaxChanges`). A
crash while the table is filled leaves a partial timetable (`ServedComplete` is about runs
without faults), and a route list read early misses flights until its date is over.
`row_locks` has one flight, so its sweep never holds one row and waits for another, and
two payments, so it does not race two retries of one booking; the theorems about that
module cover both. In `pipeline` flights depart after the clock has stopped; the sweep is
checked in the store's runs.

`row_locks`, whose commits write whole arrays, also evaluates `ArraysAgree` (`MCRowLocks`):
`CountsAgree` and `ShowsFreeSeats` on every row and request with at most two of three
seats in an array. With `RemoveSeats`, `SeatsAvailable`, `IsFull` or `HasRoom` as their
mistakes have them it is false.

Why the bounds are enough. Two bookings are what it takes to compete for a seat, two
seats what it takes to share some and not others and to fill a flight in two steps.
Three payments give one booking a retry while the other is still open; `MaxRetries` is
1 so that the limit is met. Two crons with batches of two process each other's rows.
The retry extension differs from the first reservation, so an expiry moves both ways,
and the clock runs past every expiry. Two connections, a cron and the sweep hold and
want every combination of rows that the code locks. Two partitions put the events of
two attempts of one booking in either order. A post by hand, of either attempt up to
renaming, contradicts, repeats or precedes what the payment server posts, and its posts
and a post by hand make three events of one payment; one fault lets a restart, a failed
handler or a failed commit fall anywhere between them. In the cache, two flights make one change of a list
independent of another, and two changes let an older notification meet a newer list. A
threshold of 2 and counters of 2 ticks let searches of different ages make a key popular
and let a counter run out between two of them. The last of two batches is not full, one
batch has flights of both routes, and two faults let an api die in its seeding and be
restarted, or die after another one failed to count.

Bounds in the guards: `MaxCopies` (how often a request may name a seat), `MaxLockWait`,
`RequestsUntil`, `ArrivalsUntil`, `MaxTime`, `Exposed` and `MaxByHand` (which payments are
posted by hand, and how often), `MaxLeaving`, `MaxFaults`, `MaxMishaps`, `MaxChanges`, and
the finite sets of ids. A uuid is never drawn twice, so a finite set of them runs out and the clock
stops: that, and nothing in the code, is why the runs do not check for deadlock. The
waiting of sessions for each other is checked by `NoDeadlock`. Symmetry is used in the
runs without temporal properties of liveness, `store_safety`, `row_locks` and `seeding`,
over ids that no definition tells apart.

Fairness. `store_liveness`: the clock and the crons' tickers go on (`WF`), and a row's
transaction that is possible again and again is at some point completed (`SF`): the
cron's loop has no way to stop but the death of its process, and failures are
transient. Nothing is assumed of requests or callbacks: `EventuallyDecided` holds when
no callback ever comes. `DepartsInTheEnd` needs the sweep's ticker (`WF`). `pipeline`: a running worker fetches from every partition
(`SF`, because restarts interrupt it) and finishes what is in hand; a payment may stop
anywhere. `flight_cache`: time passes, and a listener that is connected works through its
notifications; it may stay disconnected for ever. `search_demand`: in addition the cron's
loop goes on, with the next round or with the next key of this one; nobody has to search.

Runs that show where a document and the code disagree; TLC finds the violation:

| Run | The document | What the code does |
|---|---|---|
| `full_means_all_seats` | HLD.md:116, FULLY_BOOKED: "All 30 seats are in `bookedSeats`" | `callback_service.go:100` compares lengths, and a request may name a seat twice: a flight is closed with seats unsold |
| `committed_was_handled` | LLD.md:880 and `consumer.go:58`: a failed message "will be retried" | the loop fetches the next message, whose commit passes the failed one |
| `ticket_not_refunded` | HLD.md:766 "Same PI → duplicate, no-op" | the terminal branch (`callback_service.go:58`) refunds a duplicate of the confirming success |
| `current_when_quiet` | HLD.md:397 "reflects near-real-time seat availability" | a search that misses reads and writes in two steps (`flight_service.go:46`, `:56`); a change in between is notified while there is no list to update, and the old list then lives to 23:59:59 of the flights' date (`flight_service.go:77`) |
| `seeds_empty_table` | `seed.go:18` "seeds flights for the next 60 days if the flights table is empty" | the count and the inserts are separate statements without a lock: two apis that start together both count no row and both insert a timetable |

Met while modelling, without a run:

* the reopening branch of the cleanup (`cleanup_service.go:86`, HLD.md:119, :263) is never
  taken, because booked seats are never given back (`NeverReopened`);
* a confirmation may write FULLY_BOOKED over DEPARTED until the next sweep
  (`callback_service.go:100`), a transition that HLD.md:260-264 does not list;
  `DepartsInTheEnd` shows that the sweep puts it right;
* a SUCCESS that follows a FAILED of the active attempt confirms a booking from
  PAYMENT_FAILED (`callback_service.go:72-79`, as HLD.md:299-306 has it), where HLD.md:227
  and :249-253 list PENDING only; a FAILED that follows a SUCCESS rewrites the payment row
  of a confirmed booking (`callback_service.go:65`, as HLD.md:287-288 has it), where
  HLD.md:256-258 lists changes of INITIATED only. HLD.md:998 announces such posts.
  `RowTellsLastPost`, `HandledIsSettled` and `OnlyPaidIsSettled` hold with them: the ticket
  stays bought, and the payment row shows the last word;
* a retry sets the expiry to now + 2 minutes (`booking_service.go:187`, HLD.md:228-229), which
  HLD.md:893 and :1074 call "+2 min" and "extends": it is sooner than the expiry in force for
  most of the first ten minutes;
* a search counter is not "searches in the last 24 hours" (HLD.md:413): `EXPIRE` follows
  every `INCR`, so a counter that is never left alone for 24 hours never forgets;
  `NoDemandForgotten` and `PopularWasSearched` are the directions that do hold: it shows at
  least those searches, and it is there only if there was one. `METRIC_TTL_SEC` is read
  (`config.go:97`) and used nowhere;
* no code removes a key from a hot set (HLD.md:464) and the sets never expire
  (LLD.md:1382-1383 "End of date"); `DemandFades` shows that the lists go nevertheless;
* the hot lists live as long as the refresh period (both 300 seconds, `config.go:96`,
  `:100`), so a hot list may be gone for the duration of the next round;
* `GetHotToFlights` has no caller, so the hot lists by destination are kept up to date and
  never read; the cached list is neither appended to nor shortened (LLD.md:820-821);
* the reconnection delay reaches 32 seconds (`listener.go:43`).

## 4. What is proved

Every safety property that a passing run checks is proved, for every value of the
constants; each theorem is listed with its property in `PROJECT.json`.

`BookingStoreProofs` (every number of flights, seats, bookings, payments and crons, and
every value of the time and retry constants):

* `TypeCorrect`; `Invariance`: `Spec => []IInv`;
* from it `SeatsAreExclusive`, `LedgerIsExact`, `CleanupIsComplete`, `StatusIsMirrored`,
  `AttemptsAreClosed`, `PaymentsAreSettled`, `AttemptsAreBounded`;
* the action properties `OutcomesAreFinal`, `ExpiryIsDue`, `ConfirmationIsPaid`;
* `SoldOutCloses`, `ClosedStaysClosed`.

The inductive invariant `IInv` is the conjunction of the properties with two facts they
need. Exclusiveness alone is not inductive: a new booking is checked against the arrays,
not against the other bookings, so it needs the ledger; the ledger needs exclusiveness,
because `removeSeats` would otherwise free another booking's seat. Settlement needs the
status of a live booking to mirror its active attempt (a success may only stand if the
attempt is the one that confirmed), and refunds of a later confirmed attempt are excluded
by `ActiveUnrefunded`. The count of attempts needs the rows of a booking to be finite in
number. `SoldOutIsClosed` is inductive with the types alone, but it is about the length of
an array, a sum over the seats. `SumProofs` proves what such a sum returns (it is a natural
number, zero for zeros, additive, changes with one value by that value's change, and does
not grow when the values move up by one place) without an induction theorem: a non-empty
set of subsets of a finite set has a minimal member, so there is no smallest set on which
the sum is wrong.

The last section of that module proves `SeatsAreSold` (`Spec => SellsSeats`). `IInv` gives the guards of the
abstract steps: by the ledger a live booking's seats are exactly the held ones it claims,
so an expiry, which computes arrays, frees these and no others.

`SeatArraysProofs` (every set of seats, arrays of any length): `CountsAreExact`, that every
row and check of `BookingStore` is the one the code computes with arrays, from
`LengthIsCounted` (the length of an array is the sum of its counts), `AppendIsCounted` and
`RemovalIsCounted`; and `FreeSeatsAreShown`, that a search shows each free seat once. All of
them are about a loop over an array: `FilterIsCounted` has the loop as a recursive function
of the number of elements seen, whose values exist for the same reason as sums do. What
holds of the empty prefix and of every next element holds of all prefixes (`Prefixes`),
because there is no least prefix of which it is false (`LeastPrefix`, from the finiteness
of an interval). `FreeSeatsAreShown` assumes that the array of all seats lists each seat
once, as `constants.AllSeats` does (`constants.go:46`).

`RowLocksProofs` (every number of connections, crons and rows): `LocksMakeAtomic`,
hence `LockingSellsSeats` (`RowSpec => SellsSeats`), `SnapshotsAreCurrent` and
`NobodyWaitsForever`, from `RowInvariance`. The invariant `RowInv`
says of each session that its clock reading is recent (`Timely`), that what it was checked
for on arrival still holds (`Valid`), that it holds the rows its request locks, booking
first (`InOrder`), and that what it read of them is what they are (`Current`); of two
sessions that they drew different ids and hold different rows. `SoldOutIsClosed` is part of
it because of the sweep: its statement sees which flights are due when it begins and
commits later, which is one step of `BookingStore` only because no flight comes back on
sale in between. A transaction's effect is confined to rows it holds, so no other
session's `Current` is disturbed. Deadlock freedom: whoever waits for a flight row in the
middle of a transaction is a callback or a cleanup that has its booking; whoever holds a
flight row and waits is the sweep, which waits for flight rows only.

`PaymentPipelineProofs` (every number of partitions and faults):

* `ImplementsStore`: `PipeSpec => Spec`, so what is proved of `BookingStore` holds of the
  pipeline; in particular `PipelineSellsSeats`;
* `PipeTypeCorrect`, `CommittedEventsWereTried`, `LastPostStands`,
  `HandledIsSettledAlways`, `NothingForNothing`, `RedeliveryIsHarmless`, from
  `PipeInvariance`. Nothing bounds the posts by hand in them.

`CommittedWasTried` is strengthened by `FetchedWasTried`: what the worker has fetched was
tried or is in hand, and the event in hand is the last one fetched. `RowTellsLastPost` is
about the quiet moment; what is invariant is `LatestStands`: of the events of one payment
that the worker has fetched, the last that was accepted stands in the payment's row,
unless a later one failed. It needs that all events of a payment sit in its own
partition, and that an event in hand is not committed yet (`HandUncommitted`), so that a
restart handles it, and with it everything after it, again. `PaidInv` traces what is paid:
every SUCCESS in the topic was drawn by the payment server or posted by hand (`EventsTell`),
hence so was every SUCCESS in a payment's row, every confirmation and every refund.
`HandledSettled` is preserved although rows are rewritten: what settles a success is the
booking's CONFIRMED status and its active attempt, which no step changes, or the logged
refund. Of a payment whose handled events all have one status the row has that status
too, which decides every branch that a second delivery of it can take, none of which
writes anything new.

`FlightCacheProofs` (every set of flights, keys and readers, every time to live):
`TypeCorrect`, `SearchesAreComplete`, `ListsAreCurrent`. No list is ever without an expiry,
because what `TTL` answered is checked before it is used (`WriteStep`). A list that was once
complete stays so because flights only leave SCHEDULED (`Complete`). `StaleOnlyIfMissed` speaks of the quiet
moment; what is invariant is `Current`: a row of a list that missed nothing is up to date
or has a change `Pending` (announced, or in the listener's hand with that key still to do),
the last notification of a flight shows it as it is, and the list in the listener's hand
obeys the same.

`SearchDemandProofs` (every threshold and time to live): `DemandRefines`
(`DemandSpec => Spec` of `FlightCache`), by `RoundOK`: a hot list that was read is that of
the key the round is at; hence `DemandSearchesAreComplete`; `DemandTypeCorrect`; and
`DemandIsRemembered`, for which `NoDemandForgotten` is strengthened by the age of the
searches: one of age `a` is counted by a counter that lives at least `MetricTTL - a`
longer, so that a counter that runs out has no recent search left to forget; and
`PopularityIsRecent`, for which `PopularWasSearched` is strengthened the other way round
(`AllFromSearch`): a counter that has `t` ticks left was set by a search that is `MetricTTL - t`
old and is still remembered.

`SeedingProofs` (every number of processes, every timetable and batch size):
`TypeCorrect`; `ServesComplete`, from `Counting` (a process that began to insert is at it or
is done, an api that serves inserted its flights or counted somebody's); `LateListsStayComplete`,
from `LateOK` (once a list with flights was read after the seeding, the seeding stays over,
because no api seeds a table that has rows, and the flights on offer only become fewer).

Assumptions: `ConstantsAssumption`, `PipelineAssumption`, `ArrivalsAssumption`,
`CacheAssumption`, `DemandAssumption` and `SeedingAssumption`, which say what kind of value
each constant is.

Only model-checked: the liveness properties (`EventuallyDecided`, `DepartsInTheEnd`,
`PaidIsSettled`, `StaleEnds`, `PopularIsPrewarmed`, `DemandFades`): each rests on
fairness, which says that an action is taken if it stays or keeps becoming ENABLED, and
ENABLED is beyond the prover. Their safe halves are proved: that what must be decided is in
the cleanup table (`CleanupCoversLive`), that what was handled is settled (`HandledIsSettled`),
that a stale list has its reason (`StaleOnlyIfMissed`).

## 5. Not modelled

Prices and amounts, customer data, timestamps nobody decides on, configuration,
connections, parsing of requests, logging (but for `REFUND`), HTTP answers, the web page
and the scripts: none of them keeps state that another part reads. The counter of a route,
which is written and never read. Messages that are not JSON: only the webhook writes to
the topic, and the handler's answer to them (an error, hence a skipped event) is that of
`HandleUnknown`. The times and prices in the timetable. Delays
(reconnection, retries of the consumer): where the code waits, the model takes any time.

## 6. Plan

Done, in the order of importance: `BookingStore` and its proofs; `RowLocks` and its proofs;
`PaymentPipeline` and its proofs; `FlightCache` and its proofs; `SeatSale` and its
refinement, carried over to the locks and to the pipeline; `SearchDemand` and `Seeding` with
their proofs; `SeatArrays` and its proofs.

Left:

1. One cache for several dates and routes, where a flight's notification touches the lists
   of one date only; today one origin, destination and date is modelled.
2. The delay of the listener's reconnection (`listener.go:43`) in numbers: today it takes any
   time.
