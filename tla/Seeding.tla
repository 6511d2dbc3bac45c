------------------------------ MODULE Seeding -------------------------------
(***************************************************************************)
(* How the flights table gets its rows, while it is already searched:      *)
(*                                                                         *)
(*   api     on start seeds the table if it counts no row, then serves     *)
(*   seeder  seeds it whenever somebody runs it                            *)
(*                                                                         *)
(* Each of them makes flights of its own, here as many for each route as   *)
(* any other, and inserts them in batches.  No row is ever deleted, and no *)
(* cached list is told of an INSERT: the cdc-worker changes the flights    *)
(* that are listed and adds none.  Hot lists, which are refreshed, are     *)
(* left out: this is about origins that few search for.                    *)
(***************************************************************************)
EXTENDS Naturals, Sequences, FiniteSets, Functions

CONSTANTS
    Apis,          \* api processes
    Seeders,       \* runs of cmd/seeder
    Timetable,     \* the routes, each on one date, of the flights in the order
                   \* they are made
    RowsPerBatch,  \* the 500 of Run
    MaxLeaving,    \* bound: flights that leave SCHEDULED before their date is over
    MaxFaults      \* bound: crashes, database errors and evictions

ASSUME SeedingAssumption ==
    /\ Apis \intersect Seeders = {}
    /\ Timetable \in Seq(Range(Timetable))
    /\ RowsPerBatch \in Nat \ {0} /\ MaxLeaving \in Nat /\ MaxFaults \in Nat

Procs == Apis \union Seeders
Routes == Range(Timetable)

VARIABLES
    stage,    \* [Procs -> Stages]
    made,     \* [Procs -> rows of its timetable that it has inserted]
    left,     \* rows that are SCHEDULED no more: full, or departed
    over,     \* routes whose date is over
    cached,   \* [Routes -> List or NoList]: flights:route:...
    reading,  \* [Routes -> List or NoList]: read by a search, to be cached
    faults    \* faults so far

vars == <<stage, made, left, over, cached, reading, faults>>

Stages == {"down", "seeding", "serving", "over"}

\* A list of flights, and whether it was read before the last seeding was over,
\* which no code reads.
List == [rows : SUBSET (Procs \X DOMAIN Timetable), early : BOOLEAN]
NoList == << >>

\* The table.  A row is the process that made it and its place in the timetable.
flights == UNION {{p} \X (1..made[p]) : p \in Procs}

\* Mistake: any destination will do.
RowsOfAll(r) == flights

\* When their date is over all its flights have departed (the minute until the
\* sweep sees to it is left out).
Scheduled(row) == row \notin left /\ Timetable[row[2]] \notin over

\* SELECT ... WHERE origin, destination, date and status = 'SCHEDULED'
RowsOf(r) == {row \in flights : Timetable[row[2]] = r /\ Scheduled(row)}

Init ==
    /\ stage = [p \in Procs |-> "down"] /\ made = [p \in Procs |-> 0]
    /\ left = {} /\ over = {}
    /\ cached = [r \in Routes |-> NoList] /\ reading = [r \in Routes |-> NoList]
    /\ faults = 0

Fault == faults < MaxFaults /\ faults' = faults + 1
Enter(p, from, to) == stage[p] = from /\ stage' = [stage EXCEPT ![p] = to]

-----------------------------------------------------------------------------
(* Starting.                                                               *)

\* Mistake: every start seeds.
CountsNothing == TRUE

\* SELECT count(*) FROM flights
CountsNoRow == flights = {}

SeedIfEmpty(a) ==
    /\ Enter(a, "down", IF CountsNoRow THEN "seeding" ELSE "serving")
    /\ UNCHANGED <<made, left, over, cached, reading, faults>>

\* The count fails: logged, and the api serves what there is.
SeedCheckError(a) ==
    /\ Fault
    /\ Enter(a, "down", "serving")
    /\ UNCHANGED <<made, left, over, cached, reading>>

RunSeeder(s) ==
    /\ Enter(s, "down", "seeding")
    /\ UNCHANGED <<made, left, over, cached, reading, faults>>

-----------------------------------------------------------------------------
(* Run: a full batch is inserted at once, and what is left at the end.     *)

\* Mistake: what is left at the end is not inserted.
FullBatchesOnly(n) == IF n + RowsPerBatch > Len(Timetable) THEN n ELSE n + RowsPerBatch

\* How many rows are inserted after the batch that follows the first n.
NextBatch(n) == IF n + RowsPerBatch > Len(Timetable) THEN Len(Timetable) ELSE n + RowsPerBatch

InsertBatch(p) ==
    /\ stage[p] = "seeding"
    /\ made' = [made EXCEPT ![p] = NextBatch(made[p])]
    /\ stage' = [stage EXCEPT ![p] =
           IF made[p] + RowsPerBatch < Len(Timetable) THEN "seeding"
           ELSE IF p \in Apis THEN "serving" ELSE "over"]
    /\ UNCHANGED <<left, over, cached, reading, faults>>

\* A process dies, of a failed INSERT or otherwise; an api is started again.
Crash(p) ==
    /\ Fault
    /\ stage[p] \in {"seeding", "serving"}
    /\ stage' = [stage EXCEPT ![p] = IF p \in Apis THEN "down" ELSE "over"]
    /\ UNCHANGED <<made, left, over, cached, reading>>

-----------------------------------------------------------------------------
(* api: ListFlights, without hot lists.                                    *)

Hit(r) == cached[r] # NoList /\ cached[r].rows # {}
SeedingOver == \A p \in Procs : stage[p] # "seeding" /\ (p \in Seeders => stage[p] = "over")

SearchMiss(r) ==
    /\ \E a \in Apis : stage[a] = "serving"
    /\ ~Hit(r) /\ reading[r] = NoList
    /\ reading' = [reading EXCEPT ![r] =
           [rows |-> RowsOf(r), early |-> ~SeedingOver]]
    /\ UNCHANGED <<stage, made, left, over, cached, faults>>

SetRouteFlights(r) ==
    /\ reading[r] # NoList
    /\ cached' = [cached EXCEPT ![r] = reading[r]]
    /\ reading' = [reading EXCEPT ![r] = NoList]
    /\ UNCHANGED <<stage, made, left, over, faults>>

-----------------------------------------------------------------------------
(* Flights and lists come to their end.                                    *)

\* The last seat of a flight goes, or it departs; it is never reopened
\* (BookingStore!NeverReopened).
LeaveScheduled(row) ==
    /\ row \in flights /\ Scheduled(row) /\ Cardinality(left) < MaxLeaving
    /\ left' = left \union {row}
    /\ UNCHANGED <<stage, made, over, cached, reading, faults>>

Dropped(r) == cached' = [cached EXCEPT ![r] = NoList]

\* routeCacheTTL: a list lives to the end of the date of its flights.
DateEnds(r) ==
    /\ r \notin over /\ over' = over \union {r}
    /\ Dropped(r)
    /\ UNCHANGED <<stage, made, left, reading, faults>>

\* One that is stored later lives for an hour.
Expire(r) ==
    /\ r \in over /\ cached[r] # NoList
    /\ Dropped(r)
    /\ UNCHANGED <<stage, made, left, over, reading, faults>>

\* Redis drops any key when memory is short (allkeys-lru).
Evict(r) ==
    /\ Fault /\ cached[r] # NoList
    /\ Dropped(r)
    /\ UNCHANGED <<stage, made, left, over, reading>>

-----------------------------------------------------------------------------

Next ==
    \/ \E a \in Apis : SeedIfEmpty(a) \/ SeedCheckError(a)
    \/ \E s \in Seeders : RunSeeder(s)
    \/ \E p \in Procs : InsertBatch(p) \/ Crash(p)
    \/ \E r \in Routes : SearchMiss(r) \/ SetRouteFlights(r)
    \/ \E r \in Routes : DateEnds(r) \/ Expire(r) \/ Evict(r)
    \/ \E row \in flights : LeaveScheduled(row)

Spec == Init /\ [][Next]_vars

-----------------------------------------------------------------------------
(* Properties.                                                             *)

\* A process inserts a prefix of its timetable, and a list holds flights of its
\* own route that are in the table.
TypeOK ==
    /\ stage \in [Procs -> Stages] /\ made \in [Procs -> 0..Len(Timetable)]
    /\ \A r \in Routes : \A list \in {cached[r], reading[r]} \ {NoList} :
          list \in List /\ \A row \in list.rows : row \in flights /\ Timetable[row[2]] = r
    /\ left \subseteq flights /\ over \subseteq Routes /\ faults \in 0..MaxFaults

IsComplete(p) == made[p] = Len(Timetable)

\* When an api serves and nobody is seeding, somebody's timetable is in the table
\* to its last row, unless something failed: an api that found rows and went on
\* to serve can count on the process that was still inserting them.
ServedComplete ==
    /\ faults = 0
    /\ \E a \in Apis : stage[a] = "serving"
    /\ \A p \in Procs : stage[p] # "seeding"
    => \E p \in Procs : IsComplete(p)

\* A list that serves searches and was read once the seeding was over never
\* misses a flight of its route that can be booked, although no INSERT updates it:
\* apis that start or restart later add none, whatever failed before.  (One that
\* was read earlier may miss flights until its date is over, and nothing in the
\* code looks for them by that route before.)
LateListsAreComplete ==
    \A r \in Routes : Hit(r) /\ ~cached[r].early => RowsOf(r) \subseteq cached[r].rows

(* What the documents say and the code does not do. *)

\* seed.go:18 "SeedIfEmpty seeds flights for the next 60 days if the flights table
\* is empty": an api that inserts its first flights inserts them in an empty table.
SeedsEmptyTable ==
    [][\A a \in Apis : made[a] = 0 /\ made'[a] > 0 => flights = {}]_vars
=============================================================================
