---------------------------- MODULE SeedingProofs ----------------------------
(***************************************************************************)
(* Proofs about Seeding, for any number of processes, any timetable and    *)
(* any size of the batches.                                                *)
(***************************************************************************)
EXTENDS Seeding, TLAPS

Entry == List \union {NoList}

\* The lists of route r, cached and about to be, hold its flights.
ListOK(list, r) ==
    list # NoList => list \in List /\ \A row \in list.rows : row \in flights /\ Timetable[row[2]] = r

Types ==
    /\ stage \in [Procs -> Stages] /\ made \in [Procs -> 0..Len(Timetable)]
    /\ cached \in [Routes -> Entry] /\ reading \in [Routes -> Entry]
    /\ \A r \in Routes : ListOK(cached[r], r) /\ ListOK(reading[r], r)
    /\ left \subseteq flights /\ over \subseteq Routes /\ faults \in 0..MaxFaults

-----------------------------------------------------------------------------
(* The table.                                                              *)

LEMMA TimetableFacts ==
    /\ Len(Timetable) \in Nat /\ DOMAIN Timetable = 1..Len(Timetable)
    /\ RowsPerBatch \in Nat \ {0} /\ MaxFaults \in Nat
  BY SeedingAssumption

LEMMA FlightsFacts ==
    ASSUME made \in [Procs -> 0..Len(Timetable)]
    PROVE  /\ flights \subseteq Procs \X DOMAIN Timetable
           /\ \A row \in flights : made[row[1]] > 0
           /\ \A p \in Procs : made[p] > 0 => flights # {}
  <1>1. ASSUME NEW row \in flights
        PROVE  row \in Procs \X DOMAIN Timetable /\ made[row[1]] > 0
    <2>1. PICK p \in Procs : row \in {p} \X (1..made[p])
      BY DEF flights
    <2>2. row = <<p, row[2]>> /\ row[1] = p /\ row[2] \in 1..made[p]
      BY <2>1
    <2>3. made[p] \in 0..Len(Timetable)
      OBVIOUS
    <2>4. row[2] \in DOMAIN Timetable /\ made[p] > 0
      BY <2>2, <2>3, TimetableFacts
    <2> QED
      BY <2>2, <2>4
  <1>2. ASSUME NEW p \in Procs, made[p] > 0 PROVE flights # {}
    <2>1. made[p] \in Nat /\ 1 \in 1..made[p]
      BY <1>2, TimetableFacts
    <2>2. <<p, 1>> \in {p} \X (1..made[p])
      BY <2>1
    <2> QED
      BY <2>2 DEF flights
  <1> QED
    BY <1>1, <1>2

\* Nobody deletes a row.
LEMMA FlightsGrow ==
    ASSUME Types, NEW p \in Procs, InsertBatch(p)
    PROVE  /\ made' \in [Procs -> 0..Len(Timetable)]
           /\ \A q \in Procs \ {p} : made'[q] = made[q]
           /\ made'[p] >= made[p]
           /\ stage'[p] # "seeding" => made'[p] = Len(Timetable)
           /\ flights \subseteq flights'
  <1> DEFINE Numbers == 0..Len(Timetable)
  <1>1. /\ made[p] \in Numbers /\ NextBatch(made[p]) \in Numbers
        /\ NextBatch(made[p]) >= made[p]
        /\ made[p] + RowsPerBatch >= Len(Timetable) => NextBatch(made[p]) = Len(Timetable)
    BY TimetableFacts DEF Types, NextBatch
  <1>2. made' = [made EXCEPT ![p] = NextBatch(made[p])] /\ made \in [Procs -> Numbers]
    BY DEF InsertBatch, Types
  <1>3. \A n \in Numbers : n \in Nat
    OBVIOUS
  <1>4. stage'[p] # "seeding" => made[p] + RowsPerBatch >= Len(Timetable)
    BY <1>1, TimetableFacts DEF InsertBatch, Types
  <1> HIDE DEF Numbers
  <1>5. /\ made' \in [Procs -> Numbers] /\ made'[p] = NextBatch(made[p])
        /\ \A q \in Procs \ {p} : made'[q] = made[q]
    BY <1>1, <1>2
  <1>6. ASSUME NEW row \in flights PROVE row \in flights'
    <2>1. PICK q \in Procs : row \in {q} \X (1..made[q])
      BY DEF flights
    <2>2. made[q] \in Numbers /\ made'[q] \in Numbers
      BY <1>2, <1>5
    <2>3. made[q] \in Nat /\ made'[q] \in Nat
      BY <1>3, <2>2
    <2>4. made[q] <= made'[q]
      BY <1>1, <1>5, <2>3
    <2>5. 1..made[q] \subseteq 1..made'[q]
      BY <2>3, <2>4
    <2>6. row \in {q} \X (1..made'[q])
      BY <2>1, <2>5
    <2> QED
      BY <2>6 DEF flights
  <1>7. made'[p] >= made[p]
    BY <1>1, <1>5
  <1>8. stage'[p] # "seeding" => made'[p] = Len(Timetable)
    BY <1>1, <1>4, <1>5
  <1> QED
    BY <1>5, <1>6, <1>7, <1>8 DEF Numbers

\* Steps that insert nothing.
LEMMA FlightsKept ==
    ASSUME UNCHANGED made
    PROVE  /\ flights' = flights
           /\ UNCHANGED <<left, over>> => \A r : RowsOf(r)' = RowsOf(r)
           /\ \A list, r : ListOK(list, r) => ListOK(list, r)'
  BY DEF flights, RowsOf, Scheduled, ListOK

-----------------------------------------------------------------------------
(* Types are kept.                                                         *)

\* What a process does when it starts or dies.
Entering ==
    \/ \E a \in Apis : SeedIfEmpty(a) \/ SeedCheckError(a)
    \/ \E s \in Seeders : RunSeeder(s)
    \/ \E p \in Procs : Crash(p)

\* What a search does.
Searching == \E r \in Routes : SearchMiss(r) \/ SetRouteFlights(r)

\* How flights and lists come to their end.
Ending ==
    \/ \E r \in Routes : DateEnds(r) \/ Expire(r) \/ Evict(r)
    \/ \E row \in flights : LeaveScheduled(row)

LEMMA NextCases == Next => Entering \/ Searching \/ Ending \/ \E p \in Procs : InsertBatch(p)
  BY DEF Next, Entering, Searching, Ending

LEMMA EnteringFacts ==
    ASSUME Types, Entering
    PROVE  /\ UNCHANGED <<made, left, over, cached, reading>>
           /\ stage' \in [Procs -> Stages] /\ faults' \in 0..MaxFaults /\ faults' >= faults
  <1>1. UNCHANGED <<made, left, over, cached, reading>>
    BY DEF Entering, SeedIfEmpty, SeedCheckError, RunSeeder, Crash
  <1>2. \E p \in Procs, to \in Stages : stage' = [stage EXCEPT ![p] = to]
    BY DEF Entering, SeedIfEmpty, SeedCheckError, RunSeeder, Crash, Enter, Procs, Stages
  <1>3. faults' = faults \/ Fault
    BY DEF Entering, SeedIfEmpty, SeedCheckError, RunSeeder, Crash
  <1> QED
    BY <1>1, <1>2, <1>3, TimetableFacts DEF Types, Fault

\* A search moves a list on: it is read, or cached.
LEMMA SearchingFacts ==
    ASSUME Types, Searching
    PROVE  /\ UNCHANGED <<stage, made, left, over, faults>>
           /\ cached' \in [Routes -> Entry] /\ reading' \in [Routes -> Entry]
           /\ \A r \in Routes :
                 /\ cached'[r] \in {cached[r], reading[r]}
                 /\ \/ reading'[r] \in {reading[r], NoList}
                    \/ /\ reading'[r] \in List /\ reading'[r].rows = RowsOf(r)
                       /\ ~reading'[r].early => SeedingOver
  <1>1. UNCHANGED <<stage, made, left, over, faults>>
    BY DEF Searching, SearchMiss, SetRouteFlights
  <1>2. ASSUME NEW r \in Routes, SearchMiss(r)
        PROVE  /\ UNCHANGED cached /\ reading' \in [Routes -> Entry]
               /\ reading'[r] \in List /\ reading'[r].rows = RowsOf(r)
               /\ ~reading'[r].early => SeedingOver
               /\ \A s \in Routes \ {r} : reading'[s] = reading[s]
    <2> DEFINE list == [rows |-> RowsOf(r), early |-> ~SeedingOver]
    <2>1. RowsOf(r) \in SUBSET (Procs \X DOMAIN Timetable)
      BY FlightsFacts DEF Types, RowsOf
    <2>2. (~SeedingOver) \in BOOLEAN
      <3>1. CASE SeedingOver
        BY <3>1
      <3>2. CASE ~SeedingOver
        BY <3>2
      <3> QED
        BY <3>1, <3>2
    <2>3. list \in List
      BY <2>1, <2>2 DEF List
    <2>4. list.rows = RowsOf(r) /\ (~list.early => SeedingOver)
      OBVIOUS
    <2>5. reading' = [reading EXCEPT ![r] = list] /\ UNCHANGED cached
      BY <1>2 DEF SearchMiss
    <2> HIDE DEF list
    <2> QED
      BY <2>3, <2>4, <2>5 DEF Types, Entry
  <1>3. ASSUME NEW r \in Routes, SetRouteFlights(r)
        PROVE  /\ cached' \in [Routes -> Entry] /\ reading' \in [Routes -> Entry]
               /\ \A s \in Routes : /\ cached'[s] \in {cached[s], reading[s]}
                                    /\ reading'[s] \in {reading[s], NoList}
    BY <1>3 DEF SetRouteFlights, Types, Entry
  <1> QED
    BY <1>1, <1>2, <1>3 DEF Searching, Types

\* Flights leave SCHEDULED and lists are dropped; nothing is listed anew.
LEMMA EndingFacts ==
    ASSUME Types, Ending
    PROVE  /\ UNCHANGED <<stage, made, reading>>
           /\ left' \subseteq flights /\ over' \subseteq Routes
           /\ faults' \in 0..MaxFaults /\ faults' >= faults
           /\ cached' \in [Routes -> Entry]
           /\ \A r \in Routes : cached'[r] \in {cached[r], NoList}
           /\ \A r : RowsOf(r)' \subseteq RowsOf(r)
  <1>1. UNCHANGED <<stage, made, reading>>
    BY DEF Ending, DateEnds, Expire, Evict, LeaveScheduled
  <1>2. /\ left \subseteq left' /\ left' \subseteq flights
        /\ over \subseteq over' /\ over' \subseteq Routes
    BY DEF Ending, DateEnds, Expire, Evict, LeaveScheduled, Types
  <1>3. faults' = faults \/ Fault
    BY DEF Ending, DateEnds, Expire, Evict, LeaveScheduled
  <1>4. UNCHANGED cached \/ \E r \in Routes : cached' = [cached EXCEPT ![r] = NoList]
    BY DEF Ending, DateEnds, Expire, Evict, LeaveScheduled, Dropped
  <1>5. \A r : RowsOf(r)' \subseteq RowsOf(r)
    BY <1>1, <1>2, FlightsKept DEF RowsOf, Scheduled
  <1>6. faults' \in 0..MaxFaults /\ faults' >= faults
    BY <1>3, TimetableFacts DEF Types, Fault
  <1>7. cached' \in [Routes -> Entry] /\ \A r \in Routes : cached'[r] \in {cached[r], NoList}
    BY <1>4 DEF Types, Entry
  <1> QED
    BY <1>1, <1>2, <1>5, <1>6, <1>7

LEMMA TypesStep == Types /\ [Next]_vars => Types'
  <1> SUFFICES ASSUME Types, [Next]_vars PROVE Types'
    OBVIOUS
  <1>1. CASE Entering
    BY <1>1, EnteringFacts, FlightsKept DEF Types
  <1>2. ASSUME NEW p \in Procs, InsertBatch(p) PROVE Types'
    <2>1. UNCHANGED <<left, over, cached, reading, faults>>
      BY <1>2 DEF InsertBatch
    <2>2. stage' \in [Procs -> Stages]
      BY <1>2 DEF InsertBatch, Types, Stages
    <2>3. \A r \in Routes : ListOK(cached[r], r)' /\ ListOK(reading[r], r)'
      BY <1>2, <2>1, FlightsGrow DEF Types, ListOK
    <2> QED
      BY <1>2, <2>1, <2>2, <2>3, FlightsGrow DEF Types
  <1>3. CASE Searching
    <2>1. flights' = flights
      BY <1>3, SearchingFacts, FlightsKept
    <2>2. ASSUME NEW r \in Routes PROVE ListOK(cached[r], r)' /\ ListOK(reading[r], r)'
      <3>1. \A row \in RowsOf(r) : row \in flights /\ Timetable[row[2]] = r
        BY DEF RowsOf
      <3> QED
        BY <1>3, <2>1, <3>1, SearchingFacts DEF Types, ListOK
    <2> QED
      BY <1>3, <2>1, <2>2, SearchingFacts DEF Types
  <1>4. CASE UNCHANGED vars
    BY <1>4, FlightsKept DEF vars, Types
  <1>5. CASE Ending
    <2>1. flights' = flights /\ \A list, r : ListOK(list, r) => ListOK(list, r)'
      BY <1>5, EndingFacts, FlightsKept
    <2>2. \A r \in Routes : ListOK(cached[r], r)' /\ ListOK(reading[r], r)'
      BY <1>5, <2>1, EndingFacts DEF Types, ListOK
    <2> QED
      BY <1>5, <2>1, <2>2, EndingFacts DEF Types
  <1> QED
    BY <1>1, <1>2, <1>3, <1>4, <1>5, NextCases

LEMMA TypesSpec == Spec => []Types
  <1>1. Init => Types
    BY TimetableFacts DEF Init, Types, Entry, ListOK, Stages, Routes
  <1> QED
    BY <1>1, TypesStep, PTL DEF Spec

\* The types of Seeding: what is listed for a route are flights of that route that
\* are in the table, and no process inserts beyond its timetable.
THEOREM TypeCorrect == Spec => []TypeOK
  <1>1. Types => TypeOK
    BY DEF Types, TypeOK, ListOK
  <1> QED
    BY <1>1, TypesSpec, PTL

-----------------------------------------------------------------------------
(* Somebody's timetable is complete.                                       *)

\* Without faults a process that began to insert goes on to the end, and an api
\* that serves has inserted its flights or counted somebody's.
Counting ==
    faults = 0 =>
        /\ \A p \in Procs : made[p] > 0 => stage[p] = "seeding" \/ IsComplete(p)
        /\ \A a \in Apis : stage[a] = "serving" => flights # {} \/ IsComplete(a)

LEMMA CountingStep == Types /\ Counting /\ [Next]_vars => Counting'
  <1> SUFFICES ASSUME Types, Counting, [Next]_vars, faults' = 0 PROVE Counting'
    BY DEF Counting
  <1>1. CASE UNCHANGED <<stage, made>> /\ faults' = faults
    BY <1>1, FlightsKept DEF Counting, IsComplete
  <1>2. CASE Entering
    <2>1. faults = 0 /\ UNCHANGED made /\ flights' = flights
      BY <1>2, EnteringFacts, FlightsKept, TimetableFacts DEF Types
    <2>2. PICK p \in Procs : (p \in Apis /\ SeedIfEmpty(p)) \/ (p \in Seeders /\ RunSeeder(p))
      <3>1. ~Fault
        BY <2>1, TimetableFacts DEF Fault, Types
      <3> QED
        BY <1>2, <3>1 DEF Entering, SeedCheckError, Crash, Procs
    <2>3. /\ stage[p] = "down" /\ stage' \in [Procs -> Stages]
          /\ \A q \in Procs \ {p} : stage'[q] = stage[q]
          /\ stage'[p] \in {"seeding", "serving"} /\ (stage'[p] = "serving" => flights # {})
      BY <2>2 DEF SeedIfEmpty, RunSeeder, Enter, CountsNoRow, Types, Stages
    <2>4. ASSUME NEW q \in Procs, made[q] > 0 PROVE stage'[q] = "seeding" \/ IsComplete(q)
      BY <2>1, <2>3, <2>4 DEF Counting
    <2>5. ASSUME NEW a \in Apis, stage'[a] = "serving" PROVE flights # {} \/ IsComplete(a)
      BY <2>1, <2>3, <2>5 DEF Counting, Procs
    <2> QED
      BY <2>1, <2>4, <2>5 DEF Counting, IsComplete
  <1>3. ASSUME NEW p \in Procs, InsertBatch(p) PROVE Counting'
    <2>1. /\ faults = 0 /\ stage[p] = "seeding"
          /\ \A q \in Procs \ {p} : stage'[q] = stage[q]
      BY <1>3 DEF InsertBatch, Types
    <2>2. ASSUME NEW q \in Procs, made'[q] > 0
          PROVE  stage'[q] = "seeding" \/ made'[q] = Len(Timetable)
      BY <1>3, <2>1, <2>2, FlightsGrow DEF Counting, IsComplete
    <2>3. ASSUME NEW a \in Apis, stage'[a] = "serving"
          PROVE  flights' # {} \/ made'[a] = Len(Timetable)
      BY <1>3, <2>1, <2>3, FlightsGrow DEF Counting, IsComplete, Procs
    <2> QED
      BY <2>2, <2>3 DEF Counting, IsComplete
  <1>4. CASE Searching \/ UNCHANGED vars
    BY <1>1, <1>4, SearchingFacts DEF vars
  <1>5. CASE Ending
    <2>1. faults = 0 /\ UNCHANGED <<stage, made>>
      BY <1>5, EndingFacts, TimetableFacts DEF Types
    <2> QED
      BY <2>1, FlightsKept DEF Counting, IsComplete
  <1> QED
    BY <1>2, <1>3, <1>4, <1>5, NextCases

\* An api that counts rows and seeds nothing may rely on them: unless something
\* fails, the process that is inserting them completes its timetable, so one that
\* serves while nobody is seeding serves a whole timetable.
THEOREM ServesComplete == Spec => []ServedComplete
  <1>1. Init => Counting
    BY TimetableFacts DEF Init, Counting, Procs
  <1>2. Spec => []Counting
    BY <1>1, TypesSpec, CountingStep, PTL DEF Spec
  <1>3. Types /\ Counting => ServedComplete
    <2> SUFFICES ASSUME Types, Counting, faults = 0, NEW a \in Apis, stage[a] = "serving",
                        \A p \in Procs : stage[p] # "seeding"
                 PROVE  \E p \in Procs : IsComplete(p)
      BY DEF ServedComplete
    <2>1. CASE flights # {}
      <3>1. PICK row \in flights : row \in Procs \X DOMAIN Timetable /\ made[row[1]] > 0
        BY <2>1, FlightsFacts DEF Types
      <3> QED
        BY <3>1 DEF Counting
    <2>2. CASE IsComplete(a)
      BY <2>2 DEF Procs
    <2> QED
      BY <2>1, <2>2 DEF Counting
  <1> QED
    BY <1>2, <1>3, TypesSpec, PTL

-----------------------------------------------------------------------------
(* Lists that were read late.                                              *)

\* A list with flights that was read when the seeding was over has all that the
\* table offers, and the seeding stays over: no api seeds a table that has flights.
Late(list, r) ==
    list # NoList /\ ~list.early /\ list.rows # {} =>
        SeedingOver /\ RowsOf(r) \subseteq list.rows
LateOK == \A r \in Routes : Late(cached[r], r) /\ Late(reading[r], r)

LEMMA LateStep == Types /\ LateOK /\ [Next]_vars => LateOK'
  <1> SUFFICES ASSUME Types, LateOK, [Next]_vars PROVE LateOK'
    OBVIOUS
  <1>1. ASSUME SeedingOver => SeedingOver' /\ UNCHANGED <<made, left, over>>,
               UNCHANGED <<cached, reading>>
        PROVE  LateOK'
    BY <1>1, FlightsKept DEF LateOK, Late
  <1>2. CASE Entering
    <2>1. UNCHANGED <<made, left, over, cached, reading>>
      BY <1>2, EnteringFacts
    <2>2. CASE flights = {}
      <3>1. \A r \in Routes : /\ cached[r] # NoList => cached[r].rows = {}
                              /\ reading[r] # NoList => reading[r].rows = {}
        BY <2>2 DEF Types, ListOK
      <3> QED
        BY <2>1, <3>1 DEF LateOK, Late
    <2>3. CASE flights # {} /\ SeedingOver
      <3>1. \A s \in Seeders : stage[s] = "over"
        BY <2>3 DEF SeedingOver, Procs
      <3>2. PICK p \in Procs, to \in {"down", "serving"} :
                /\ stage' = [stage EXCEPT ![p] = to] /\ stage[p] # "over"
        BY <1>2, <2>3, <3>1 DEF Entering, SeedIfEmpty, SeedCheckError, RunSeeder, Crash, Enter,
           CountsNoRow, SeedingOver, Procs
      <3>3. SeedingOver'
        BY <2>3, <3>1, <3>2 DEF SeedingOver, Types, Procs
      <3> QED
        BY <1>1, <2>1, <3>3
    <2>4. CASE ~SeedingOver
      BY <1>1, <2>1, <2>4
    <2> QED
      BY <2>2, <2>3, <2>4
  <1>3. ASSUME NEW p \in Procs, InsertBatch(p) PROVE LateOK'
    <2>1. ~SeedingOver /\ UNCHANGED <<cached, reading>>
      BY <1>3 DEF InsertBatch, SeedingOver
    <2> QED
      BY <1>1, <2>1
  <1>4. CASE Searching
    <2>1. /\ UNCHANGED <<stage, made>> /\ (SeedingOver' <=> SeedingOver)
          /\ \A r : RowsOf(r)' = RowsOf(r)
      BY <1>4, SearchingFacts, FlightsKept DEF SeedingOver
    <2>2. ASSUME NEW r \in Routes PROVE Late(cached[r], r)' /\ Late(reading[r], r)'
      BY <1>4, <2>1, SearchingFacts DEF LateOK, Late
    <2> QED
      BY <2>2 DEF LateOK
  <1>5. CASE UNCHANGED vars
    BY <1>1, <1>5 DEF vars, SeedingOver
  <1>6. CASE Ending
    <2>1. /\ UNCHANGED reading /\ (SeedingOver' <=> SeedingOver)
          /\ \A r : RowsOf(r)' \subseteq RowsOf(r)
      BY <1>6, EndingFacts DEF SeedingOver
    <2>2. ASSUME NEW r \in Routes PROVE Late(cached[r], r)' /\ Late(reading[r], r)'
      BY <1>6, <2>1, EndingFacts DEF LateOK, Late
    <2> QED
      BY <2>2 DEF LateOK
  <1> QED
    BY <1>2, <1>3, <1>4, <1>5, <1>6, NextCases

\* No INSERT updates a list, and none that was read after the seeding needs it: it
\* has every flight of its route that can be booked for as long as it lives,
\* whatever failed before and however often an api starts again.
THEOREM LateListsStayComplete == Spec => []LateListsAreComplete
  <1>1. Init => LateOK
    BY DEF Init, LateOK, Late
  <1>2. Spec => []LateOK
    BY <1>1, TypesSpec, LateStep, PTL DEF Spec
  <1>3. LateOK => LateListsAreComplete
    BY DEF LateOK, Late, LateListsAreComplete, Hit
  <1> QED
    BY <1>2, <1>3, PTL

=============================================================================
