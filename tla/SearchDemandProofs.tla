------------------------- MODULE SearchDemandProofs --------------------------
(***************************************************************************)
(* Proofs about SearchDemand.  Whatever the searches make hot, the cron    *)
(* refreshes lists only as FlightCache allows, so its theorems hold here.  *)
(***************************************************************************)
EXTENDS SearchDemand, SumProofs, FlightCacheProofs

-----------------------------------------------------------------------------
(* The round.                                                              *)

Round == {<< >>} \union {<<k>> : k \in HotKeys}
            \union (IF {"from", "to"} \subseteq HotKeys THEN {<<"from", "to">>} ELSE {})

\* A list is read only for the key the round is at.
RoundOK ==
    /\ round \in Round
    /\ \A k \in HotKeys : fills[k] # NoFill => round # << >> /\ Head(round) = k

LEMMA RoundFacts ==
    ASSUME NEW r \in Round
    PROVE  r # << >> => Head(r) \in HotKeys /\ Tail(r) \in Round
  <1>1. ASSUME NEW k \in HotKeys, r = <<k>> PROVE Head(r) \in HotKeys /\ Tail(r) \in Round
    <2>1. Head(r) = k /\ Tail(r) = << >>
      BY <1>1
    <2> QED
      BY <2>1 DEF Round
  <1>2. ASSUME {"from", "to"} \subseteq HotKeys, r = <<"from", "to">>
        PROVE  Head(r) \in HotKeys /\ Tail(r) \in Round
    <2>1. Head(r) = "from" /\ Tail(r) = <<"to">>
      BY <1>2
    <2> QED
      BY <1>2, <2>1 DEF Round
  <1> QED
    BY <1>1, <1>2 DEF Round

LEMMA NewRound == IfHot("from") \o IfHot("to") \in Round
  <1>1. CASE "from" \in HotKeys /\ "to" \in HotKeys
    <2>1. IfHot("from") = <<"from">> /\ IfHot("to") = <<"to">>
      BY <1>1 DEF IfHot
    <2>2. <<"from">> \o <<"to">> = <<"from", "to">>
      <3> DEFINE both == <<"from">> \o <<"to">>
      <3>1. both \in Seq({"from", "to"}) /\ <<"from", "to">> \in Seq({"from", "to"})
        OBVIOUS
      <3>2. Len(both) = 2 /\ both[1] = "from" /\ both[2] = "to"
        OBVIOUS
      <3> DEFINE pair == <<"from", "to">>
      <3>3. Len(pair) = 2 /\ pair[1] = "from" /\ pair[2] = "to"
        OBVIOUS
      <3> HIDE DEF both, pair
      <3>4. Len(both) = Len(pair) /\ \A i \in 1..Len(both) : both[i] = pair[i]
        BY <3>2, <3>3
      <3>5. both = pair
        BY <3>1, <3>4, SeqEqual DEF pair
      <3> QED
        BY <3>5 DEF both, pair
    <2> QED
      BY <1>1, <2>1, <2>2 DEF Round
  <1>2. CASE "from" \in HotKeys /\ "to" \notin HotKeys
    <2>1. IfHot("from") = <<"from">> /\ IfHot("to") = << >>
      BY <1>2 DEF IfHot
    <2>2. <<"from">> \o << >> = <<"from">>
      OBVIOUS
    <2> QED
      BY <1>2, <2>1, <2>2 DEF Round
  <1>3. CASE "from" \notin HotKeys /\ "to" \in HotKeys
    <2>1. IfHot("from") = << >> /\ IfHot("to") = <<"to">>
      BY <1>3 DEF IfHot
    <2>2. << >> \o <<"to">> = <<"to">>
      OBVIOUS
    <2> QED
      BY <1>3, <2>1, <2>2 DEF Round
  <1>4. CASE "from" \notin HotKeys /\ "to" \notin HotKeys
    <2>1. IfHot("from") = << >> /\ IfHot("to") = << >>
      BY <1>4 DEF IfHot
    <2>2. << >> \o << >> = << >>
      OBVIOUS
    <2> QED
      BY <2>1, <2>2 DEF Round
  <1> QED
    BY <1>1, <1>2, <1>3, <1>4

\* The steps of FlightCache that are taken outside of a round read no hot list.
LEMMA CacheStepFills ==
    ASSUME Types, CacheStep, NEW k \in HotKeys, fills'[k] # NoFill
    PROVE  fills[k] # NoFill
  <1>1. k \in Fillers
    BY DEF Fillers
  <1>2. ASSUME NEW f \in AllFlights, ChangeFlight(f) PROVE fills[k] # NoFill
    BY <1>1, <1>2, ChangeFills
  <1>3. ASSUME NEW r \in Readers, SearchMiss(r) \/ SetRouteFlights(r) \/ FillError(r)
        PROVE  fills[k] # NoFill
    <2>1. r # k /\ r \in Fillers
      BY CacheAssumption DEF Fillers
    <2>2. fills'[k] = fills[k]
      BY <1>1, <1>3, <2>1 DEF SearchMiss, SetRouteFlights, SetList, FillError, Types, IsFills
    <2> QED
      BY <2>2
  <1>4. CASE UNCHANGED fills
    BY <1>4
  <1> QED
    BY <1>2, <1>3, <1>4 DEF CacheStep, Listener, WaitForNotification, ListenerRead, ListenerTTL,
       ListenerWrite, ConnectionLost, Reconnect, UpdateError, Evict

-----------------------------------------------------------------------------
(* Every step is one of FlightCache, or leaves the lists alone.            *)

LEMMA DemandStep == RoundOK /\ [DemandNext]_demandVars => [Next]_vars
  <1> SUFFICES ASSUME RoundOK, [DemandNext]_demandVars PROVE [Next]_vars
    OBVIOUS
  <1>1. ASSUME NEW k \in HotKeys, IncrSearch(k) \/ IncrSearchError(k) \/ EvictCounter(k)
        PROVE  UNCHANGED vars
    BY <1>1 DEF IncrSearch, IncrSearchError, EvictCounter
  <1>2. CASE StartRound \/ LookError
    BY <1>2 DEF StartRound, LookError
  <1>3. CASE Look
    <2>1. PICK k \in HotKeys : SkipCold(k) \/ WarmRead(k) \/ WarmWrite(k)
      BY <1>3, RoundFacts DEF Look, RoundOK
    <2> QED
      BY <2>1 DEF SkipCold, WarmRead, WarmWrite, Next
  <1>4. CASE WarmError
    <2>1. PICK k \in HotKeys : FillError(k)
      BY <1>4, RoundFacts DEF WarmError, RoundOK
    <2> QED
      BY <2>1 DEF Next
  <1>5. CASE CacheStep
    BY <1>5 DEF Next
  <1>6. CASE DemandTick
    BY <1>6 DEF DemandTick, Next, Tick, vars
  <1>7. CASE UNCHANGED demandVars
    BY <1>7 DEF demandVars
  <1> QED
    BY <1>1, <1>2, <1>3, <1>4, <1>5, <1>6, <1>7 DEF DemandNext

LEMMA RoundStep == Types /\ RoundOK /\ [DemandNext]_demandVars => RoundOK'
  <1> SUFFICES ASSUME Types, RoundOK, [DemandNext]_demandVars PROVE RoundOK'
    OBVIOUS
  <1>1. CASE UNCHANGED <<fills, round>>
    BY <1>1 DEF RoundOK
  <1>2. ASSUME NEW k \in HotKeys, IncrSearch(k) \/ IncrSearchError(k) \/ EvictCounter(k)
        PROVE  RoundOK'
    BY <1>1, <1>2 DEF IncrSearch, IncrSearchError, EvictCounter, vars
  <1>3. CASE StartRound
    <2>1. round' \in Round /\ UNCHANGED fills /\ round = << >>
      BY <1>3, NewRound DEF StartRound, vars
    <2> QED
      BY <2>1 DEF RoundOK
  <1>4. ASSUME round # << >>, NEW k \in HotKeys, k = Head(round),
               round' \in {Tail(round), << >>}, \A h \in HotKeys : fills'[h] = NoFill
        PROVE  RoundOK'
    BY <1>4, RoundFacts DEF RoundOK, Round
  <1>5. CASE Look
    <2>1. PICK k \in HotKeys : /\ round # << >> /\ k = Head(round)
                               /\ SkipCold(k) \/ WarmRead(k) \/ WarmWrite(k)
      BY <1>5, RoundFacts DEF Look, RoundOK
    <2>2. CASE SkipCold(k)
      <3>1. \A h \in HotKeys : fills'[h] = NoFill
        BY <2>1, <2>2 DEF SkipCold, vars, RoundOK
      <3> QED
        BY <1>4, <2>1, <2>2, <3>1 DEF SkipCold
    <2>3. CASE WarmRead(k)
      <3>1. \A h \in HotKeys \ {k} : fills'[h] = NoFill
        BY <2>3 DEF WarmRead, RefreshRead, Types, IsFills, Fillers
      <3> QED
        BY <2>1, <2>3, <3>1 DEF WarmRead, RoundOK
    <2>4. CASE WarmWrite(k)
      <3>1. \A h \in HotKeys : fills'[h] = NoFill
        BY <2>1, <2>4 DEF WarmWrite, RefreshWrite, SetList, Types, IsFills, Fillers, RoundOK
      <3> QED
        BY <1>4, <2>1, <2>4, <3>1 DEF WarmWrite
    <2> QED
      BY <2>1, <2>2, <2>3, <2>4
  <1>6. CASE LookError \/ WarmError
    <2>1. round # << >> /\ Head(round) \in HotKeys /\ round' \in {Tail(round), << >>}
      BY <1>6, RoundFacts DEF LookError, WarmError, CutShort, RoundOK
    <2>2. \A h \in HotKeys : fills'[h] = NoFill
      BY <1>6, <2>1 DEF LookError, WarmError, FillError, vars, Types, IsFills, Fillers, RoundOK
    <2> QED
      BY <1>4, <2>1, <2>2
  <1>7. CASE CacheStep /\ UNCHANGED round
    BY <1>7, CacheStepFills DEF RoundOK
  <1>8. CASE DemandTick \/ UNCHANGED demandVars
    BY <1>1, <1>8 DEF DemandTick, demandVars, vars
  <1> QED
    BY <1>2, <1>3, <1>5, <1>6, <1>7, <1>8 DEF DemandNext

LEMMA RoundSpec == DemandSpec => [](Types /\ RoundOK)
  <1>1. DemandInit => Types /\ RoundOK
    BY TypesInit DEF DemandInit, RoundOK, Round, Init
  <1>2. Types /\ RoundOK /\ [DemandNext]_demandVars => (Types /\ RoundOK)'
    BY DemandStep, TypesStep, RoundStep
  <1> QED
    BY <1>1, <1>2, PTL DEF DemandSpec

\* The refresh as it is made, for the keys that are searched for, is a behaviour
\* of FlightCache, where a refresh may happen at any time: its lists are current
\* and its searches complete here too.
THEOREM DemandRefines == DemandSpec => Spec
  <1>1. DemandInit => Init
    BY DEF DemandInit
  <1> QED
    BY <1>1, DemandStep, RoundSpec, PTL DEF DemandSpec, Spec

-----------------------------------------------------------------------------
(* Counters.                                                               *)

CountersOK ==
    /\ counter \in [HotKeys -> Counter \union {NoCounter}]
    /\ mishaps \in Nat
    /\ mishaps = 0 => \A k \in HotKeys : Counted(k) => counter[k].ttl > 0
    /\ recent \in [HotKeys -> [0..MetricTTL - 1 -> 0..Threshold]]

LEMMA CountersAreRecords ==
    ASSUME NEW A, NEW B, NEW c \in [count : A, ttl : B]
    PROVE  c # NoCounter
  BY DEF NoCounter

LEMMA CounterFacts ==
    /\ Threshold \in Nat \ {0} /\ MetricTTL \in Nat \ {0}
    /\ \A c \in Counter : c # NoCounter
    /\ \A n \in Nat : UpToThreshold(n) \in 0..Threshold
    /\ \A n \in Nat \ {0} : UpToThreshold(n) \in 1..Threshold
  <1>1. ASSUME NEW c \in Counter PROVE c # NoCounter
    BY CountersAreRecords DEF Counter
  <1> QED
    BY <1>1, DemandAssumption DEF UpToThreshold

LEMMA IncrementedFacts ==
    ASSUME CountersOK, NEW k \in HotKeys, NEW ttl \in 0..MetricTTL, Incremented(k, ttl)
    PROVE  /\ counter' \in [HotKeys -> Counter \union {NoCounter}]
           /\ counter'[k].ttl = ttl /\ \A j \in HotKeys \ {k} : counter'[j] = counter[j]
  <1> DEFINE c == [count |-> UpToThreshold(Count(k) + 1), ttl |-> ttl]
  <1>1. Count(k) + 1 \in Nat \ {0}
    <2>1. CASE Counted(k)
      <3>1. counter[k] \in Counter
        BY <2>1 DEF CountersOK, Counted
      <3> QED
        BY <2>1, <3>1, CounterFacts DEF Count, Counter
    <2>2. CASE ~Counted(k)
      BY <2>2 DEF Count
    <2> QED
      BY <2>1, <2>2
  <1>2. UpToThreshold(Count(k) + 1) \in 1..Threshold
    BY <1>1, CounterFacts
  <1>3. c \in Counter /\ c.ttl = ttl
    BY <1>2 DEF Counter
  <1>4. counter' = [counter EXCEPT ![k] = c]
    BY DEF Incremented
  <1> HIDE DEF c
  <1> QED
    BY <1>3, <1>4 DEF CountersOK

LEMMA AgedCounterFacts ==
    ASSUME CountersOK, NEW k \in HotKeys
    PROVE  /\ AgedCounter(k) \in Counter \union {NoCounter}
           /\ counter[k] # NoCounter /\ counter[k].ttl > 0 /\ AgedCounter(k) # NoCounter
                 => AgedCounter(k).ttl > 0
           /\ counter[k] = NoCounter => AgedCounter(k) = NoCounter
  <1>1. CASE ~Counted(k)
    BY <1>1 DEF AgedCounter, Counted
  <1>2. CASE Counted(k)
    <2>1. counter[k] \in Counter
      BY <1>2 DEF CountersOK, Counted
    <2>2. counter[k].ttl \in 0..MetricTTL
      BY <2>1 DEF Counter
    <2>3. CASE counter[k].ttl \in {0, 1}
      BY <1>2, <2>1, <2>3 DEF AgedCounter
    <2>4. CASE counter[k].ttl \notin {0, 1}
      <3>1. AgedCounter(k) = [counter[k] EXCEPT !.ttl = @ - 1]
        BY <1>2, <2>4 DEF AgedCounter
      <3>2. counter[k].ttl - 1 \in 0..MetricTTL /\ counter[k].ttl - 1 > 0
        BY <2>2, <2>4, CounterFacts
      <3>3. AgedCounter(k) \in Counter /\ AgedCounter(k).ttl = counter[k].ttl - 1
        BY <2>1, <3>1, <3>2 DEF Counter
      <3> QED
        BY <1>2, <3>2, <3>3 DEF Counted
    <2> QED
      BY <2>3, <2>4
  <1> QED
    BY <1>1, <1>2

LEMMA CountersStep == CountersOK /\ [DemandNext]_demandVars => CountersOK'
  <1> SUFFICES ASSUME CountersOK, [DemandNext]_demandVars PROVE CountersOK'
    OBVIOUS
  <1>1. CASE UNCHANGED <<counter, recent, mishaps>>
    BY <1>1 DEF CountersOK, Counted
  <1>2. ASSUME NEW k \in HotKeys, IncrSearch(k) PROVE CountersOK'
    <2>1. Incremented(k, MetricTTL) /\ UNCHANGED mishaps /\ Searched(k)
      BY <1>2 DEF IncrSearch, RenewedTTL
    <2>2. MetricTTL \in 0..MetricTTL /\ MetricTTL > 0
      BY CounterFacts
    <2>3. recent' \in [HotKeys -> [0..MetricTTL - 1 -> 0..Threshold]]
      <3> DEFINE Ages == 0..MetricTTL - 1
                 Numbers == 0..Threshold
      <3>1. 0 \in Ages /\ \A n \in Numbers : n + 1 \in Nat
        BY CounterFacts
      <3>2. recent \in [HotKeys -> [Ages -> Numbers]] /\ \A n \in Nat : UpToThreshold(n) \in Numbers
        BY CounterFacts DEF CountersOK
      <3> HIDE DEF Ages, Numbers
      <3>3. UpToThreshold(recent[k][0] + 1) \in Numbers
        BY <3>1, <3>2
      <3>4. recent' \in [HotKeys -> [Ages -> Numbers]]
        BY <2>1, <3>1, <3>2, <3>3 DEF Searched
      <3> QED
        BY <3>4 DEF Ages, Numbers
    <2> QED
      BY <2>1, <2>2, <2>3, IncrementedFacts DEF CountersOK, Counted
  <1>3. ASSUME NEW k \in HotKeys, IncrSearchError(k) PROVE CountersOK'
    <2>1. KeptTTL(k) \in 0..MetricTTL
      <3>1. CASE Counted(k)
        <4>1. counter[k] \in Counter
          BY <3>1 DEF CountersOK, Counted
        <4> QED
          BY <3>1, <4>1 DEF KeptTTL, Counter
      <3>2. CASE ~Counted(k)
        BY <3>2, CounterFacts DEF KeptTTL
      <3> QED
        BY <3>1, <3>2
    <2>2. mishaps' \in Nat \ {0} /\ UNCHANGED recent
      BY <1>3 DEF IncrSearchError, Mishap, CountersOK
    <2> QED
      BY <1>3, <2>1, <2>2, IncrementedFacts DEF IncrSearchError, CountersOK
  <1>4. ASSUME NEW k \in HotKeys, EvictCounter(k) PROVE CountersOK'
    <2>1. mishaps' \in Nat \ {0} /\ UNCHANGED recent
      BY <1>4 DEF EvictCounter, Mishap, CountersOK
    <2> QED
      BY <1>4, <2>1 DEF EvictCounter, CountersOK
  <1>5. CASE LookError
    BY <1>5 DEF LookError, Mishap, CountersOK, Counted
  <1>6. CASE StartRound \/ Look \/ WarmError
    BY <1>1, <1>6 DEF StartRound, Look, SkipCold, WarmRead, WarmWrite, WarmError
  <1>7. CASE DemandTick
    <2>1. /\ counter' = [k \in HotKeys |-> AgedCounter(k)] /\ UNCHANGED mishaps
          /\ recent' = [k \in HotKeys |-> [age \in 0..MetricTTL - 1 |->
                 IF age = 0 \/ mishaps > 0 THEN 0 ELSE recent[k][age - 1]]]
      BY <1>7 DEF DemandTick
    <2>2. ASSUME NEW k \in HotKeys, NEW age \in 0..MetricTTL - 1
          PROVE  (IF age = 0 \/ mishaps > 0 THEN 0 ELSE recent[k][age - 1]) \in 0..Threshold
      <3>1. age # 0 => age - 1 \in 0..MetricTTL - 1
        BY CounterFacts
      <3> QED
        BY <3>1, CounterFacts DEF CountersOK
    <2>3. recent' \in [HotKeys -> [0..MetricTTL - 1 -> 0..Threshold]]
      BY <2>1, <2>2
    <2>4. counter' \in [HotKeys -> Counter \union {NoCounter}]
      BY <2>1, AgedCounterFacts
    <2> QED
      BY <2>1, <2>3, <2>4, AgedCounterFacts DEF CountersOK, Counted
  <1>8. CASE CacheStep /\ UNCHANGED <<counter, recent, round, mishaps>>
    BY <1>1, <1>8
  <1>9. CASE UNCHANGED demandVars
    BY <1>1, <1>9 DEF demandVars
  <1> QED
    BY <1>2, <1>3, <1>4, <1>5, <1>6, <1>7, <1>8, <1>9 DEF DemandNext

\* The types of SearchDemand: a counter that every search reached has an expiry,
\* and the only hot list that is read and not yet written is that of the key the
\* round is at.
THEOREM DemandTypeCorrect == DemandSpec => []DemandTypeOK
  <1>1. DemandInit => CountersOK
    BY CounterFacts DEF DemandInit, CountersOK, Counted
  <1>2. DemandSpec => []CountersOK
    BY <1>1, CountersStep, PTL DEF DemandSpec
  <1>3. TypeOK /\ RoundOK /\ CountersOK => DemandTypeOK
    <2>1. RoundOK => round \in {<< >>} \union {<<k>> : k \in HotKeys} \union {<<"from", "to">>}
      BY DEF RoundOK, Round
    <2> QED
      BY <2>1 DEF RoundOK, CountersOK, DemandTypeOK, Counted
  <1> QED
    BY <1>2, <1>3, RoundSpec, DemandRefines, TypeCorrect, PTL

-----------------------------------------------------------------------------
(* The searches that a counter counts.                                     *)

Ages == 0..MetricTTL - 1

\* A search that is not older than the time to live keeps its counter alive.
CountsRecent(k) ==
    /\ Count(k) >= UpToThreshold(SumFunction(recent[k]))
    /\ \A age \in Ages : recent[k][age] > 0 => Counted(k) /\ counter[k].ttl + age >= MetricTTL

DemandOK == mishaps = 0 => \A k \in HotKeys : CountsRecent(k)

LEMMA SumFacts ==
    /\ IsFiniteSet(Ages) /\ 0 \in Ages
    /\ \A r \in [Ages -> 0..Threshold] :
          /\ r \in [Ages -> Nat] /\ SumFunction(r) \in Nat
          /\ (\A age \in Ages : r[age] = 0) => SumFunction(r) = 0
  <1>1. IsFiniteSet(Ages) /\ 0 \in Ages
    BY CounterFacts, FS_Interval DEF Ages
  <1>2. ASSUME NEW r \in [Ages -> 0..Threshold] PROVE r \in [Ages -> Nat]
    BY CounterFacts
  <1> QED
    BY <1>1, <1>2, SumNat, SumZero

LEMMA CountNat == ASSUME CountersOK, NEW k \in HotKeys PROVE Count(k) \in Nat
  <1>1. Counted(k) => counter[k] \in Counter
    BY DEF CountersOK, Counted
  <1> QED
    BY <1>1, CounterFacts DEF Count, Counter

LEMMA UpToMonotone ==
    ASSUME NEW m \in Nat, NEW n \in Nat, m <= n
    PROVE  UpToThreshold(m) <= UpToThreshold(n)
  BY CounterFacts DEF UpToThreshold

\* One more search and one more in the counter.
LEMMA CountsSearch ==
    ASSUME CountersOK, NEW k \in HotKeys, mishaps = 0, CountsRecent(k), IncrSearch(k)
    PROVE  CountsRecent(k)'
  <1> DEFINE r == recent[k]
             first == UpToThreshold(r[0] + 1)
             next == [r EXCEPT ![0] = first]
             new == [count |-> UpToThreshold(Count(k) + 1), ttl |-> MetricTTL]
  <1>1. r \in [Ages -> 0..Threshold] /\ r[0] \in Nat /\ Count(k) \in Nat
    BY SumFacts, CountNat DEF CountersOK, Ages
  <1>2. first \in Nat /\ first <= r[0] + 1 /\ first \in 0..Threshold
    BY <1>1, CounterFacts DEF UpToThreshold
  <1>3. /\ recent' = [recent EXCEPT ![k] = next] /\ recent'[k] = next
        /\ next \in [Ages -> 0..Threshold]
    <2>1. recent' = [recent EXCEPT ![k][0] = first]
      BY DEF IncrSearch, Searched
    <2>2. k \in DOMAIN recent
      BY DEF CountersOK
    <2> QED
      BY <1>1, <1>2, <2>1, <2>2, SumFacts
  <1>4. counter' = [counter EXCEPT ![k] = new] /\ counter'[k] = new
    BY DEF IncrSearch, Incremented, RenewedTTL, CountersOK
  <1>5. Counted(k)' /\ Count(k)' = UpToThreshold(Count(k) + 1) /\ counter'[k].ttl = MetricTTL
    <2>1. new # NoCounter
      <3>1. new \in [count : {UpToThreshold(Count(k) + 1)}, ttl : {MetricTTL}]
        OBVIOUS
      <3> HIDE DEF new
      <3> QED
        BY <3>1, CountersAreRecords
    <2> QED
      BY <1>4, <2>1 DEF Counted, Count
  <1>6. SumFunction(next) \in Nat /\ SumFunction(r) \in Nat /\ SumFunction(next) <= SumFunction(r) + 1
    <2>1. next \in [Ages -> Nat] /\ r \in [Ages -> Nat] /\ next[0] = first
          /\ \A age \in Ages \ {0} : next[age] = r[age]
      BY <1>1, <1>2, <1>3, SumFacts
    <2> HIDE DEF next, r, first
    <2>2. SumFunction(next) + r[0] = SumFunction(r) + first
      BY <2>1, SumFacts, SumUpdate
    <2>3. SumFunction(next) \in Nat /\ SumFunction(r) \in Nat
      BY <1>1, <1>3, SumFacts
    <2> QED
      BY <1>1, <1>2, <2>2, <2>3
  <1>7. UpToThreshold(Count(k) + 1) >= UpToThreshold(SumFunction(next))
    <2>1. UpToThreshold(SumFunction(next)) <= UpToThreshold(SumFunction(r) + 1)
      BY <1>6, UpToMonotone
    <2>2. Count(k) >= UpToThreshold(SumFunction(r))
      BY DEF CountsRecent
    <2>3. UpToThreshold(SumFunction(r) + 1) <= UpToThreshold(Count(k) + 1)
      <3> HIDE DEF r
      <3> QED
        BY <1>1, <1>6, <2>2, CounterFacts DEF UpToThreshold
    <2>4. /\ UpToThreshold(SumFunction(next)) \in Nat /\ UpToThreshold(SumFunction(r) + 1) \in Nat
          /\ UpToThreshold(Count(k) + 1) \in Nat
      BY <1>1, <1>6, CounterFacts
    <2> QED
      BY <2>1, <2>3, <2>4
  <1>8. ASSUME NEW age \in Ages PROVE counter'[k].ttl + age >= MetricTTL
    BY <1>5, CounterFacts DEF Ages
  <1> QED
    BY <1>3, <1>5, <1>7, <1>8 DEF CountsRecent, Ages, Count, Counted

\* A tick takes the counter of no search that is young enough.
LEMMA CountsAged ==
    ASSUME CountersOK, NEW k \in HotKeys, mishaps = 0, CountsRecent(k), DemandTick
    PROVE  CountsRecent(k)'
  <1> DEFINE r == recent[k]
             next == recent'[k]
  <1>1. r \in [Ages -> 0..Threshold] /\ r \in [Ages -> Nat]
    BY SumFacts DEF CountersOK, Ages
  <1>2. /\ next = [age \in Ages |-> IF age = 0 THEN 0 ELSE r[age - 1]]
        /\ counter'[k] = AgedCounter(k)
    BY DEF DemandTick, Ages
  <1>3. ASSUME NEW age \in Ages
        PROVE  /\ next[age] = IF age = 0 THEN 0 ELSE r[age - 1]
               /\ age # 0 => age - 1 \in Ages /\ age \in Nat
    BY <1>2, CounterFacts DEF Ages
  <1>4. next \in [Ages -> 0..Threshold] /\ next \in [Ages -> Nat]
    <2>1. \A age \in Ages : (IF age = 0 THEN 0 ELSE r[age - 1]) \in 0..Threshold
      BY <1>1, <1>3, CounterFacts
    <2>2. next \in [Ages -> 0..Threshold]
      BY <1>2, <2>1
    <2> QED
      BY <2>2, SumFacts
  <1>5. SumFunction(next) <= SumFunction(r) /\ SumFunction(next) \in Nat /\ SumFunction(r) \in Nat
    <2> HIDE DEF next, r
    <2>1. SumFunction(next) <= SumFunction(r)
      BY <1>1, <1>3, <1>4, CounterFacts, SumShift DEF Ages
    <2> QED
      BY <1>1, <1>4, <2>1, SumFacts
  <1>6. CASE ~Counted(k)
    <2>1. ~Counted(k)'
      BY <1>2, <1>6 DEF AgedCounter, Counted
    <2>2. \A age \in Ages : r[age] = 0
      BY <1>1, <1>6 DEF CountsRecent
    <2>3. \A age \in Ages : next[age] = 0
      BY <1>3, <2>2
    <2>4. SumFunction(next) = 0
      BY <1>4, <2>3, SumFacts
    <2> QED
      BY <2>1, <2>3, <2>4, CounterFacts DEF CountsRecent, Count, Ages, Counted, UpToThreshold
  <1>7. CASE Counted(k) /\ counter[k].ttl = 1
    <2>1. ~Counted(k)'
      BY <1>2, <1>7 DEF AgedCounter, Counted
    <2>2. \A age \in Ages : age < MetricTTL - 1 => r[age] = 0
      BY <1>1, <1>7, CounterFacts DEF CountsRecent, Ages
    <2>3. \A age \in Ages : next[age] = 0
      BY <1>3, <2>2, CounterFacts DEF Ages
    <2>4. SumFunction(next) = 0
      BY <1>4, <2>3, SumFacts
    <2> QED
      BY <2>1, <2>3, <2>4, CounterFacts DEF CountsRecent, Count, Ages, Counted, UpToThreshold
  <1>8. CASE Counted(k) /\ counter[k].ttl # 1
    <2>1. counter[k] \in Counter /\ counter[k].ttl # 0
      BY <1>8 DEF CountersOK, Counted
    <2>2. counter'[k] = [counter[k] EXCEPT !.ttl = @ - 1]
      BY <1>2, <1>8, <2>1 DEF AgedCounter
    <2>3. /\ counter'[k].count = counter[k].count
          /\ counter'[k].ttl = counter[k].ttl - 1 /\ counter[k].ttl \in Nat
      BY <2>1, <2>2, CounterFacts DEF Counter
    <2>4. Counted(k)'
      <3>1. counter[k].ttl - 1 \in 0..MetricTTL
        BY <2>1, <2>3, CounterFacts DEF Counter
      <3>2. counter'[k] \in Counter
        BY <2>1, <2>2, <3>1 DEF Counter
      <3> QED
        BY <3>2, CounterFacts DEF Counted
    <2>5. Count(k)' = Count(k)
      BY <1>8, <2>3, <2>4 DEF Count, Counted
    <2>6. UpToThreshold(SumFunction(next)) <= Count(k)
      <3>1. UpToThreshold(SumFunction(next)) <= UpToThreshold(SumFunction(r))
        BY <1>5, UpToMonotone
      <3>2. UpToThreshold(SumFunction(r)) <= Count(k) /\ Count(k) \in Nat
        BY CountNat DEF CountsRecent
      <3>3. UpToThreshold(SumFunction(r)) \in Nat /\ UpToThreshold(SumFunction(next)) \in Nat
        BY <1>5, CounterFacts
      <3> QED
        BY <3>1, <3>2, <3>3
    <2>7. ASSUME NEW age \in Ages, next[age] > 0 PROVE counter'[k].ttl + age >= MetricTTL
      <3>1. age # 0 /\ r[age - 1] > 0 /\ age - 1 \in Ages /\ age \in Nat
        BY <1>3, <2>7
      <3>2. counter[k].ttl + (age - 1) >= MetricTTL
        BY <3>1 DEF CountsRecent
      <3> QED
        BY <3>1, <3>2, <2>3, CounterFacts
    <2>8. Count(k)' >= UpToThreshold(SumFunction(next))
      <3>1. Count(k)' \in Nat
        BY <2>5, CountNat
      <3>2. UpToThreshold(SumFunction(next)) \in Nat
        BY <1>5, CounterFacts
      <3> QED
        BY <2>5, <2>6, <3>1, <3>2
    <2> QED
      BY <2>4, <2>7, <2>8 DEF CountsRecent, Ages, Count, Counted
  <1> QED
    BY <1>6, <1>7, <1>8

LEMMA DemandOKStep == CountersOK /\ DemandOK /\ [DemandNext]_demandVars => DemandOK'
  <1> SUFFICES ASSUME CountersOK, DemandOK, [DemandNext]_demandVars, mishaps' = 0,
                      NEW k \in HotKeys
               PROVE  CountsRecent(k)'
    BY DEF DemandOK
  <1>1. ASSUME mishaps = 0, counter'[k] = counter[k], recent'[k] = recent[k]
        PROVE  CountsRecent(k)'
    BY <1>1 DEF DemandOK, CountsRecent, Count, Counted, Ages
  <1>2. ~Mishap
    BY DEF Mishap, CountersOK
  <1>3. ASSUME NEW j \in HotKeys, IncrSearch(j) PROVE CountsRecent(k)'
    <2>1. mishaps = 0
      BY <1>3 DEF IncrSearch
    <2>2. CASE j = k
      BY <1>3, <2>1, <2>2, CountsSearch DEF DemandOK
    <2>3. CASE j # k
      BY <1>1, <1>3, <2>1, <2>3 DEF IncrSearch, Incremented, Searched, CountersOK
    <2> QED
      BY <2>2, <2>3
  <1>4. ASSUME NEW j \in HotKeys, IncrSearchError(j) \/ EvictCounter(j) PROVE FALSE
    BY <1>2, <1>4 DEF IncrSearchError, EvictCounter
  <1>5. CASE LookError
    BY <1>2, <1>5 DEF LookError
  <1>6. CASE StartRound \/ Look \/ WarmError
    BY <1>1, <1>6 DEF StartRound, Look, SkipCold, WarmRead, WarmWrite, WarmError
  <1>7. CASE DemandTick
    <2>1. mishaps = 0
      BY <1>7 DEF DemandTick
    <2> QED
      BY <1>7, <2>1, CountsAged DEF DemandOK
  <1>8. CASE UNCHANGED <<counter, recent, round, mishaps>>
    BY <1>1, <1>8
  <1>9. CASE UNCHANGED demandVars
    BY <1>1, <1>9 DEF demandVars
  <1> QED
    BY <1>3, <1>4, <1>5, <1>6, <1>7, <1>8, <1>9 DEF DemandNext

\* No search is forgotten before its time: while nothing goes wrong, a counter
\* shows at least the searches made within its time to live, up to the threshold.
THEOREM DemandIsRemembered == DemandSpec => []NoDemandForgotten
  <1>1. DemandInit => CountersOK /\ DemandOK
    <2> SUFFICES ASSUME DemandInit PROVE CountersOK /\ DemandOK
      OBVIOUS
    <2>1. CountersOK
      BY CounterFacts DEF DemandInit, CountersOK, Counted
    <2>2. ASSUME NEW k \in HotKeys PROVE CountsRecent(k)
      <3>1. recent[k] \in [Ages -> 0..Threshold] /\ \A age \in Ages : recent[k][age] = 0
        BY <2>1 DEF DemandInit, Ages, CountersOK
      <3>2. SumFunction(recent[k]) = 0
        BY <3>1, SumFacts
      <3>3. Count(k) \in Nat /\ UpToThreshold(0) = 0
        BY <2>1, CountNat, CounterFacts DEF UpToThreshold
      <3> QED
        BY <3>1, <3>2, <3>3 DEF CountsRecent
    <2> QED
      BY <2>1, <2>2 DEF DemandOK
  <1>2. CountersOK /\ DemandOK /\ [DemandNext]_demandVars => (CountersOK /\ DemandOK)'
    BY CountersStep, DemandOKStep
  <1>3. DemandOK => NoDemandForgotten
    BY DEF DemandOK, CountsRecent, NoDemandForgotten
  <1> QED
    BY <1>1, <1>2, <1>3, PTL DEF DemandSpec

-----------------------------------------------------------------------------
(* A counter ends with the last search it has counted.                     *)

\* Some search of the time that is left to the counter gave it that time.
FromSearch(k) ==
    Counted(k) => \E age \in Ages : recent[k][age] > 0 /\ counter[k].ttl + age = MetricTTL
AllFromSearch == mishaps = 0 => \A k \in HotKeys : FromSearch(k)

\* A search gives its counter the full time.
LEMMA FromThisSearch ==
    ASSUME CountersOK, NEW k \in HotKeys, mishaps = 0, IncrSearch(k)
    PROVE  FromSearch(k)'
  <1>1. recent[k] \in [Ages -> 0..Threshold] /\ 0 \in Ages /\ recent[k][0] \in Nat
    BY SumFacts DEF CountersOK, Ages
  <1>2. UpToThreshold(recent[k][0] + 1) > 0
    BY <1>1, CounterFacts DEF UpToThreshold
  <1>3. recent'[k][0] = UpToThreshold(recent[k][0] + 1)
    BY <1>1 DEF IncrSearch, Searched, CountersOK
  <1>4. counter'[k].ttl = MetricTTL
    BY DEF IncrSearch, Incremented, RenewedTTL, CountersOK
  <1>5. recent'[k][0] > 0
    BY <1>2, <1>3
  <1>6. counter'[k].ttl + 0 = MetricTTL
    BY <1>4, CounterFacts
  <1>7. \E age \in Ages : recent'[k][age] > 0 /\ counter'[k].ttl + age = MetricTTL
    BY <1>1, <1>5, <1>6
  <1> QED
    BY <1>7 DEF FromSearch, Ages

\* Counter and search grow old together, and the counter runs out first.
LEMMA FromAgedSearch ==
    ASSUME CountersOK, NEW k \in HotKeys, mishaps = 0, FromSearch(k), DemandTick
    PROVE  FromSearch(k)'
  <1> SUFFICES ASSUME Counted(k)'
               PROVE  \E age \in Ages : recent'[k][age] > 0 /\ counter'[k].ttl + age = MetricTTL
    BY DEF FromSearch, Ages
  <1>1. counter'[k] = AgedCounter(k)
    BY DEF DemandTick
  <1>2. Counted(k) /\ counter[k].ttl # 1
    BY <1>1 DEF AgedCounter, Counted
  <1>3. counter[k] \in Counter /\ counter[k].ttl # 0
    BY <1>2 DEF CountersOK, Counted
  <1>4. counter[k].ttl \in 2..MetricTTL /\ counter'[k].ttl = counter[k].ttl - 1
    <2>1. counter'[k] = [counter[k] EXCEPT !.ttl = @ - 1]
      BY <1>1, <1>2, <1>3 DEF AgedCounter
    <2> QED
      BY <1>2, <1>3, <2>1, CounterFacts DEF Counter
  <1>5. PICK age \in Ages : recent[k][age] > 0 /\ counter[k].ttl + age = MetricTTL
    BY <1>2 DEF FromSearch
  <1>6. age \in Nat /\ age + 1 \in Ages /\ age + 1 # 0 /\ (age + 1) - 1 = age
    BY <1>4, <1>5, CounterFacts DEF Ages
  <1>7. recent'[k][age + 1] = recent[k][age]
    <2>1. recent'[k] = [a \in Ages |-> IF a = 0 THEN 0 ELSE recent[k][a - 1]]
      BY DEF DemandTick, Ages
    <2> QED
      BY <1>6, <2>1
  <1>8. counter'[k].ttl + (age + 1) = MetricTTL
    BY <1>4, <1>5, <1>6, CounterFacts
  <1> QED
    BY <1>5, <1>6, <1>7, <1>8

LEMMA AllFromSearchStep == CountersOK /\ AllFromSearch /\ [DemandNext]_demandVars => AllFromSearch'
  <1> SUFFICES ASSUME CountersOK, AllFromSearch, [DemandNext]_demandVars, mishaps' = 0,
                      NEW k \in HotKeys
               PROVE  FromSearch(k)'
    BY DEF AllFromSearch
  <1>1. ASSUME mishaps = 0, counter'[k] = counter[k], recent'[k] = recent[k]
        PROVE  FromSearch(k)'
    BY <1>1 DEF AllFromSearch, FromSearch, Counted, Ages
  <1>2. ~Mishap
    BY DEF Mishap, CountersOK
  <1>3. ASSUME NEW j \in HotKeys, IncrSearch(j) PROVE FromSearch(k)'
    <2>1. mishaps = 0
      BY <1>3 DEF IncrSearch
    <2>2. CASE j = k
      BY <1>3, <2>1, <2>2, FromThisSearch
    <2>3. CASE j # k
      BY <1>1, <1>3, <2>1, <2>3 DEF IncrSearch, Incremented, Searched, CountersOK
    <2> QED
      BY <2>2, <2>3
  <1>4. CASE (\E j \in HotKeys : IncrSearchError(j) \/ EvictCounter(j)) \/ LookError
    BY <1>2, <1>4 DEF IncrSearchError, EvictCounter, LookError
  <1>5. CASE StartRound \/ Look \/ WarmError
    BY <1>1, <1>5 DEF StartRound, Look, SkipCold, WarmRead, WarmWrite, WarmError
  <1>6. CASE DemandTick
    <2>1. mishaps = 0
      BY <1>6 DEF DemandTick
    <2> QED
      BY <1>6, <2>1, FromAgedSearch DEF AllFromSearch
  <1>7. CASE UNCHANGED <<counter, recent, round, mishaps>> \/ UNCHANGED demandVars
    BY <1>1, <1>7 DEF demandVars
  <1> QED
    BY <1>3, <1>4, <1>5, <1>6, <1>7 DEF DemandNext

\* Nothing is remembered too long either: while nothing goes wrong, a counter
\* that is there has counted a search of the last MetricTTL ticks.
THEOREM PopularityIsRecent == DemandSpec => []PopularWasSearched
  <1>1. DemandInit => CountersOK /\ AllFromSearch
    BY CounterFacts DEF DemandInit, CountersOK, Counted, AllFromSearch, FromSearch
  <1>2. CountersOK /\ AllFromSearch /\ [DemandNext]_demandVars => (CountersOK /\ AllFromSearch)'
    BY CountersStep, AllFromSearchStep
  <1>3. AllFromSearch => PopularWasSearched
    BY DEF AllFromSearch, FromSearch, PopularWasSearched, Ages
  <1> QED
    BY <1>1, <1>2, <1>3, PTL DEF DemandSpec

-----------------------------------------------------------------------------

\* Searches are complete, whichever keys their number makes hot.
THEOREM DemandSearchesAreComplete == DemandSpec => []SearchIsComplete
  BY DemandRefines, SearchesAreComplete, PTL
=============================================================================
