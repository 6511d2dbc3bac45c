---------------------------- MODULE SearchDemand ----------------------------
(***************************************************************************)
(* Which hot lists of FlightCache are kept, and why: every search counts   *)
(* for its origin and for its destination, in two Redis counters that run  *)
(* out when nobody searches, and the cron-worker refreshes the lists of    *)
(* the keys whose counter has reached a threshold.                         *)
(*                                                                         *)
(* The counter of the route, which no code reads, is left out.             *)
(***************************************************************************)
EXTENDS FlightCache

CONSTANTS
    Threshold,  \* cfg.SourceThreshold and cfg.DestinationThreshold
    MetricTTL,  \* the 24 hours of IncrSearchFrom and IncrSearchTo, in ticks
    MaxMishaps  \* bound: searches not or badly counted, counters evicted,
                \* rounds of the cron cut short

ASSUME DemandAssumption ==
    Threshold \in Nat \ {0} /\ MetricTTL \in Nat \ {0} /\ MaxMishaps \in Nat

VARIABLES
    counter,  \* [HotKeys -> Counter or NoCounter]: metrics:search:from, :to
    recent,   \* [HotKeys -> searches of each age], kept up to the first mishap;
              \* no code reads it
    round,    \* the keys the cron's round has still to look at
    mishaps   \* mishaps so far

demandVars == <<vars, counter, recent, round, mishaps>>

\* Nothing reads how far a counter is above the threshold.
UpToThreshold(n) == IF n > Threshold THEN Threshold ELSE n

\* A time to live of 0 is a counter that never runs out.
Counter == [count : 1..Threshold, ttl : 0..MetricTTL]
NoCounter == << >>
Counted(k) == counter[k] # NoCounter
Count(k) == IF Counted(k) THEN counter[k].count ELSE 0

DemandInit ==
    /\ Init
    /\ counter = [k \in HotKeys |-> NoCounter]
    /\ recent = [k \in HotKeys |-> [age \in 0..MetricTTL - 1 |-> 0]]
    /\ round = << >> /\ mishaps = 0

Mishap == mishaps < MaxMishaps /\ mishaps' = mishaps + 1

-----------------------------------------------------------------------------
(* api: every search, whichever list serves it, starts a goroutine that    *)
(* counts it.  Its errors are ignored.                                     *)

Searched(k) ==
    recent' = IF mishaps = 0 THEN [recent EXCEPT ![k][0] = UpToThreshold(@ + 1)] ELSE recent

Incremented(k, ttl) ==
    counter' = [counter EXCEPT ![k] = [count |-> UpToThreshold(Count(k) + 1), ttl |-> ttl]]

\* INCR leaves the time to live alone, and gives a new counter none.
KeptTTL(k) == IF Counted(k) THEN counter[k].ttl ELSE 0

\* Mistake: EXPIRE for the first search only.
RenewedTTLOnce(k) == IF Counted(k) THEN counter[k].ttl ELSE MetricTTL

\* EXPIRE follows each INCR.
RenewedTTL(k) == MetricTTL

IncrSearch(k) ==
    /\ Searched(k)
    /\ Incremented(k, RenewedTTL(k))
    /\ UNCHANGED <<vars, round, mishaps>>

\* The pipeline is no transaction: it fails before or after its INCR, or a counter
\* at its end runs out in between, and with it the search just counted.
IncrSearchError(k) ==
    /\ Mishap
    /\ \/ Incremented(k, KeptTTL(k)) \/ UNCHANGED counter
       \/ KeptTTL(k) = 1 /\ counter' = [counter EXCEPT ![k] = NoCounter]
    /\ UNCHANGED <<vars, recent, round>>

-----------------------------------------------------------------------------
(* cron-worker: runHotKeyRefresh, first the origins and then the           *)
(* destinations.                                                           *)

IfHot(k) == IF k \in HotKeys THEN <<k>> ELSE << >>

\* One loop waits for the ticker and does the work: ticks meanwhile are dropped.
StartRound ==
    /\ round = << >>
    /\ round' = IfHot("from") \o IfHot("to")
    /\ UNCHANGED <<vars, counter, recent, mishaps>>

\* Mistake: more searches than the threshold.
AboveThreshold(k) == Count(k) > Threshold
\* Mistake: whatever was hot once is refreshed for ever.
HotAlready(k) == Count(k) >= Threshold \/ k \in hot

\* KEYS lists the counter and GET reads it: a counter that is gone is cold.  The
\* two may be one step here, because a counter that is missed by either is one
\* that is cold when it is missed.
IsPopular(k) == Count(k) >= Threshold

SkipCold(k) ==
    /\ fills[k] = NoFill /\ ~IsPopular(k)
    /\ round' = Tail(round)
    /\ UNCHANGED <<vars, counter, recent, mishaps>>

WarmRead(k) == IsPopular(k) /\ RefreshRead(k) /\ UNCHANGED <<counter, recent, round, mishaps>>

WarmWrite(k) == RefreshWrite(k) /\ round' = Tail(round) /\ UNCHANGED <<counter, recent, mishaps>>

Look == round # << >> /\ LET k == Head(round) IN SkipCold(k) \/ WarmRead(k) \/ WarmWrite(k)

CutShort == round' \in {Tail(round), << >>}

\* KEYS or a GET fails, or the process dies, before the key is made hot.
LookError ==
    /\ Mishap /\ round # << >> /\ fills[Head(round)] = NoFill
    /\ CutShort
    /\ UNCHANGED <<vars, counter, recent>>

\* The query or the SET fails, with the key in the hot set already, or the
\* process dies.
WarmError ==
    /\ round # << >> /\ FillError(Head(round))
    /\ CutShort
    /\ UNCHANGED <<counter, recent, mishaps>>

-----------------------------------------------------------------------------
(* Redis and the clock.                                                    *)

EvictCounter(k) ==
    /\ Mishap
    /\ Counted(k) /\ counter' = [counter EXCEPT ![k] = NoCounter]
    /\ UNCHANGED <<vars, recent, round>>

AgedCounter(k) ==
    IF ~Counted(k) \/ counter[k].ttl = 0 THEN counter[k]
    ELSE IF counter[k].ttl = 1 THEN NoCounter
    ELSE [counter[k] EXCEPT !.ttl = @ - 1]

DemandTick ==
    /\ cache' = [k \in Keys |-> Aged(k)]
    /\ counter' = [k \in HotKeys |-> AgedCounter(k)]
    /\ recent' = [k \in HotKeys |-> [age \in 0..MetricTTL - 1 |->
           IF age = 0 \/ mishaps > 0 THEN 0 ELSE recent[k][age - 1]]]
    /\ <<cache, counter, recent>>' # <<cache, counter, recent>>
    /\ UNCHANGED <<db, hot, fills, connected, notices, work, faults, round, mishaps>>

-----------------------------------------------------------------------------

DemandNext ==
    \/ \E k \in HotKeys : IncrSearch(k) \/ IncrSearchError(k) \/ EvictCounter(k)
    \/ StartRound \/ Look \/ LookError \/ WarmError
    \/ CacheStep /\ UNCHANGED <<counter, recent, round, mishaps>>
    \/ DemandTick

DemandSpec == DemandInit /\ [][DemandNext]_demandVars

\* Time passes, the cron's loop goes on and the connected listener works.
\* Nobody has to search.
FairDemandSpec ==
    /\ DemandSpec
    /\ WF_demandVars(DemandTick)
    /\ WF_demandVars(StartRound \/ Look)
    /\ WF_demandVars(Listener /\ UNCHANGED <<counter, recent, round, mishaps>>)

-----------------------------------------------------------------------------
(* Properties.                                                             *)

\* Counters are counters, without an expiry only through a mishap, and a hot list
\* that was read and not yet written is that of the key the round is at.
DemandTypeOK ==
    /\ TypeOK
    /\ \A k \in HotKeys : Counted(k) =>
          counter[k] \in Counter /\ (mishaps = 0 => counter[k].ttl > 0)
    /\ recent \in [HotKeys -> [0..MetricTTL - 1 -> 0..Threshold]]
    /\ round \in {<< >>} \union {<<k>> : k \in HotKeys} \union {<<"from", "to">>}
    /\ \A k \in HotKeys : fills[k] # NoFill => round # << >> /\ Head(round) = k

\* While INCR and EXPIRE of every search both reach the same counter, a counter
\* never shows fewer searches than were made within its time to live: each search
\* keeps those before it alive, so none is forgotten early.
NoDemandForgotten ==
    mishaps = 0 => \A k \in HotKeys : Count(k) >= UpToThreshold(SumFunction(recent[k]))

\* Nor is it remembered too long: a counter stands for a search that was made
\* within its time to live, so nothing stays hot that nobody searches.
PopularWasSearched ==
    mishaps = 0 => \A k \in HotKeys :
        Counted(k) => \E age \in 0..MetricTTL - 1 : recent[k][age] > 0

Popular(k) == Count(k) >= Threshold

\* A key that stays popular is pre-warmed again and again, although its list
\* expires, rounds fail, counters lose their expiry and searches may stop.
PopularIsPrewarmed == \A k \in HotKeys : <>[]Popular(k) => []<>Cached(k)

\* The list of a key that is unpopular for good goes for good once changes have
\* stopped (MaxChanges), although its key stays in the hot set and the listener may
\* write the list back after it has run out, or renew it for 5 minutes as it does.
\* (While a flight of the key goes on changing, each change may renew the list.)
DemandFades == \A k \in HotKeys : <>[]~Popular(k) => <>[]~Cached(k)
=============================================================================
