----------------------------- MODULE FlightCache -----------------------------
(***************************************************************************)
(* The Redis copies of one route's flights, and the four processes that    *)
(* keep them without any lock:                                             *)
(*                                                                         *)
(*   api          ListFlights fills the route key on a miss                *)
(*   PostgreSQL   notifies every committed change of a flight row          *)
(*   cdc-worker   reads a cached list, changes one flight, writes it back  *)
(*   cron-worker  refreshes the hot keys from the database, at any time    *)
(*                here: SearchDemand counts the searches that decide when  *)
(*                                                                         *)
(* A flight row is how often it was changed and whether it is SCHEDULED:   *)
(* what BookingStore makes of reserved and booked seats is not looked at.  *)
(***************************************************************************)
EXTENDS Naturals, FiniteSets, Sequences, Functions

CONSTANTS
    FromFlights,   \* flights of the origin and the date searched for
    ToFlights,     \* flights to the destination on that date
    HotKeys,       \* the hot lists that are kept: "from", "to" or both
    Readers,       \* requests to the api
    RouteTTL,      \* routeCacheTTL, in ticks
    HotTTL,        \* cfg.HotKeyTTLSec, in ticks
    FallbackTTL,   \* the 5 minutes of UpdateFlightInCachedList, in ticks
    MaxChanges,    \* bound: committed changes of the flights
    MaxFaults      \* bound: lost connections, Redis errors and evictions

ASSUME CacheAssumption ==
    /\ HotKeys \subseteq {"from", "to"} /\ Readers \intersect HotKeys = {}
    /\ RouteTTL \in Nat \ {0} /\ HotTTL \in Nat \ {0} /\ FallbackTTL \in Nat \ {0}
    /\ MaxChanges \in Nat /\ MaxFaults \in Nat

AllFlights == FromFlights \union ToFlights
RouteFlights == FromFlights \intersect ToFlights

Keys == {"route"} \union HotKeys
KeyFlights(k) == CASE k = "route" -> RouteFlights
                   [] k = "from" -> FromFlights
                   [] k = "to" -> ToFlights

VARIABLES
    db,         \* [AllFlights -> Row]
    cache,      \* [Keys -> list or NoEntry]
    hot,        \* keys whose origin or destination is in hot:sources, hot:destinations
    fills,      \* [Readers \union HotKeys -> what was read and is to be written]
    connected,  \* whether the cdc-worker listens
    notices,    \* notifications on their way to it
    work,       \* the notification it is busy with, or NoWork
    faults      \* faults so far

vars == <<db, cache, hot, fills, connected, notices, work, faults>>

Row == [changes : Nat, scheduled : BOOLEAN]

\* A cached list is [rows, ttl, missed]: flights of its key, its time to live,
\* and whether it missed a change, by being read before and written after it or
\* through a fault.  No code reads missed.  What is read and not yet written is
\* [rows, missed], or [rows, ttl, missed] in the hands of the listener, where ttl
\* is what TTL answered once it was asked.
IsList(list, k) ==
    /\ DOMAIN list.rows \subseteq KeyFlights(k) /\ list.rows \in [DOMAIN list.rows -> Row]
    /\ list.missed \in BOOLEAN
NoEntry == << >>
NoFill == << >>
NoWork == << >>

Cached(k) == cache[k] # NoEntry

\* SELECT ... WHERE status = 'SCHEDULED'
Query(k) == Restrict(db, {f \in KeyFlights(k) : db[f].scheduled})

Init ==
    /\ db = [f \in AllFlights |-> [changes |-> 0, scheduled |-> TRUE]]
    /\ cache = [k \in Keys |-> NoEntry]
    /\ hot = {}
    /\ fills = [x \in Readers \union HotKeys |-> NoFill]
    /\ connected = TRUE /\ notices = << >> /\ work = NoWork
    /\ faults = 0

-----------------------------------------------------------------------------
(* PostgreSQL: an UPDATE of a flight commits, and its trigger notifies.    *)

\* The entries in which fs are listed miss a change.
MissedIn(fs) ==
    [k \in Keys |-> IF Cached(k) /\ fs \intersect DOMAIN cache[k].rows # {}
                    THEN [cache[k] EXCEPT !.missed = TRUE] ELSE cache[k]]

\* A flight that left SCHEDULED never returns (BookingStore!NeverReopened).
ChangeFlight(f) ==
    /\ SumFunction([g \in AllFlights |-> db[g].changes]) < MaxChanges
    /\ \E scheduled \in {db[f].scheduled, FALSE} :
          db' = [db EXCEPT ![f] = [changes |-> db[f].changes + 1, scheduled |-> scheduled]]
    /\ fills' = [x \in DOMAIN fills |->
           IF fills[x] # NoFill /\ f \in DOMAIN fills[x].rows
           THEN [fills[x] EXCEPT !.missed = TRUE] ELSE fills[x]]
    /\ IF connected
       THEN notices' = Append(notices, [f |-> f, row |-> db'[f]]) /\ UNCHANGED cache
       ELSE cache' = MissedIn({f}) /\ UNCHANGED notices
    /\ UNCHANGED <<hot, connected, work, faults>>

-----------------------------------------------------------------------------
(* api: ListFlights.                                                       *)

\* Mistake: the hot list is returned for every destination.
FilterNothing(rows) == rows

FilterDestination(rows) == Restrict(rows, DOMAIN rows \intersect RouteFlights)

NonEmpty(k) == Cached(k) /\ DOMAIN cache[k].rows # {}

HotServes == "from" \in hot /\ NonEmpty("from")

\* What a search returns now.
ListFlights ==
    IF HotServes THEN FilterDestination(cache["from"].rows)
    ELSE IF NonEmpty("route") THEN cache["route"].rows
    ELSE Query("route")

Fault == faults < MaxFaults /\ faults' = faults + 1

\* The search finds neither list, or cannot read Redis, and asks the database.
SearchMiss(r) ==
    /\ fills[r] = NoFill
    /\ IF HotServes \/ NonEmpty("route") THEN Fault ELSE UNCHANGED faults
    /\ fills' = [fills EXCEPT ![r] = [rows |-> Query("route"), missed |-> FALSE]]
    /\ UNCHANGED <<db, cache, hot, connected, notices, work>>

SetList(k, x, ttl) ==
    /\ fills[x] # NoFill
    /\ cache' = [cache EXCEPT ![k] = [rows |-> fills[x].rows, ttl |-> ttl, missed |-> fills[x].missed]]
    /\ fills' = [fills EXCEPT ![x] = NoFill]
    /\ UNCHANGED <<db, hot, connected, notices, work, faults>>

\* The key that x fills.
FillKey(x) == IF x \in HotKeys THEN x ELSE "route"

SetRouteFlights(r) == SetList("route", r, RouteTTL)

-----------------------------------------------------------------------------
(* cron-worker: runHotKeyRefresh, one hot origin or destination at a time. *)

RefreshRead(k) ==
    /\ \A h \in HotKeys : fills[h] = NoFill
    /\ hot' = hot \union {k}
    /\ fills' = [fills EXCEPT ![k] = [rows |-> Query(k), missed |-> FALSE]]
    /\ UNCHANGED <<db, cache, connected, notices, work, faults>>

RefreshWrite(k) == SetList(k, k, HotTTL)

-----------------------------------------------------------------------------
(* cdc-worker: listenOnce.                                                 *)

\* Mistake: the hot lists are forgotten.
TouchedKeysRouteOnly(f) == IF f \in RouteFlights THEN <<"route">> ELSE << >>

\* The keys that list f, in the order in which they are brought up to date.
IfTouched(k, f) == IF k \in Keys /\ f \in KeyFlights(k) THEN <<k>> ELSE << >>
TouchedKeys(f) == IfTouched("route", f) \o IfTouched("from", f) \o IfTouched("to", f)

WaitForNotification ==
    /\ connected /\ work = NoWork /\ notices # << >>
    /\ LET todo == TouchedKeys(Head(notices).f) IN
          work' = IF todo = << >> THEN NoWork
                  ELSE [notice |-> Head(notices), todo |-> todo, list |-> NoEntry, asked |-> FALSE]
    /\ notices' = Tail(notices)
    /\ UNCHANGED <<db, cache, hot, fills, connected, faults>>

Finish(todo) ==
    work' = IF todo = << >> THEN NoWork
            ELSE [work EXCEPT !.todo = todo, !.list = NoEntry, !.asked = FALSE]

\* The list of the next key is read, unless its key is missing, is not hot or
\* does not list the flight.
ListenerRead ==
    /\ work # NoWork /\ work.list = NoEntry
    /\ LET k == Head(work.todo)
           f == work.notice.f
           known == k = "route" \/ k \in hot
       IN  IF known /\ Cached(k) /\ f \in DOMAIN cache[k].rows
           THEN work' = [work EXCEPT !.list = cache[k]] /\ UNCHANGED cache
           ELSE /\ Finish(Tail(work.todo))
                /\ cache' = IF known THEN cache ELSE [cache EXCEPT ![k] = MissedIn({f})[k]]
    /\ UNCHANGED <<db, hot, fills, connected, notices, faults>>

\* TTL answers in whole seconds, rounded: 0 in the last half second, and nothing
\* above 0 for a key that is gone.
TTLAnswers(k) == IF Cached(k) THEN {cache[k].ttl, cache[k].ttl - 1} ELSE {0}

\* The time to live of the key is asked for; an error counts as no answer.
ListenerTTL ==
    /\ work # NoWork /\ work.list # NoEntry /\ ~work.asked
    /\ \E answer \in TTLAnswers(Head(work.todo)) \union {0} :
          /\ work' = [work EXCEPT !.list.ttl = answer, !.asked = TRUE]
          /\ IF answer \in TTLAnswers(Head(work.todo)) THEN UNCHANGED faults ELSE Fault
    /\ UNCHANGED <<db, cache, hot, fills, connected, notices>>

\* Mistake: the answer is used whatever it is.
RemainingTTLUnchecked(answer) == answer

\* 5 minutes when the answer is no time to live.
RemainingTTL(answer) == IF answer = 0 THEN FallbackTTL ELSE answer

\* The list is written back, although its key may have run out, or have been
\* filled or refreshed, since it was read.
ListenerWrite ==
    /\ work # NoWork /\ work.list # NoEntry /\ work.asked
    /\ LET rows == [work.list.rows EXCEPT ![work.notice.f] = work.notice.row]
           ttl == RemainingTTL(work.list.ttl)
       IN  cache' = [cache EXCEPT ![Head(work.todo)] = [work.list EXCEPT !.rows = rows, !.ttl = ttl]]
    /\ Finish(Tail(work.todo))
    /\ UNCHANGED <<db, hot, fills, connected, notices, faults>>

-----------------------------------------------------------------------------
(* Faults.                                                                 *)

\* The connection is lost, and with it what was notified and not finished.
ConnectionLost ==
    /\ Fault /\ connected
    /\ connected' = FALSE /\ notices' = << >> /\ work' = NoWork
    /\ cache' = MissedIn({notices[i].f : i \in DOMAIN notices}
                             \union (IF work = NoWork THEN {} ELSE {work.notice.f}))
    /\ UNCHANGED <<db, hot, fills>>

Reconnect ==
    /\ ~connected /\ connected' = TRUE
    /\ UNCHANGED <<db, cache, hot, fills, notices, work, faults>>

\* Another Redis call of the listener fails: it goes on to the next key.
UpdateError ==
    /\ Fault /\ work # NoWork
    /\ cache' = [cache EXCEPT ![Head(work.todo)] = MissedIn({work.notice.f})[Head(work.todo)]]
    /\ Finish(Tail(work.todo))
    /\ UNCHANGED <<db, hot, fills, connected, notices>>

\* A list is read and its SET fails, or its process dies.
FillError(x) ==
    /\ Fault /\ fills[x] # NoFill
    /\ fills' = [fills EXCEPT ![x] = NoFill]
    /\ UNCHANGED <<db, cache, hot, connected, notices, work>>

\* Redis drops any key when memory is short (allkeys-lru).
Evict ==
    /\ Fault
    /\ \/ \E k \in Keys : Cached(k) /\ cache' = [cache EXCEPT ![k] = NoEntry] /\ UNCHANGED hot
       \/ \E k \in hot : hot' = hot \ {k} /\ UNCHANGED cache
    /\ UNCHANGED <<db, fills, connected, notices, work>>

\* A list one tick later.  0 would be a list without expiry.
Aged(k) ==
    IF ~Cached(k) \/ cache[k].ttl = 0 THEN cache[k]
    ELSE IF cache[k].ttl = 1 THEN NoEntry
    ELSE [cache[k] EXCEPT !.ttl = @ - 1]

\* Time passes.
Tick ==
    /\ cache' = [k \in Keys |-> Aged(k)]
    /\ cache' # cache
    /\ UNCHANGED <<db, hot, fills, connected, notices, work, faults>>

-----------------------------------------------------------------------------

Listener == WaitForNotification \/ ListenerRead \/ ListenerTTL \/ ListenerWrite

\* Everything but the cron's refresh and the clock.
CacheStep ==
    \/ \E f \in AllFlights : ChangeFlight(f)
    \/ \E r \in Readers : SearchMiss(r) \/ SetRouteFlights(r) \/ FillError(r)
    \/ Listener
    \/ ConnectionLost \/ Reconnect \/ UpdateError
    \/ Evict

Next ==
    \/ CacheStep
    \/ \E k \in HotKeys : RefreshRead(k) \/ RefreshWrite(k) \/ FillError(k)
    \/ Tick

Spec == Init /\ [][Next]_vars

\* Time passes, and a connected listener works through its notifications.
FairSpec == Spec /\ WF_vars(Tick) /\ WF_vars(Listener)

-----------------------------------------------------------------------------
(* Properties.                                                             *)

\* Lists hold rows of their own flights and run out; the listener's work
\* names a key that lists its flight.
TypeOK ==
    /\ db \in [AllFlights -> Row]
    /\ \A k \in Keys : Cached(k) => IsList(cache[k], k) /\ cache[k].ttl \in Nat \ {0}
    /\ hot \subseteq HotKeys
    /\ \A x \in DOMAIN fills : fills[x] # NoFill => IsList(fills[x], FillKey(x))
    /\ connected \in BOOLEAN /\ (notices # << >> \/ work # NoWork => connected)
    /\ work # NoWork =>
          /\ work.todo # << >> /\ work.notice.f \in KeyFlights(Head(work.todo))
          /\ work.list # NoEntry => IsList(work.list, Head(work.todo))

Quiet == notices = << >> /\ work = NoWork

\* Once the listener has nothing left to do, a cached flight is out of date
\* only if its list was read before and written after a change, or a fault kept
\* the change from it: the notifications keep every other list current,
\* whatever fills, refreshes, expiries and older notifications they meet.
StaleOnlyIfMissed ==
    Quiet => \A k \in Keys : Cached(k) /\ ~cache[k].missed =>
        \A f \in DOMAIN cache[k].rows : cache[k].rows[f] = db[f]

\* Whichever list serves a search, and however old it is, the search returns
\* every flight of its route that still takes bookings, and none of another.
SearchIsComplete ==
    /\ {f \in RouteFlights : db[f].scheduled} \subseteq DOMAIN ListFlights
    /\ DOMAIN ListFlights \subseteq RouteFlights

\* Once changes stop (MaxChanges), no list stays out of date: it is refreshed,
\* brought up to date or expires, although each notification still on its way may
\* write it back after it has run out, or renew it for 5 minutes as it runs out.
\* (While a flight of the list goes on changing there is no such end: each change
\* may renew the list, with an old row of another flight in it.)
IsStale(k) == Cached(k) /\ \E f \in DOMAIN cache[k].rows : cache[k].rows[f] # db[f]
StaleEnds == \A k \in Keys : IsStale(k) ~> ~IsStale(k)

(* What the documents say and the code does not do. *)

\* HLD.md:397 "This ensures the View Flights service reflects near-real-time
\* seat availability": once every change has been processed by the listener,
\* the cached lists show the database.
CurrentWhenQuiet ==
    Quiet => \A k \in Keys : Cached(k) =>
        \A f \in DOMAIN cache[k].rows : cache[k].rows[f] = db[f]
=============================================================================
