-------------------------- MODULE FlightCacheProofs --------------------------
(***************************************************************************)
(* Proofs about FlightCache: the types of what it holds, and what a cached *)
(* list may be trusted for.                                                *)
(***************************************************************************)
EXTENDS FlightCache, SequenceTheorems, TLAPS

-----------------------------------------------------------------------------
(* Types.                                                                  *)

\* Rows of flights that key k may list, a list of them in the cache, one that was
\* read and is to be written, and one in the hands of the listener, whose time to
\* live may have been answered with 0.
Rows(k) == UNION {[F -> Row] : F \in SUBSET KeyFlights(k)}
CachedList(k) == [rows : Rows(k), ttl : Nat \ {0}, missed : BOOLEAN]
Fill(k) == [rows : Rows(k), missed : BOOLEAN]
HeldList(k) == [rows : Rows(k), ttl : Nat, missed : BOOLEAN]

Held(k) == HeldList(k) \union {NoEntry}
Entry(k) == CachedList(k) \union {NoEntry}
PendingFill(x) == Fill(FillKey(x)) \union {NoFill}

Fillers == Readers \union HotKeys
IsCache(c) ==
    c \in [Keys -> UNION {Entry(k) : k \in Keys}] /\ \A k \in Keys : c[k] \in Entry(k)
IsFills(fs) ==
    /\ fs \in [Fillers -> UNION {PendingFill(x) : x \in Fillers}]
    /\ \A x \in Fillers : fs[x] \in PendingFill(x)

Notice == [f : AllFlights, row : Row]
Work == [notice : Notice, todo : Seq(Keys), list : UNION {Held(k) : k \in Keys},
         asked : BOOLEAN]
IsWork(w) ==
    /\ w \in Work
    /\ w.todo # << >>
    /\ \A i \in DOMAIN w.todo : w.notice.f \in KeyFlights(w.todo[i])
    /\ w.list \in Held(Head(w.todo))

Types ==
    /\ db \in [AllFlights -> Row]
    /\ IsCache(cache) /\ hot \subseteq HotKeys /\ IsFills(fills)
    /\ connected \in BOOLEAN /\ (notices # << >> \/ work # NoWork => connected)
    /\ notices \in Seq(Notice)
    /\ work # NoWork => IsWork(work)

-----------------------------------------------------------------------------
(* Keys, rows and lists.                                                   *)

LEMMA KeyFacts ==
    /\ "route" \in Keys /\ HotKeys \subseteq Keys /\ "route" \notin HotKeys
    /\ \A k \in Keys : KeyFlights(k) \subseteq AllFlights
    /\ \A x \in Fillers : FillKey(x) \in Keys
    /\ \A r \in Readers : FillKey(r) = "route"
    /\ \A k \in HotKeys : FillKey(k) = k
  BY CacheAssumption DEF Keys, KeyFlights, AllFlights, RouteFlights, FillKey, Fillers

LEMMA RowsFacts ==
    ASSUME NEW k \in Keys, NEW rows \in Rows(k)
    PROVE  DOMAIN rows \subseteq KeyFlights(k) /\ rows \in [DOMAIN rows -> Row]
  BY DEF Rows

LEMMA RowsIntro ==
    ASSUME NEW k \in Keys, NEW F \in SUBSET KeyFlights(k), NEW rows \in [F -> Row]
    PROVE  rows \in Rows(k)
  BY DEF Rows

\* A changed row leaves the same flights listed.
LEMMA RowsUpdate ==
    ASSUME NEW k \in Keys, NEW rows \in Rows(k), NEW f, NEW row \in Row
    PROVE  /\ [rows EXCEPT ![f] = row] \in Rows(k)
           /\ DOMAIN [rows EXCEPT ![f] = row] = DOMAIN rows
  <1>1. DOMAIN rows \in SUBSET KeyFlights(k) /\ rows \in [DOMAIN rows -> Row]
    BY RowsFacts
  <1>2. [rows EXCEPT ![f] = row] \in [DOMAIN rows -> Row]
    BY <1>1
  <1> QED
    BY <1>1, <1>2, RowsIntro

LEMMA QueryFacts ==
    ASSUME db \in [AllFlights -> Row], NEW k \in Keys
    PROVE  /\ Query(k) \in Rows(k)
           /\ DOMAIN Query(k) = {f \in KeyFlights(k) : db[f].scheduled}
           /\ \A f \in DOMAIN Query(k) : Query(k)[f] = db[f]
  <1> DEFINE F == {f \in KeyFlights(k) : db[f].scheduled}
  <1>1. Query(k) = [f \in F |-> db[f]]
    BY DEF Query, Restrict
  <1>2. F \in SUBSET KeyFlights(k) /\ F \subseteq AllFlights
    BY KeyFacts
  <1>3. Query(k) \in [F -> Row]
    BY <1>1, <1>2
  <1>4. Query(k) \in Rows(k)
    BY <1>2, <1>3, RowsIntro
  <1> QED
    BY <1>1, <1>4

\* A list is a record, hence not the empty tuple.
LEMMA ListFacts ==
    ASSUME NEW k \in Keys
    PROVE  /\ \A list \in CachedList(k) : list # NoEntry
           /\ \A list \in HeldList(k) : list # NoEntry
           /\ \A fill \in Fill(k) : fill # NoFill
           /\ Entry(k) \subseteq Held(k)
  <1>1. ASSUME NEW list \in CachedList(k) PROVE list # NoEntry
    BY DEF CachedList, NoEntry
  <1>2. ASSUME NEW fill \in Fill(k) PROVE fill # NoFill
    BY DEF Fill, NoFill
  <1>3. ASSUME NEW list \in HeldList(k) PROVE list # NoEntry
    BY DEF HeldList, NoEntry
  <1>4. Entry(k) \subseteq Held(k)
    BY DEF Entry, Held, CachedList, HeldList
  <1> QED
    BY <1>1, <1>2, <1>3, <1>4

LEMMA WorkFacts == \A w : IsWork(w) => w # NoWork
  <1>1. ASSUME NEW w \in Work PROVE w # NoWork
    BY DEF Work, NoWork
  <1> QED
    BY <1>1 DEF IsWork

LEMMA CacheUpdate ==
    ASSUME NEW c, IsCache(c), NEW k \in Keys, NEW list \in Entry(k),
           NEW new, new = [c EXCEPT ![k] = list]
    PROVE  IsCache(new)
  BY DEF IsCache

LEMMA FillsUpdate ==
    ASSUME NEW fs, IsFills(fs), NEW x \in Fillers, NEW fill \in PendingFill(x),
           NEW new, new = [fs EXCEPT ![x] = fill]
    PROVE  IsFills(new)
  BY DEF IsFills

\* A fault marks lists and changes nothing else of them.
Marked(new, old) == new = old \/ new = [old EXCEPT !.missed = TRUE]

LEMMA MarkedCached ==
    ASSUME NEW k \in Keys, NEW list \in CachedList(k), NEW new, Marked(new, list)
    PROVE  /\ new \in CachedList(k)
           /\ new.rows = list.rows /\ new.ttl = list.ttl
           /\ list.missed => new.missed
  BY DEF Marked, CachedList

LEMMA MarkedFill ==
    ASSUME NEW k \in Keys, NEW fill \in Fill(k), NEW new, Marked(new, fill)
    PROVE  new \in Fill(k) /\ new.rows = fill.rows /\ (fill.missed => new.missed)
  BY DEF Marked, Fill

LEMMA MissedFacts ==
    ASSUME IsCache(cache), NEW fs
    PROVE  /\ IsCache(MissedIn(fs))
           /\ \A k \in Keys :
                 /\ MissedIn(fs)[k] = NoEntry <=> cache[k] = NoEntry
                 /\ Cached(k) => /\ MissedIn(fs)[k].rows = cache[k].rows
                                 /\ MissedIn(fs)[k].ttl = cache[k].ttl
                                 /\ cache[k].missed => MissedIn(fs)[k].missed
                                 /\ fs \intersect DOMAIN cache[k].rows # {}
                                       => MissedIn(fs)[k].missed
  <1> DEFINE M == MissedIn(fs)
  <1>1. M = [k \in Keys |-> M[k]]
    BY DEF MissedIn
  <1>2. ASSUME NEW k \in Keys
        PROVE  /\ M[k] \in Entry(k)
               /\ M[k] = NoEntry <=> cache[k] = NoEntry
               /\ Cached(k) => /\ M[k].rows = cache[k].rows
                               /\ M[k].ttl = cache[k].ttl
                               /\ cache[k].missed => M[k].missed
                               /\ fs \intersect DOMAIN cache[k].rows # {} => M[k].missed
    <2>1. M[k] = IF Cached(k) /\ fs \intersect DOMAIN cache[k].rows # {}
                 THEN [cache[k] EXCEPT !.missed = TRUE] ELSE cache[k]
      BY DEF MissedIn
    <2>2. CASE ~Cached(k)
      BY <2>1, <2>2 DEF Cached, Entry
    <2>3. CASE Cached(k)
      <3>1. cache[k] \in CachedList(k)
        BY <2>3 DEF IsCache, Entry, Cached
      <3>2. Marked(M[k], cache[k])
        BY <2>1 DEF Marked
      <3>3. M[k] \in CachedList(k) /\ M[k] # NoEntry
        BY <3>1, <3>2, MarkedCached, ListFacts
      <3>4. fs \intersect DOMAIN cache[k].rows # {} => M[k].missed
        BY <2>1, <2>3, <3>1 DEF CachedList
      <3> QED
        BY <2>3, <3>1, <3>2, <3>3, <3>4, MarkedCached DEF Entry, Cached
    <2> QED
      BY <2>2, <2>3
  <1>3. IsCache(M)
    BY <1>1, <1>2 DEF IsCache
  <1> QED
    BY <1>2, <1>3

-----------------------------------------------------------------------------
(* What each process does to the lists.                                    *)

\* What was read for x becomes the list of k, or is dropped.
LEMMA SetListFacts ==
    ASSUME Types, NEW x \in Fillers, NEW ttl \in Nat \ {0}, SetList(FillKey(x), x, ttl)
    PROVE  /\ fills[x] \in Fill(FillKey(x))
           /\ IsCache(cache') /\ IsFills(fills') /\ fills'[x] = NoFill
           /\ cache'[FillKey(x)].rows = fills[x].rows
           /\ cache'[FillKey(x)].missed = fills[x].missed
           /\ \A j \in Keys \ {FillKey(x)} : cache'[j] = cache[j]
           /\ \A y \in Fillers \ {x} : fills'[y] = fills[y]
  <1> DEFINE k == FillKey(x)
             list == [rows |-> fills[x].rows, ttl |-> ttl, missed |-> fills[x].missed]
  <1>1. fills[x] \in Fill(k)
    BY DEF Types, IsFills, PendingFill, SetList
  <1>2. list \in Entry(k)
    BY <1>1 DEF Fill, CachedList, Entry
  <1>3. cache' = [cache EXCEPT ![k] = list] /\ fills' = [fills EXCEPT ![x] = NoFill]
    BY DEF SetList
  <1>4. k \in Keys /\ NoFill \in PendingFill(x)
    BY KeyFacts DEF PendingFill
  <1> HIDE DEF list
  <1>5. IsCache(cache') /\ IsFills(fills')
    BY <1>2, <1>3, <1>4, CacheUpdate, FillsUpdate DEF Types
  <1>6. cache'[k] = list /\ \A j \in Keys \ {k} : cache'[j] = cache[j]
    BY <1>3, <1>4 DEF Types, IsCache
  <1>7. fills'[x] = NoFill /\ \A y \in Fillers \ {x} : fills'[y] = fills[y]
    BY <1>3 DEF Types, IsFills
  <1> QED
    BY <1>1, <1>5, <1>6, <1>7 DEF list

\* What is read for x is what the database holds.
LEMMA ReadFacts ==
    ASSUME Types, NEW x \in Fillers,
           fills' = [fills EXCEPT ![x] = [rows |-> Query(FillKey(x)), missed |-> FALSE]]
    PROVE  /\ IsFills(fills') /\ fills'[x].rows = Query(FillKey(x))
           /\ \A y \in Fillers \ {x} : fills'[y] = fills[y]
  <1> DEFINE fill == [rows |-> Query(FillKey(x)), missed |-> FALSE]
  <1>1. fill \in PendingFill(x)
    BY KeyFacts, QueryFacts DEF Types, PendingFill, Fill
  <1> HIDE DEF fill
  <1>2. fills' = [fills EXCEPT ![x] = fill]
    BY DEF fill
  <1>3. IsFills(fills')
    BY <1>1, <1>2, FillsUpdate DEF Types
  <1>4. fills'[x] = fill /\ \A y \in Fillers \ {x} : fills'[y] = fills[y]
    BY <1>2 DEF Types, IsFills
  <1> QED
    BY <1>3, <1>4 DEF fill

\* A change marks what was read.
LEMMA ChangeFills ==
    ASSUME Types, NEW f \in AllFlights, ChangeFlight(f)
    PROVE  /\ IsFills(fills')
           /\ \A x \in Fillers :
                 /\ fills'[x] = NoFill <=> fills[x] = NoFill
                 /\ fills[x] # NoFill => /\ fills'[x].rows = fills[x].rows
                                         /\ fills[x].missed => fills'[x].missed
                                         /\ f \in DOMAIN fills[x].rows => fills'[x].missed
  <1>1. fills' = [x \in Fillers |-> fills'[x]]
    BY DEF Types, IsFills, ChangeFlight
  <1>2. ASSUME NEW x \in Fillers
        PROVE  /\ fills'[x] \in PendingFill(x)
               /\ fills'[x] = NoFill <=> fills[x] = NoFill
               /\ fills[x] # NoFill => /\ fills'[x].rows = fills[x].rows
                                       /\ fills[x].missed => fills'[x].missed
                                       /\ f \in DOMAIN fills[x].rows => fills'[x].missed
    <2>1. fills'[x] = IF fills[x] # NoFill /\ f \in DOMAIN fills[x].rows
                      THEN [fills[x] EXCEPT !.missed = TRUE] ELSE fills[x]
      BY DEF Types, IsFills, ChangeFlight
    <2>2. CASE fills[x] = NoFill
      BY <2>1, <2>2 DEF PendingFill
    <2>3. CASE fills[x] # NoFill
      <3>1. fills[x] \in Fill(FillKey(x)) /\ FillKey(x) \in Keys
        BY <2>3, KeyFacts DEF Types, IsFills, PendingFill
      <3>2. Marked(fills'[x], fills[x])
        BY <2>1 DEF Marked
      <3>3. fills'[x] \in Fill(FillKey(x)) /\ fills'[x] # NoFill
        BY <3>1, <3>2, MarkedFill, ListFacts
      <3>4. f \in DOMAIN fills[x].rows => fills'[x].missed
        BY <2>1, <2>3, <3>1 DEF Fill
      <3> QED
        BY <2>3, <3>1, <3>2, <3>3, <3>4, MarkedFill DEF PendingFill
    <2> QED
      BY <2>2, <2>3
  <1>3. IsFills(fills')
    BY <1>1, <1>2 DEF IsFills
  <1> QED
    BY <1>2, <1>3

\* The keys whose lists a notification concerns are those that may list its flight.
LEMMA TouchedFacts ==
    ASSUME NEW f \in AllFlights
    PROVE  /\ TouchedKeys(f) \in Seq(Keys)
           /\ \A i \in DOMAIN TouchedKeys(f) : f \in KeyFlights(TouchedKeys(f)[i])
           /\ \A k \in Keys : f \in KeyFlights(k) =>
                 \E i \in DOMAIN TouchedKeys(f) : TouchedKeys(f)[i] = k
  <1> DEFINE T(k) == k \in Keys /\ f \in KeyFlights(k)
             a == IfTouched("route", f)
             b == IfTouched("from", f)
             c == IfTouched("to", f)
  <1>1. Keys \subseteq {"route", "from", "to"}
    BY CacheAssumption DEF Keys
  <1>2. /\ a = (IF T("route") THEN <<"route">> ELSE << >>)
        /\ b = (IF T("from") THEN <<"from">> ELSE << >>)
        /\ c = (IF T("to") THEN <<"to">> ELSE << >>)
    BY DEF IfTouched
  <1>3. TouchedKeys(f) = a \o b \o c
    BY DEF TouchedKeys
  <1> HIDE DEF a, b, c, T
  <1>4. a \in Seq(Keys) /\ b \in Seq(Keys) /\ c \in Seq(Keys)
    BY <1>2 DEF T
  <1>5. /\ Len(a) = (IF T("route") THEN 1 ELSE 0) /\ (T("route") => a[1] = "route")
        /\ Len(b) = (IF T("from") THEN 1 ELSE 0) /\ (T("from") => b[1] = "from")
        /\ Len(c) = (IF T("to") THEN 1 ELSE 0) /\ (T("to") => c[1] = "to")
    BY <1>2
  <1>6. /\ TouchedKeys(f) \in Seq(Keys)
        /\ DOMAIN TouchedKeys(f) = 1..(Len(a) + Len(b) + Len(c))
        /\ \A i \in 1..Len(a) : TouchedKeys(f)[i] = a[i]
        /\ \A i \in 1..Len(b) : TouchedKeys(f)[i + Len(a)] = b[i]
        /\ \A i \in 1..Len(c) : TouchedKeys(f)[i + Len(a) + Len(b)] = c[i]
    BY <1>3, <1>4
  <1>7. \A i \in DOMAIN TouchedKeys(f) : T(TouchedKeys(f)[i])
    BY <1>5, <1>6
  <1>8. \A k \in {"route", "from", "to"} : T(k) =>
            \E i \in DOMAIN TouchedKeys(f) : TouchedKeys(f)[i] = k
    BY <1>5, <1>6
  <1> QED
    BY <1>1, <1>6, <1>7, <1>8 DEF T

\* Time takes lists away and leaves their rows as they are.
LEMMA AgedFacts ==
    ASSUME IsCache(cache), NEW k \in Keys
    PROVE  /\ Aged(k) \in Entry(k)
           /\ Aged(k) # NoEntry => /\ Cached(k) /\ Aged(k).rows = cache[k].rows
                                  /\ Aged(k).missed = cache[k].missed
  <1>1. CASE ~Cached(k)
    BY <1>1 DEF Aged, Cached, Entry
  <1>2. CASE Cached(k)
    <2>1. cache[k] \in CachedList(k)
      BY <1>2 DEF IsCache, Entry, Cached
    <2>2. cache[k].ttl \in Nat \ {0}
      BY <2>1 DEF CachedList
    <2>3. CASE cache[k].ttl = 1
      BY <1>2, <2>3 DEF Aged, Entry
    <2>4. CASE cache[k].ttl # 1
      <3>1. Aged(k) = [cache[k] EXCEPT !.ttl = @ - 1]
        BY <1>2, <2>2, <2>4 DEF Aged
      <3>2. cache[k].ttl - 1 \in Nat \ {0}
        BY <2>2, <2>4
      <3> QED
        BY <1>2, <2>1, <3>1, <3>2 DEF CachedList, Entry
    <2> QED
      BY <2>3, <2>4
  <1> QED
    BY <1>1, <1>2

\* The key the listener is at is taken off what it has to do.
LEMMA FinishFacts ==
    ASSUME Types, work # NoWork, Finish(Tail(work.todo))
    PROVE  /\ Head(work.todo) \in Keys
           /\ work' # NoWork => /\ IsWork(work') /\ work'.notice = work.notice
                               /\ work'.list = NoEntry
           /\ \A i \in DOMAIN work.todo : work.todo[i] # Head(work.todo) =>
                 work' # NoWork /\ \E j \in DOMAIN work'.todo : work'.todo[j] = work.todo[i]
  <1> DEFINE todo == work.todo
             rest == Tail(work.todo)
             more == [work EXCEPT !.todo = rest, !.list = NoEntry, !.asked = FALSE]
  <1>1. /\ work \in Work /\ todo \in Seq(Keys) /\ todo # << >> /\ work.notice \in Notice
        /\ \A i \in DOMAIN todo : work.notice.f \in KeyFlights(todo[i])
    BY DEF Types, IsWork, Work
  <1> HIDE DEF todo
  <1>2. /\ Head(todo) \in Keys /\ Head(todo) = todo[1]
        /\ rest \in Seq(Keys) /\ Len(rest) = Len(todo) - 1
        /\ \A i \in 1..Len(rest) : rest[i] = todo[i + 1]
    BY <1>1 DEF todo
  <1>3. DOMAIN todo = 1..Len(todo) /\ DOMAIN rest = 1..Len(rest) /\ Len(todo) \in Nat
    BY <1>1, <1>2
  <1>4. work' = IF rest = << >> THEN NoWork ELSE more
    BY DEF Finish
  <1>5. more \in Work /\ more.todo = rest /\ more.list = NoEntry /\ more.notice = work.notice
    <2>1. NoEntry \in UNION {Held(k) : k \in Keys}
      BY KeyFacts DEF Held
    <2> QED
      BY <1>1, <1>2, <2>1 DEF Work
  <1> HIDE DEF rest, more
  <1>6. \A i \in DOMAIN rest : i + 1 \in DOMAIN todo
    BY <1>2, <1>3
  <1>7. rest # << >> => IsWork(more)
    BY <1>1, <1>2, <1>3, <1>5, <1>6 DEF IsWork, Held
  <1>8. \A i \in DOMAIN todo : todo[i] # Head(todo) =>
            rest # << >> /\ \E j \in DOMAIN rest : rest[j] = todo[i]
    <2> SUFFICES ASSUME NEW i \in DOMAIN todo, todo[i] # Head(todo)
                 PROVE  rest # << >> /\ \E j \in DOMAIN rest : rest[j] = todo[i]
      OBVIOUS
    <2>1. i - 1 \in DOMAIN rest /\ rest[i - 1] = todo[i]
      BY <1>2, <1>3
    <2> QED
      BY <2>1, <1>3, <1>2
  <1>9. rest # << >> => more # NoWork
    BY <1>7, WorkFacts
  <1> QED
    BY <1>2, <1>4, <1>5, <1>7, <1>8, <1>9 DEF todo

\* The next notification is taken up, with the keys it concerns.
LEMMA WaitFacts ==
    ASSUME Types, WaitForNotification
    PROVE  /\ Head(notices) \in Notice /\ Tail(notices) \in Seq(Notice)
           /\ LET f == Head(notices).f IN
                 /\ TouchedKeys(f) = << >> => work' = NoWork
                 /\ TouchedKeys(f) # << >> =>
                       /\ IsWork(work') /\ work'.list = NoEntry
                       /\ work'.notice = Head(notices) /\ work'.todo = TouchedKeys(f)
  <1> DEFINE n == Head(notices)
             todo == TouchedKeys(n.f)
             w == [notice |-> n, todo |-> todo, list |-> NoEntry, asked |-> FALSE]
  <1>1. n \in Notice /\ Tail(notices) \in Seq(Notice)
    BY DEF Types, WaitForNotification
  <1>2. n.f \in AllFlights
    BY <1>1 DEF Notice
  <1>3. work' = IF todo = << >> THEN NoWork ELSE w
    BY DEF WaitForNotification
  <1> HIDE DEF n, todo
  <1>4. todo \in Seq(Keys) /\ \A i \in DOMAIN todo : n.f \in KeyFlights(todo[i])
    BY <1>2, TouchedFacts DEF todo
  <1>5. ASSUME todo # << >> PROVE IsWork(w)
    <2>1. Head(todo) \in Keys
      BY <1>4, <1>5
    <2>2. NoEntry \in Held(Head(todo)) /\ NoEntry \in UNION {Held(k) : k \in Keys}
      BY <2>1 DEF Held
    <2>3. w \in Work
      BY <1>1, <1>4, <2>2 DEF Work
    <2> QED
      BY <1>4, <1>5, <2>2, <2>3 DEF IsWork
  <1> QED
    BY <1>1, <1>3, <1>5 DEF n, todo

\* The list of the key it is at is read, or the key is done.
LEMMA ReadStep ==
    ASSUME Types, ListenerRead
    PROVE  LET k == Head(work.todo) IN
           \/ /\ Cached(k) /\ k \in Keys /\ UNCHANGED cache
              /\ IsWork(work') /\ work' = [work EXCEPT !.list = cache[k]]
              /\ work'.todo = work.todo /\ work'.notice = work.notice /\ work'.list = cache[k]
           \/ /\ Finish(Tail(work.todo)) /\ k \in Keys
              /\ IsCache(cache') /\ \A j \in Keys \ {k} : cache'[j] = cache[j]
              /\ \/ cache'[k] = cache[k] /\ (Cached(k) => work.notice.f \notin DOMAIN cache[k].rows)
                 \/ cache'[k] = MissedIn({work.notice.f})[k]
  <1> DEFINE k == Head(work.todo)
             f == work.notice.f
             known == k = "route" \/ k \in hot
  <1>1. work # NoWork /\ work \in Work /\ work.todo \in Seq(Keys) /\ work.todo # << >>
    BY DEF ListenerRead, Types, IsWork, Work
  <1>2. k \in Keys
    BY <1>1
  <1>3. CASE known /\ Cached(k) /\ f \in DOMAIN cache[k].rows
    <2>1. work' = [work EXCEPT !.list = cache[k]] /\ UNCHANGED cache
      BY <1>3 DEF ListenerRead
    <2>2. cache[k] \in Held(k)
      BY <1>2, ListFacts DEF Types, IsCache
    <2>3. work' \in Work /\ work'.todo = work.todo /\ work'.notice = work.notice
          /\ work'.list = cache[k]
      BY <1>1, <1>2, <2>1, <2>2 DEF Work
    <2>4. IsWork(work')
      BY <1>1, <2>2, <2>3 DEF IsWork, Types
    <2> QED
      BY <1>2, <1>3, <2>1, <2>3, <2>4
  <1>4. CASE ~(known /\ Cached(k) /\ f \in DOMAIN cache[k].rows)
    <2>1. /\ Finish(Tail(work.todo))
          /\ cache' = IF known THEN cache ELSE [cache EXCEPT ![k] = MissedIn({f})[k]]
      BY <1>4 DEF ListenerRead
    <2>2. MissedIn({f})[k] \in Entry(k)
      BY <1>2, MissedFacts DEF Types, IsCache
    <2>3. IsCache(cache')
      BY <1>2, <2>1, <2>2, CacheUpdate DEF Types
    <2>4. \A j \in Keys \ {k} : cache'[j] = cache[j]
      BY <2>1 DEF Types, IsCache
    <2>5. CASE known
      BY <1>2, <1>4, <2>1, <2>3, <2>4, <2>5
    <2>6. CASE ~known
      <3>1. cache'[k] = MissedIn({f})[k]
        BY <1>2, <2>1, <2>6 DEF Types, IsCache
      <3> QED
        BY <1>2, <2>1, <2>3, <2>4, <3>1
    <2> QED
      BY <2>5, <2>6
  <1> QED
    BY <1>3, <1>4

\* The answer to TTL is kept beside the list, and nothing else changes.
LEMMA AskStep ==
    ASSUME Types, ListenerTTL
    PROVE  /\ IsWork(work) /\ work.list # NoEntry
           /\ IsWork(work') /\ work'.list # NoEntry
           /\ work'.todo = work.todo /\ work'.notice = work.notice
           /\ work'.list.rows = work.list.rows /\ work'.list.missed = work.list.missed
           /\ UNCHANGED <<db, cache, hot, fills, connected, notices>>
  <1> DEFINE k == Head(work.todo)
  <1>1. /\ IsWork(work) /\ work.list # NoEntry
        /\ UNCHANGED <<db, cache, hot, fills, connected, notices>>
    BY DEF ListenerTTL, Types
  <1>2. work \in Work /\ k \in Keys
    BY <1>1 DEF IsWork, Work
  <1>3. work.list \in HeldList(k)
    BY <1>1 DEF IsWork, Held
  <1>4. TTLAnswers(k) \union {0} \subseteq Nat
    <2>1. CASE ~Cached(k)
      BY <2>1 DEF TTLAnswers
    <2>2. CASE Cached(k)
      <3>1. cache[k].ttl \in Nat \ {0}
        BY <1>2, <2>2 DEF Types, IsCache, Entry, CachedList, Cached
      <3> QED
        BY <2>2, <3>1 DEF TTLAnswers
    <2> QED
      BY <2>1, <2>2
  <1>5. PICK answer \in Nat : work' = [work EXCEPT !.list.ttl = answer, !.asked = TRUE]
    BY <1>4 DEF ListenerTTL
  <1>6. PICK list : list = [work.list EXCEPT !.ttl = answer]
    OBVIOUS
  <1>7. list \in HeldList(k) /\ list.rows = work.list.rows /\ list.missed = work.list.missed
    BY <1>3, <1>6 DEF HeldList
  <1>8. work' = [work EXCEPT !.list = list, !.asked = TRUE]
    BY <1>2, <1>5, <1>6 DEF Work
  <1>9. list \in Held(k) /\ list \in UNION {Held(j) : j \in Keys} /\ list # NoEntry
    BY <1>2, <1>7, ListFacts DEF Held
  <1>10. /\ work' \in Work /\ work'.todo = work.todo /\ work'.notice = work.notice
         /\ work'.list = list
    BY <1>2, <1>8, <1>9 DEF Work
  <1>11. IsWork(work')
    BY <1>1, <1>9, <1>10 DEF IsWork
  <1> QED
    BY <1>1, <1>7, <1>9, <1>10, <1>11

\* The list is written back with the row of the notification.
LEMMA WriteStep ==
    ASSUME Types, ListenerWrite
    PROVE  LET k == Head(work.todo)
               rows == [work.list.rows EXCEPT ![work.notice.f] = work.notice.row]
           IN  /\ k \in Keys /\ work.list \in HeldList(k) /\ Finish(Tail(work.todo))
               /\ rows \in Rows(k) /\ DOMAIN rows = DOMAIN work.list.rows
               /\ IsCache(cache') /\ \A j \in Keys \ {k} : cache'[j] = cache[j]
               /\ cache'[k].rows = rows /\ cache'[k].missed = work.list.missed
  <1> DEFINE k == Head(work.todo)
             rows == [work.list.rows EXCEPT ![work.notice.f] = work.notice.row]
             ttl == RemainingTTL(work.list.ttl)
             list == [work.list EXCEPT !.rows = rows, !.ttl = ttl]
  <1>1. /\ work # NoWork /\ work.list # NoEntry /\ Finish(Tail(work.todo))
        /\ cache' = [cache EXCEPT ![k] = list]
    BY DEF ListenerWrite
  <1>2. /\ work \in Work /\ work.todo \in Seq(Keys) /\ work.todo # << >>
        /\ work.notice \in Notice /\ work.list \in Held(k)
    BY <1>1 DEF Types, IsWork, Work
  <1>3. k \in Keys
    BY <1>2
  <1>4. work.list \in HeldList(k) /\ work.list.rows \in Rows(k) /\ work.notice.row \in Row
    BY <1>1, <1>2 DEF Held, HeldList, Notice
  <1>5. rows \in Rows(k) /\ DOMAIN rows = DOMAIN work.list.rows
    BY <1>3, <1>4, RowsUpdate
  <1>6. ttl \in Nat \ {0}
    BY <1>4, CacheAssumption DEF RemainingTTL, HeldList
  <1> HIDE DEF rows, ttl
  <1>7. /\ list \in CachedList(k) /\ list.rows = rows /\ list.missed = work.list.missed
    BY <1>4, <1>5, <1>6 DEF CachedList, HeldList
  <1> HIDE DEF list
  <1>8. list \in Entry(k)
    BY <1>7 DEF Entry
  <1>9. IsCache(cache')
    BY <1>1, <1>3, <1>8, CacheUpdate DEF Types
  <1>10. cache'[k] = list /\ \A j \in Keys \ {k} : cache'[j] = cache[j]
    BY <1>1, <1>3 DEF Types, IsCache
  <1> QED
    BY <1>1, <1>3, <1>4, <1>5, <1>7, <1>9, <1>10 DEF rows

-----------------------------------------------------------------------------
(* Types are kept.                                                         *)

LEMMA TypesInit == Init => Types
  <1> SUFFICES ASSUME Init PROVE Types
    OBVIOUS
  <1>1. db \in [AllFlights -> Row]
    BY DEF Init, Row
  <1>2. IsCache(cache)
    BY DEF Init, IsCache, Entry
  <1>3. IsFills(fills)
    BY DEF Init, IsFills, PendingFill, Fillers
  <1> QED
    BY <1>1, <1>2, <1>3 DEF Init, Types

LEMMA ListenerTypes == Types /\ Listener => Types'
  <1> SUFFICES ASSUME Types, Listener PROVE Types'
    OBVIOUS
  <1>2. CASE WaitForNotification
    <2>1. notices' = Tail(notices) /\ connected /\ UNCHANGED <<db, cache, hot, fills, connected>>
      BY <1>2 DEF WaitForNotification
    <2>2. notices' \in Seq(Notice) /\ (work' # NoWork => IsWork(work'))
      BY <1>2, <2>1, WaitFacts
    <2> QED
      BY <2>1, <2>2 DEF Types
  <1>3. CASE ListenerRead
    <2>1. UNCHANGED <<db, hot, fills, connected, notices>> /\ connected
      BY <1>3 DEF ListenerRead, Types
    <2>2. IsCache(cache') /\ (work' # NoWork => IsWork(work'))
      BY <1>3, ReadStep, FinishFacts DEF Types, ListenerRead
    <2> QED
      BY <2>1, <2>2 DEF Types
  <1>4. CASE ListenerWrite
    <2>1. UNCHANGED <<db, hot, fills, connected, notices>> /\ connected
      BY <1>4 DEF ListenerWrite, Types
    <2>2. IsCache(cache') /\ (work' # NoWork => IsWork(work'))
      BY <1>4, WriteStep, FinishFacts DEF Types, ListenerWrite
    <2> QED
      BY <2>1, <2>2 DEF Types
  <1>5. CASE ListenerTTL
    <2>1. UNCHANGED <<db, cache, hot, fills, connected, notices>> /\ IsWork(work') /\ connected
      BY <1>5, AskStep DEF ListenerTTL, Types
    <2> QED
      BY <2>1 DEF Types
  <1> QED
    BY <1>2, <1>3, <1>4, <1>5 DEF Listener

\* A change counts, and may close its flight.
LEMMA ChangeFacts ==
    ASSUME Types, NEW f \in AllFlights, ChangeFlight(f)
    PROVE  /\ db' \in [AllFlights -> Row]
           /\ \A g \in AllFlights \ {f} : db'[g] = db[g]
           /\ db'[f].scheduled => db[f].scheduled
  <1>1. PICK scheduled \in {db[f].scheduled, FALSE} :
           db' = [db EXCEPT ![f] = [changes |-> db[f].changes + 1, scheduled |-> scheduled]]
    BY DEF ChangeFlight
  <1>2. db[f].changes + 1 \in Nat /\ db[f].scheduled \in BOOLEAN
    BY DEF Types, Row
  <1>3. [changes |-> db[f].changes + 1, scheduled |-> scheduled] \in Row
    BY <1>2 DEF Row
  <1>4. db' \in [AllFlights -> Row] /\ \A g \in AllFlights \ {f} : db'[g] = db[g]
    BY <1>1, <1>3 DEF Types
  <1>5. db'[f] = [changes |-> db[f].changes + 1, scheduled |-> scheduled]
    BY <1>1 DEF Types
  <1>6. db'[f].scheduled = scheduled
    BY <1>5
  <1>7. CASE scheduled = FALSE
    BY <1>4, <1>6, <1>7
  <1>8. CASE scheduled = db[f].scheduled
    BY <1>4, <1>6, <1>8
  <1> QED
    BY <1>7, <1>8

LEMMA ChangeTypes ==
    ASSUME Types, NEW f \in AllFlights, ChangeFlight(f)
    PROVE  Types'
  <1>4. db' \in [AllFlights -> Row] /\ db'[f] \in Row
    BY ChangeFacts
  <1>5. IsFills(fills')
    BY ChangeFills
  <1>6. UNCHANGED <<hot, connected, work>>
    BY DEF ChangeFlight
  <1>7. CASE connected
    <2>1. notices' = Append(notices, [f |-> f, row |-> db'[f]]) /\ UNCHANGED cache
      BY <1>7 DEF ChangeFlight
    <2>2. notices' \in Seq(Notice)
      BY <1>4, <2>1 DEF Types, Notice
    <2> QED
      BY <1>4, <1>5, <1>6, <1>7, <2>1, <2>2 DEF Types
  <1>8. CASE ~connected
    <2>1. cache' = MissedIn({f}) /\ UNCHANGED notices
      BY <1>8 DEF ChangeFlight
    <2>2. IsCache(cache')
      BY <2>1, MissedFacts DEF Types
    <2> QED
      BY <1>4, <1>5, <1>6, <1>8, <2>1, <2>2 DEF Types
  <1> QED
    BY <1>7, <1>8

\* The list of the key that the listener gives up is marked.
LEMMA ErrorFacts ==
    ASSUME Types, UpdateError
    PROVE  LET k == Head(work.todo) IN
           /\ work # NoWork /\ Finish(Tail(work.todo)) /\ k \in Keys
           /\ IsCache(cache') /\ \A j \in Keys \ {k} : cache'[j] = cache[j]
           /\ cache'[k] = MissedIn({work.notice.f})[k]
  <1> DEFINE k == Head(work.todo)
             list == MissedIn({work.notice.f})[k]
  <1>1. work # NoWork /\ Finish(Tail(work.todo)) /\ cache' = [cache EXCEPT ![k] = list]
    BY DEF UpdateError
  <1>2. k \in Keys
    BY <1>1, FinishFacts
  <1>3. list \in Entry(k)
    BY <1>2, MissedFacts DEF Types, IsCache
  <1> HIDE DEF list
  <1>4. IsCache(cache')
    BY <1>1, <1>2, <1>3, CacheUpdate DEF Types
  <1>5. cache'[k] = list /\ \A j \in Keys \ {k} : cache'[j] = cache[j]
    BY <1>1, <1>2 DEF Types, IsCache
  <1> QED
    BY <1>1, <1>2, <1>4, <1>5 DEF list

\* What the cache loses by eviction and with time.
LEMMA LossFacts ==
    ASSUME Types, Evict \/ Tick
    PROVE  /\ IsCache(cache') /\ hot' \subseteq hot
           /\ UNCHANGED <<db, fills, connected, notices, work>>
           /\ \A k \in Keys : cache'[k] # NoEntry =>
                 /\ Cached(k) /\ cache'[k].rows = cache[k].rows
                 /\ cache'[k].missed = cache[k].missed
  <1>1. CASE Tick
    <2>1. cache' = [k \in Keys |-> Aged(k)] /\ UNCHANGED <<db, hot, fills, connected, notices, work>>
      BY <1>1 DEF Tick
    <2> QED
      BY <2>1, AgedFacts DEF Types, IsCache
  <1>2. CASE Evict /\ UNCHANGED cache
    BY <1>2 DEF Evict, Types, Cached
  <1>3. ASSUME NEW k \in Keys, cache' = [cache EXCEPT ![k] = NoEntry], hot' = hot, Evict
        PROVE  /\ IsCache(cache')
               /\ \A j \in Keys : cache'[j] # NoEntry => cache'[j] = cache[j]
    <2>1. NoEntry \in Entry(k)
      BY DEF Entry
    <2>2. IsCache(cache')
      BY <1>3, <2>1, CacheUpdate DEF Types
    <2> QED
      BY <1>3, <2>2 DEF Types, IsCache
  <1> QED
    BY <1>1, <1>2, <1>3 DEF Evict, Cached

\* A read list that is lost.
LEMMA FillErrorFacts ==
    ASSUME Types, NEW x \in Fillers, FillError(x)
    PROVE  /\ IsFills(fills') /\ fills'[x] = NoFill
           /\ \A y \in Fillers \ {x} : fills'[y] = fills[y]
  <1>1. fills' = [fills EXCEPT ![x] = NoFill] /\ NoFill \in PendingFill(x)
    BY DEF FillError, PendingFill
  <1>2. IsFills(fills')
    BY <1>1, FillsUpdate DEF Types
  <1> QED
    BY <1>1, <1>2 DEF Types, IsFills

\* A list is read from the database.
ReadsFor(x) ==
    IF x \in HotKeys THEN RefreshRead(x) ELSE SearchMiss(x)
\* A list is stored.
StoresFor(x) ==
    IF x \in HotKeys THEN RefreshWrite(x) ELSE SetRouteFlights(x)

LEMMA ReadsForFacts ==
    ASSUME Types, NEW x \in Fillers, ReadsFor(x)
    PROVE  /\ IsFills(fills') /\ fills'[x].rows = Query(FillKey(x))
           /\ \A y \in Fillers \ {x} : fills'[y] = fills[y]
           /\ hot' \subseteq HotKeys
           /\ UNCHANGED <<db, cache, connected, notices, work>>
  <1>1. fills' = [fills EXCEPT ![x] = [rows |-> Query(FillKey(x)), missed |-> FALSE]]
    BY DEF ReadsFor, RefreshRead, SearchMiss, FillKey
  <1>2. hot' \subseteq HotKeys /\ UNCHANGED <<db, cache, connected, notices, work>>
    BY DEF ReadsFor, RefreshRead, SearchMiss, Types
  <1> QED
    BY <1>1, <1>2, ReadFacts

LEMMA StoresForFacts ==
    ASSUME Types, NEW x \in Fillers, StoresFor(x)
    PROVE  /\ fills[x] \in Fill(FillKey(x))
           /\ IsCache(cache') /\ IsFills(fills') /\ fills'[x] = NoFill
           /\ cache'[FillKey(x)].rows = fills[x].rows
           /\ cache'[FillKey(x)].missed = fills[x].missed
           /\ \A j \in Keys \ {FillKey(x)} : cache'[j] = cache[j]
           /\ \A y \in Fillers \ {x} : fills'[y] = fills[y]
           /\ UNCHANGED <<db, hot, connected, notices, work>>
  <1>1. PICK ttl \in Nat \ {0} : SetList(FillKey(x), x, ttl)
    BY CacheAssumption DEF StoresFor, RefreshWrite, SetRouteFlights, FillKey
  <1>2. UNCHANGED <<db, hot, connected, notices, work>>
    BY <1>1 DEF SetList
  <1> QED
    BY <1>1, <1>2, SetListFacts

\* The steps, by what they do to the lists.
LEMMA NextCases ==
    ASSUME Next
    PROVE  \/ \E f \in AllFlights : ChangeFlight(f)
           \/ \E x \in Fillers : ReadsFor(x) \/ StoresFor(x) \/ FillError(x)
           \/ Listener \/ ConnectionLost \/ Reconnect \/ UpdateError
           \/ Evict \/ Tick
  <1>1. ASSUME NEW r \in Readers, SearchMiss(r) \/ SetRouteFlights(r) \/ FillError(r)
        PROVE  \E x \in Fillers : ReadsFor(x) \/ StoresFor(x) \/ FillError(x)
    BY <1>1, CacheAssumption DEF Fillers, ReadsFor, StoresFor
  <1>2. ASSUME NEW k \in HotKeys, RefreshRead(k) \/ RefreshWrite(k) \/ FillError(k)
        PROVE  \E x \in Fillers : ReadsFor(x) \/ StoresFor(x) \/ FillError(x)
    BY <1>2 DEF Fillers, ReadsFor, StoresFor
  <1> QED
    BY <1>1, <1>2 DEF Next, CacheStep

LEMMA TypesStep == Types /\ [Next]_vars => Types'
  <1> SUFFICES ASSUME Types, [Next]_vars PROVE Types'
    OBVIOUS
  <1>1. ASSUME NEW f \in AllFlights, ChangeFlight(f) PROVE Types'
    BY <1>1, ChangeTypes
  <1>2. ASSUME NEW x \in Fillers, ReadsFor(x) PROVE Types'
    BY <1>2, ReadsForFacts DEF Types
  <1>3. ASSUME NEW x \in Fillers, StoresFor(x) PROVE Types'
    BY <1>3, StoresForFacts DEF Types
  <1>4. ASSUME NEW x \in Fillers, FillError(x) PROVE Types'
    BY <1>4, FillErrorFacts DEF Types, FillError
  <1>5. CASE Listener
    BY <1>5, ListenerTypes
  <1>6. CASE ConnectionLost
    <2>1. IsCache(cache')
      BY <1>6, MissedFacts DEF ConnectionLost, Types
    <2>2. notices' = << >> /\ notices' \in Seq(Notice) /\ work' = NoWork /\ connected' = FALSE
          /\ UNCHANGED <<db, hot, fills>>
      BY <1>6 DEF ConnectionLost
    <2> QED
      BY <2>1, <2>2 DEF Types
  <1>7. CASE Reconnect
    BY <1>7 DEF Reconnect, Types
  <1>8. CASE UpdateError
    <2>1. IsCache(cache') /\ (work' # NoWork => IsWork(work')) /\ work # NoWork
      BY <1>8, ErrorFacts, FinishFacts
    <2>2. UNCHANGED <<db, hot, fills, connected, notices>>
      BY <1>8 DEF UpdateError
    <2> QED
      BY <2>1, <2>2 DEF Types
  <1>9. CASE Evict \/ Tick
    BY <1>9, LossFacts DEF Types
  <1>10. CASE UNCHANGED vars
    BY <1>10 DEF vars, Types
  <1> QED
    BY <1>1, <1>2, <1>3, <1>4, <1>5, <1>6, <1>7, <1>8, <1>9, <1>10, NextCases

LEMMA TypesSpec == Spec => []Types
  BY TypesInit, TypesStep, PTL DEF Spec

\* The types of FlightCache: what is cached, what is about to be and what the
\* listener holds are lists of the flights of their key, and every cached list
\* runs out.
THEOREM TypeCorrect == Spec => []TypeOK
  <1>1. ASSUME NEW k \in Keys, NEW list \in CachedList(k)
        PROVE  IsList(list, k) /\ list.ttl \in Nat \ {0}
    BY <1>1, RowsFacts DEF CachedList, IsList
  <1>2. ASSUME NEW k \in Keys, NEW fill \in Fill(k) PROVE IsList(fill, k)
    BY <1>2, RowsFacts DEF Fill, IsList
  <1>3. ASSUME NEW k \in Keys, NEW list \in HeldList(k) PROVE IsList(list, k)
    BY <1>3, RowsFacts DEF HeldList, IsList
  <1>4. Types => TypeOK
    <2> SUFFICES ASSUME Types PROVE TypeOK
      OBVIOUS
    <2>1. \A k \in Keys : Cached(k) => IsList(cache[k], k) /\ cache[k].ttl \in Nat \ {0}
      BY <1>1 DEF Types, IsCache, Entry, Cached
    <2>2. \A x \in DOMAIN fills : fills[x] # NoFill => IsList(fills[x], FillKey(x))
      BY <1>2, KeyFacts DEF Types, IsFills, PendingFill
    <2>3. ASSUME work # NoWork
          PROVE  /\ work.todo # << >> /\ work.notice.f \in KeyFlights(Head(work.todo))
                 /\ work.list # NoEntry => IsList(work.list, Head(work.todo))
      <3>1. IsWork(work) /\ work.todo \in Seq(Keys) /\ work.todo # << >>
        BY <2>3 DEF Types, IsWork, Work
      <3>2. Head(work.todo) \in Keys /\ work.notice.f \in KeyFlights(Head(work.todo))
        BY <3>1 DEF IsWork
      <3> QED
        BY <1>3, <3>1, <3>2 DEF IsWork, Held
    <2> QED
      BY <2>1, <2>2, <2>3 DEF Types, TypeOK
  <1> QED
    BY <1>4, TypesSpec, PTL

-----------------------------------------------------------------------------
(* Lists are complete.                                                     *)

\* The flights of key k that take bookings.
Open(k) == {f \in KeyFlights(k) : db[f].scheduled}

Complete ==
    /\ \A k \in Keys : Cached(k) => Open(k) \subseteq DOMAIN cache[k].rows
    /\ \A x \in Fillers : fills[x] # NoFill => Open(FillKey(x)) \subseteq DOMAIN fills[x].rows
    /\ work # NoWork /\ work.list # NoEntry =>
          Open(Head(work.todo)) \subseteq DOMAIN work.list.rows

LEMMA OpenShrinks ==
    ASSUME Types, [Next]_vars, NEW k \in Keys
    PROVE  Open(k)' \subseteq Open(k)
  <1>1. ASSUME NEW f \in AllFlights, ChangeFlight(f) PROVE Open(k)' \subseteq Open(k)
    BY <1>1, ChangeFacts, KeyFacts DEF Open
  <1>2. CASE UNCHANGED db
    BY <1>2 DEF Open
  <1>3. CASE ~\E f \in AllFlights : ChangeFlight(f)
    <2>1. UNCHANGED db
      BY <1>3, NextCases, ReadsForFacts, StoresForFacts, LossFacts
         DEF FillError, Listener, WaitForNotification, ListenerRead, ListenerTTL, ListenerWrite,
             ConnectionLost, Reconnect, UpdateError, vars
    <2> QED
      BY <1>2, <2>1
  <1> QED
    BY <1>1, <1>3

LEMMA CompleteStep == Types /\ Complete /\ [Next]_vars => Complete'
  <1> SUFFICES ASSUME Types, Complete, [Next]_vars PROVE Complete'
    OBVIOUS
  <1> DEFINE CacheGoal == \A k \in Keys : cache'[k] # NoEntry => Open(k) \subseteq DOMAIN cache'[k].rows
             FillsGoal == \A x \in Fillers :
                fills'[x] # NoFill => Open(FillKey(x)) \subseteq DOMAIN fills'[x].rows
             WorkGoal == work' # NoWork /\ work'.list # NoEntry =>
                Head(work'.todo) \in Keys /\ Open(Head(work'.todo)) \subseteq DOMAIN work'.list.rows
  <1>0. CacheGoal /\ FillsGoal /\ WorkGoal => Complete'
    BY OpenShrinks, KeyFacts DEF Complete, Cached
  <1>kept. /\ UNCHANGED cache => CacheGoal
           /\ UNCHANGED fills => FillsGoal
           /\ UNCHANGED work => WorkGoal
    <2>1. work # NoWork => Head(work.todo) \in Keys
      BY DEF Types, IsWork, Work
    <2> QED
      BY <2>1 DEF Complete, Cached
  <1>missed. ASSUME NEW fs, NEW k \in Keys, cache'[k] = MissedIn(fs)[k], cache'[k] # NoEntry
             PROVE  Open(k) \subseteq DOMAIN cache'[k].rows
    BY <1>missed, MissedFacts DEF Types, Complete, Cached
  <1> HIDE DEF CacheGoal, FillsGoal, WorkGoal
  <1>1. ASSUME NEW f \in AllFlights, ChangeFlight(f) PROVE Complete'
    <2>1. CacheGoal
      BY <1>1, <1>kept, <1>missed DEF ChangeFlight, CacheGoal
    <2>2. FillsGoal
      BY <1>1, ChangeFills DEF FillsGoal, Complete
    <2>3. WorkGoal
      BY <1>1, <1>kept DEF ChangeFlight
    <2> QED
      BY <1>0, <2>1, <2>2, <2>3
  <1>2. ASSUME NEW x \in Fillers, ReadsFor(x) PROVE Complete'
    <2>1. Open(FillKey(x)) = DOMAIN Query(FillKey(x))
      BY QueryFacts, KeyFacts DEF Types, Open
    <2>2. FillsGoal
      BY <1>2, <2>1, ReadsForFacts DEF FillsGoal, Complete
    <2> QED
      BY <1>0, <1>2, <1>kept, <2>2, ReadsForFacts
  <1>3. ASSUME NEW x \in Fillers, StoresFor(x) PROVE Complete'
    <2>1. fills[x] # NoFill
      BY <1>3, StoresForFacts, ListFacts, KeyFacts
    <2>2. CacheGoal
      BY <1>3, <2>1, StoresForFacts DEF CacheGoal, Complete, Cached
    <2>3. FillsGoal
      BY <1>3, StoresForFacts DEF FillsGoal, Complete
    <2> QED
      BY <1>0, <1>3, <1>kept, <2>2, <2>3, StoresForFacts
  <1>4. ASSUME NEW x \in Fillers, FillError(x) PROVE Complete'
    <2>1. FillsGoal
      BY <1>4, FillErrorFacts DEF FillsGoal, Complete
    <2> QED
      BY <1>0, <1>4, <1>kept, <2>1 DEF FillError
  <1>5. CASE Listener
    <2>1. CASE WaitForNotification
      <3>1. WorkGoal
        BY <2>1, WaitFacts DEF WorkGoal
      <3> QED
        BY <1>0, <1>kept, <2>1, <3>1 DEF WaitForNotification
    <2>2. CASE ListenerRead
      <3>1. CacheGoal
        BY <2>2, <1>kept, <1>missed, ReadStep DEF CacheGoal, Complete, Cached
      <3>2. WorkGoal
        BY <2>2, ReadStep, FinishFacts DEF WorkGoal, Complete, Cached, ListenerRead
      <3> QED
        BY <1>0, <1>kept, <2>2, <3>1, <3>2 DEF ListenerRead
    <2>3. CASE ListenerWrite
      <3>1. CacheGoal
        BY <2>3, WriteStep DEF CacheGoal, Complete, Cached, ListenerWrite
      <3>2. WorkGoal
        BY <2>3, WriteStep, FinishFacts DEF WorkGoal, ListenerWrite
      <3> QED
        BY <1>0, <1>kept, <2>3, <3>1, <3>2 DEF ListenerWrite
    <2>4. CASE ListenerTTL
      <3>1. WorkGoal
        <4>1. Head(work.todo) \in Keys
          BY <2>4, AskStep DEF IsWork, Work
        <4> QED
          BY <2>4, <4>1, AskStep, WorkFacts DEF WorkGoal, Complete
      <3> QED
        BY <1>0, <1>kept, <2>4, <3>1 DEF ListenerTTL
    <2> QED
      BY <1>5, <2>1, <2>2, <2>3, <2>4 DEF Listener
  <1>6. CASE ConnectionLost
    <2>1. CacheGoal
      BY <1>6, <1>missed DEF ConnectionLost, CacheGoal
    <2>2. WorkGoal
      BY <1>6 DEF ConnectionLost, WorkGoal
    <2> QED
      BY <1>0, <1>6, <1>kept, <2>1, <2>2 DEF ConnectionLost
  <1>7. CASE Reconnect \/ UNCHANGED vars
    BY <1>0, <1>7, <1>kept DEF Reconnect, vars
  <1>8. CASE UpdateError
    <2>1. CacheGoal
      BY <1>8, <1>missed, ErrorFacts DEF CacheGoal, Complete, Cached
    <2>2. WorkGoal
      BY <1>8, ErrorFacts, FinishFacts DEF WorkGoal
    <2> QED
      BY <1>0, <1>8, <1>kept, <2>1, <2>2 DEF UpdateError
  <1>9. CASE Evict \/ Tick
    <2>1. CacheGoal
      BY <1>9, LossFacts DEF CacheGoal, Complete
    <2> QED
      BY <1>0, <1>9, <1>kept, <2>1, LossFacts
  <1> QED
    BY <1>1, <1>2, <1>3, <1>4, <1>5, <1>6, <1>7, <1>8, <1>9, NextCases

LEMMA CompleteSpec == Spec => []Complete
  <1>1. Init => Complete
    BY DEF Init, Complete, Cached, Fillers
  <1> QED
    BY <1>1, TypesSpec, CompleteStep, PTL DEF Spec

\* Every search returns all flights of its route that take bookings, and only
\* flights of its route, from whichever of the three sources, at any age of the
\* list and whatever faults.
THEOREM SearchesAreComplete == Spec => []SearchIsComplete
  <1>1. Types /\ Complete => SearchIsComplete
    <2> SUFFICES ASSUME Types, Complete PROVE SearchIsComplete
      OBVIOUS
    <2>1. RouteFlights = KeyFlights("route") /\ RouteFlights \subseteq FromFlights
          /\ FromFlights = KeyFlights("from")
      BY DEF KeyFlights, RouteFlights
    <2>2. CASE HotServes
      <3>1. "from" \in Keys /\ Cached("from")
        BY <2>2, KeyFacts DEF HotServes, NonEmpty, Types
      <3>2. Open("from") \subseteq DOMAIN cache["from"].rows
        BY <3>1 DEF Complete
      <3>3. DOMAIN ListFlights = DOMAIN cache["from"].rows \intersect RouteFlights
        BY <2>2 DEF ListFlights, FilterDestination, Restrict
      <3> QED
        BY <2>1, <3>2, <3>3 DEF SearchIsComplete, Open
    <2>3. CASE ~HotServes /\ NonEmpty("route")
      <3>1. "route" \in Keys /\ Cached("route")
        BY <2>3, KeyFacts DEF NonEmpty
      <3>2. Open("route") \subseteq DOMAIN cache["route"].rows
        BY <3>1 DEF Complete
      <3>3. DOMAIN cache["route"].rows \subseteq RouteFlights
        BY <2>1, <3>1, RowsFacts DEF Types, IsCache, Entry, Cached, CachedList
      <3> QED
        BY <2>1, <2>3, <3>2, <3>3 DEF SearchIsComplete, ListFlights, Open
    <2>4. CASE ~HotServes /\ ~NonEmpty("route")
      BY <2>1, <2>4, QueryFacts, KeyFacts DEF SearchIsComplete, ListFlights, Types
    <2> QED
      BY <2>2, <2>3, <2>4
  <1> QED
    BY <1>1, TypesSpec, CompleteSpec, PTL

-----------------------------------------------------------------------------
(* Lists are up to date, or will be.                                       *)

\* A change of f that the listener will still write to the list of k.
Announced(f) == \E i \in DOMAIN notices : notices[i].f = f
InWork(f, k) ==
    work # NoWork /\ work.notice.f = f /\ \E i \in DOMAIN work.todo : work.todo[i] = k
Pending(f, k) == Announced(f) \/ InWork(f, k)

\* A row that is not up to date has a change pending.
UpToDate(rows, k) == \A f \in DOMAIN rows : rows[f] = db[f] \/ Pending(f, k)

\* The last notification of a flight shows it as it is.
LastOf(i) == \A j \in DOMAIN notices : j > i => notices[j].f # notices[i].f
NoticesCurrent ==
    /\ \A i \in DOMAIN notices : LastOf(i) => notices[i].row = db[notices[i].f]
    /\ work # NoWork /\ ~Announced(work.notice.f) => work.notice.row = db[work.notice.f]

ReadsCurrent ==
    \A x \in Fillers : fills[x] # NoFill /\ ~fills[x].missed =>
        \A f \in DOMAIN fills[x].rows : fills[x].rows[f] = db[f]

ListsCurrent ==
    /\ \A k \in Keys : Cached(k) /\ ~cache[k].missed => UpToDate(cache[k].rows, k)
    /\ work # NoWork /\ work.list # NoEntry /\ ~work.list.missed =>
          UpToDate(work.list.rows, Head(work.todo))

Current == NoticesCurrent /\ ReadsCurrent /\ ListsCurrent

\* Steps that leave the database and the listener alone.
LEMMA QuietStep ==
    ASSUME UNCHANGED <<db, notices, work>>
    PROVE  /\ NoticesCurrent => NoticesCurrent'
           /\ \A f, k : Pending(f, k)' <=> Pending(f, k)
           /\ \A rows, k : UpToDate(rows, k)' <=> UpToDate(rows, k)
  <1>1. /\ \A f : Announced(f)' <=> Announced(f)
        /\ \A f, k : Pending(f, k)' <=> Pending(f, k)
    BY DEF Pending, Announced, InWork
  <1>2. NoticesCurrent => NoticesCurrent'
    BY <1>1 DEF NoticesCurrent, LastOf
  <1> QED
    BY <1>1, <1>2 DEF UpToDate

\* A list of the cache is about the flights of its key.
LEMMA ListFlightsOf ==
    ASSUME Types
    PROVE  /\ \A k \in Keys : Cached(k) =>
                 DOMAIN cache[k].rows \subseteq KeyFlights(k) /\ KeyFlights(k) \subseteq AllFlights
           /\ \A x \in Fillers : fills[x] # NoFill => DOMAIN fills[x].rows \subseteq AllFlights
           /\ work # NoWork =>
                 /\ work.todo \in Seq(Keys) /\ Head(work.todo) \in Keys
                 /\ Head(work.todo) = work.todo[1] /\ 1 \in DOMAIN work.todo
                 /\ work.list # NoEntry => DOMAIN work.list.rows \subseteq AllFlights
  <1>1. ASSUME NEW k \in Keys, NEW list \in CachedList(k) \union Fill(k) \union HeldList(k)
        PROVE  DOMAIN list.rows \subseteq KeyFlights(k) /\ KeyFlights(k) \subseteq AllFlights
    BY RowsFacts, KeyFacts DEF CachedList, Fill, HeldList
  <1>2. work # NoWork => /\ work.todo \in Seq(Keys) /\ Head(work.todo) \in Keys
                         /\ Head(work.todo) = work.todo[1] /\ 1 \in DOMAIN work.todo
                         /\ work.list \in Held(Head(work.todo))
    BY DEF Types, IsWork, Work
  <1>3. /\ \A k \in Keys : Cached(k) => cache[k] \in CachedList(k)
        /\ \A x \in Fillers : fills[x] # NoFill => fills[x] \in Fill(FillKey(x))
    BY DEF Types, IsCache, Entry, Cached, IsFills, PendingFill
  <1> QED
    BY <1>1, <1>2, <1>3, KeyFacts DEF Held

LEMMA ChangeCurrent ==
    ASSUME Types, Current, NEW f \in AllFlights, ChangeFlight(f)
    PROVE  Current'
  <1>1. UNCHANGED work /\ \A g \in AllFlights : g # f => db'[g] = db[g]
    BY ChangeFacts DEF ChangeFlight
  <1>2. ReadsCurrent'
    BY <1>1, ChangeFills, ListFlightsOf DEF ReadsCurrent, Current
  <1>3. CASE connected
    <2> DEFINE n == [f |-> f, row |-> db'[f]]
    <2>1. notices' = Append(notices, n) /\ UNCHANGED cache
      BY <1>3 DEF ChangeFlight
    <2>2. notices \in Seq(Notice) /\ n.f = f /\ n.row = db'[f]
      BY DEF Types
    <2> HIDE DEF n
    <2>3. /\ Len(notices) \in Nat /\ DOMAIN notices = 1..Len(notices)
          /\ DOMAIN notices' = 1..(Len(notices) + 1)
          /\ \A i \in DOMAIN notices : notices'[i] = notices[i] /\ notices[i] \in Notice
          /\ notices'[Len(notices) + 1] = n
      BY <2>1, <2>2
    <2>4. \A g : Announced(g)' <=> (Announced(g) \/ g = f)
      BY <2>2, <2>3 DEF Announced
    <2>5. \A g, k : Pending(g, k)' <=> (Pending(g, k) \/ g = f)
      BY <1>1, <2>4 DEF Pending, InWork
    <2>6. ASSUME NEW i \in DOMAIN notices', LastOf(i)' PROVE notices'[i].row = db'[notices'[i].f]
      <3>1. CASE i = Len(notices) + 1
        BY <2>2, <2>3, <3>1
      <3>2. CASE i # Len(notices) + 1
        <4>1. i \in DOMAIN notices /\ notices'[i] = notices[i] /\ notices[i].f \in AllFlights
          BY <2>3, <3>2 DEF Notice
        <4>2. notices[i].f # f
          BY <2>2, <2>3, <2>6, <4>1 DEF LastOf
        <4>3. LastOf(i)
          BY <2>3, <2>6, <4>1 DEF LastOf
        <4> QED
          BY <1>1, <4>1, <4>2, <4>3 DEF Current, NoticesCurrent
      <3> QED
        BY <3>1, <3>2
    <2>7. work # NoWork => work.notice.f \in AllFlights
      BY DEF Types, IsWork, Work, Notice
    <2>8. NoticesCurrent'
      BY <1>1, <2>4, <2>6, <2>7 DEF NoticesCurrent, Current
    <2>9. ASSUME NEW rows, NEW k, DOMAIN rows \subseteq AllFlights, UpToDate(rows, k)
          PROVE  UpToDate(rows, k)'
      BY <1>1, <2>5, <2>9 DEF UpToDate
    <2>10. ListsCurrent'
      BY <1>1, <2>1, <2>9, ListFlightsOf DEF ListsCurrent, Current, Cached
    <2> QED
      BY <1>2, <2>8, <2>10 DEF Current
  <1>4. CASE ~connected
    <2>1. cache' = MissedIn({f}) /\ UNCHANGED notices
      BY <1>4 DEF ChangeFlight
    <2>2. notices = << >> /\ work = NoWork
      BY <1>4 DEF Types
    <2>3. DOMAIN notices = {}
      BY <2>2
    <2>4. NoticesCurrent'
      BY <1>1, <2>1, <2>2, <2>3 DEF NoticesCurrent
    <2>5. \A g, k : ~Pending(g, k)
      BY <2>2, <2>3 DEF Pending, Announced, InWork
    <2>6. ASSUME NEW k \in Keys, cache'[k] # NoEntry, ~cache'[k].missed
          PROVE  UpToDate(cache[k].rows, k)'
      <3>1. /\ Cached(k) /\ cache'[k].rows = cache[k].rows
            /\ f \notin DOMAIN cache[k].rows /\ ~cache[k].missed
        BY <2>1, <2>6, MissedFacts DEF Types, Cached
      <3>2. \A g \in DOMAIN cache[k].rows : g \in AllFlights /\ g # f /\ cache[k].rows[g] = db[g]
        BY <2>5, <3>1, ListFlightsOf DEF Current, ListsCurrent, UpToDate
      <3> QED
        BY <1>1, <3>1, <3>2 DEF UpToDate
    <2> QED
      BY <1>1, <1>2, <2>2, <2>4, <2>6 DEF Current, ListsCurrent, Cached
  <1> QED
    BY <1>3, <1>4

\* What is taken from the notices is in the hands of the listener.
LEMMA WaitCurrent == ASSUME Types, Current, WaitForNotification PROVE Current'
  <1>0. PICK n : n = Head(notices)
    OBVIOUS
  <1> DEFINE rest == Tail(notices)
  <1>1. /\ work = NoWork /\ notices # << >> /\ notices' = rest
        /\ UNCHANGED <<db, cache, fills>> /\ notices \in Seq(Notice)
    BY DEF WaitForNotification, Types
  <1>2. /\ Len(notices) \in Nat \ {0} /\ DOMAIN notices = 1..Len(notices) /\ n = notices[1]
        /\ DOMAIN rest = 1..(Len(notices) - 1) /\ \A i \in DOMAIN rest : rest[i] = notices[i + 1]
    BY <1>0, <1>1
  <1>3. n \in Notice /\ n.f \in AllFlights
    BY <1>0, WaitFacts DEF Notice
  <1> HIDE DEF rest
  <1>4. ASSUME NEW i \in DOMAIN notices', LastOf(i)' PROVE notices'[i].row = db'[notices'[i].f]
    <2>1. i + 1 \in DOMAIN notices /\ notices'[i] = notices[i + 1]
      BY <1>1, <1>2
    <2>2. LastOf(i + 1)
      <3> SUFFICES ASSUME NEW j \in DOMAIN notices, j > i + 1
                   PROVE  notices[j].f # notices[i + 1].f
        BY DEF LastOf
      <3>1. j - 1 \in DOMAIN notices' /\ notices'[j - 1] = notices[j] /\ j - 1 > i
        BY <1>1, <1>2
      <3>2. \A m \in DOMAIN notices' : m > i => notices'[m].f # notices'[i].f
        BY <1>4 DEF LastOf
      <3> QED
        BY <2>1, <3>1, <3>2
    <2> QED
      BY <1>1, <2>1, <2>2 DEF Current, NoticesCurrent
  <1>5. ASSUME ~Announced(n.f)' PROVE n.row = db[n.f]
    <2>1. ASSUME NEW j \in DOMAIN notices, j > 1 PROVE notices[j].f # n.f
      <3>1. j - 1 \in DOMAIN notices' /\ notices'[j - 1] = notices[j]
        BY <1>1, <1>2, <2>1
      <3> QED
        BY <1>5, <3>1 DEF Announced
    <2>2. LastOf(1) /\ 1 \in DOMAIN notices
      BY <1>2, <2>1 DEF LastOf
    <2> QED
      BY <1>2, <2>2 DEF Current, NoticesCurrent
  <1>6. work' # NoWork => work'.notice = n /\ work'.list = NoEntry /\ work'.todo = TouchedKeys(n.f)
    BY <1>0, WaitFacts
  <1>7. NoticesCurrent'
    BY <1>1, <1>4, <1>5, <1>6 DEF NoticesCurrent
  <1>8. ASSUME NEW k \in Keys, NEW g \in KeyFlights(k), Pending(g, k) PROVE Pending(g, k)'
    <2>1. PICK i \in DOMAIN notices : notices[i].f = g
      BY <1>1, <1>8 DEF Pending, Announced, InWork
    <2>2. CASE i = 1
      <3>1. g = n.f
        BY <1>2, <2>1, <2>2
      <3>2. PICK j \in DOMAIN TouchedKeys(g) : TouchedKeys(g)[j] = k
        BY <1>3, <3>1, TouchedFacts
      <3>3. TouchedKeys(g) # << >>
        BY <3>2
      <3>4. work' # NoWork /\ work'.notice = n /\ work'.todo = TouchedKeys(g)
        BY <1>0, <3>1, <3>3, WaitFacts, WorkFacts
      <3> QED
        BY <3>1, <3>2, <3>4 DEF Pending, InWork
    <2>3. CASE i # 1
      <3>1. i - 1 \in DOMAIN notices' /\ notices'[i - 1] = notices[i]
        BY <1>1, <1>2, <2>3
      <3> QED
        BY <2>1, <3>1 DEF Pending, Announced
    <2> QED
      BY <2>2, <2>3
  <1>9. ListsCurrent'
    <2>1. ASSUME NEW k \in Keys, Cached(k), ~cache[k].missed PROVE UpToDate(cache[k].rows, k)'
      <3>1. UpToDate(cache[k].rows, k) /\ DOMAIN cache[k].rows \subseteq KeyFlights(k)
        BY <2>1, ListFlightsOf DEF Current, ListsCurrent
      <3> QED
        BY <1>1, <1>8, <3>1 DEF UpToDate
    <2> QED
      BY <1>1, <1>6, <2>1 DEF ListsCurrent, Cached
  <1>10. ReadsCurrent'
    BY <1>1 DEF ReadsCurrent, Current
  <1> QED
    BY <1>7, <1>9, <1>10 DEF Current

\* A key that is done has nothing pending any more of the notification at hand.
LEMMA FinishCurrent ==
    ASSUME Types, Current, work # NoWork, Finish(Tail(work.todo)), UNCHANGED <<db, notices>>
    PROVE  /\ NoticesCurrent'
           /\ \A g : Announced(g)' <=> Announced(g)
           /\ \A g, j : j # Head(work.todo) /\ Pending(g, j) => Pending(g, j)'
           /\ \A g, j : g # work.notice.f /\ Pending(g, j) => Announced(g)
           /\ work' # NoWork => work'.list = NoEntry
  <1>1. \A g : Announced(g)' <=> Announced(g)
    BY DEF Announced
  <1>2. NoticesCurrent'
    BY <1>1, FinishFacts DEF Current, NoticesCurrent, LastOf
  <1>3. ASSUME NEW g, NEW j, j # Head(work.todo), Pending(g, j) PROVE Pending(g, j)'
    <2>1. CASE Announced(g)
      BY <1>1, <2>1 DEF Pending
    <2>2. CASE InWork(g, j)
      <3>1. PICK i \in DOMAIN work.todo : work.todo[i] = j /\ work.notice.f = g
        BY <2>2 DEF InWork
      <3>2. work' # NoWork /\ work'.notice.f = g
            /\ \E m \in DOMAIN work'.todo : work'.todo[m] = j
        BY <1>3, <3>1, FinishFacts
      <3> QED
        BY <3>2 DEF Pending, InWork
    <2> QED
      BY <1>3, <2>1, <2>2 DEF Pending
  <1>4. \A g, j : g # work.notice.f /\ Pending(g, j) => Announced(g)
    BY DEF Pending, InWork
  <1> QED
    BY <1>1, <1>2, <1>3, <1>4, FinishFacts

\* The listener gives a key up: the list does not show the flight, or is marked.
LEMMA GivenUpCurrent ==
    ASSUME Types, Current, work # NoWork, Finish(Tail(work.todo)),
           UNCHANGED <<db, fills, notices>>, NEW k \in Keys, k = Head(work.todo),
           \A j \in Keys \ {k} : cache'[j] = cache[j],
           \/ cache'[k] = cache[k] /\ (Cached(k) => work.notice.f \notin DOMAIN cache[k].rows)
           \/ cache'[k] = MissedIn({work.notice.f})[k]
    PROVE  Current'
  <1>1. ASSUME NEW j \in Keys \ {k}, cache'[j] # NoEntry, ~cache'[j].missed
        PROVE  UpToDate(cache[j].rows, j)' /\ cache'[j] = cache[j]
    <2>1. UpToDate(cache[j].rows, j) /\ cache'[j] = cache[j]
      BY <1>1 DEF Current, ListsCurrent, Cached
    <2> QED
      BY <2>1, FinishCurrent DEF UpToDate
  <1>2. ASSUME cache'[k] # NoEntry, ~cache'[k].missed
        PROVE  UpToDate(cache[k].rows, k)' /\ cache'[k].rows = cache[k].rows
    <2>1. /\ Cached(k) /\ ~cache[k].missed /\ cache'[k].rows = cache[k].rows
          /\ work.notice.f \notin DOMAIN cache[k].rows
      BY <1>2, MissedFacts DEF Types, Cached
    <2>2. UpToDate(cache[k].rows, k)
      BY <2>1 DEF Current, ListsCurrent
    <2>3. ASSUME NEW g \in DOMAIN cache[k].rows
          PROVE  cache[k].rows[g] = db[g] \/ Announced(g)
      BY <2>1, <2>2, <2>3, FinishCurrent DEF UpToDate
    <2> QED
      BY <2>1, <2>3, FinishCurrent DEF UpToDate, Pending
  <1>3. ListsCurrent'
    BY <1>1, <1>2, FinishCurrent DEF ListsCurrent, Cached, UpToDate, Pending
  <1>4. ReadsCurrent'
    BY DEF Current, ReadsCurrent
  <1> QED
    BY <1>3, <1>4, FinishCurrent DEF Current

LEMMA ReadCurrent == ASSUME Types, Current, ListenerRead PROVE Current'
  <1>1. UNCHANGED <<db, fills, notices>> /\ work # NoWork
    BY DEF ListenerRead
  <1>2. PICK k : k = Head(work.todo)
    OBVIOUS
  <1>3. CASE /\ Cached(k) /\ k \in Keys /\ UNCHANGED cache /\ IsWork(work')
             /\ work'.todo = work.todo /\ work'.notice = work.notice /\ work'.list = cache[k]
    <2>1. work' # NoWork
      BY <1>3, WorkFacts
    <2>2. /\ \A g : Announced(g)' <=> Announced(g)
          /\ \A g, j : Pending(g, j)' <=> Pending(g, j)
      BY <1>1, <1>3, <2>1 DEF Pending, Announced, InWork
    <2>3. NoticesCurrent'
      BY <1>1, <1>3, <2>1, <2>2 DEF Current, NoticesCurrent, LastOf
    <2>4. ASSUME NEW j \in Keys, Cached(j), ~cache[j].missed PROVE UpToDate(cache[j].rows, j)'
      <3>1. UpToDate(cache[j].rows, j)
        BY <2>4 DEF Current, ListsCurrent
      <3> QED
        BY <1>1, <1>3, <2>2, <3>1 DEF UpToDate
    <2>5. ListsCurrent'
      BY <1>2, <1>3, <2>4 DEF ListsCurrent, Cached, UpToDate, Pending
    <2>6. ReadsCurrent'
      BY <1>1 DEF Current, ReadsCurrent
    <2> QED
      BY <2>3, <2>5, <2>6 DEF Current
  <1>4. CASE /\ Finish(Tail(work.todo)) /\ k \in Keys
             /\ \A j \in Keys \ {k} : cache'[j] = cache[j]
             /\ \/ cache'[k] = cache[k] /\ (Cached(k) => work.notice.f \notin DOMAIN cache[k].rows)
                \/ cache'[k] = MissedIn({work.notice.f})[k]
    BY <1>1, <1>2, <1>4, GivenUpCurrent
  <1> QED
    BY <1>2, <1>3, <1>4, ReadStep

\* Asking for the time to live leaves everything pending as it is.
LEMMA AskCurrent == ASSUME Types, Current, ListenerTTL PROVE Current'
  <1>1. /\ UNCHANGED <<db, cache, fills, notices>> /\ work # NoWork /\ work' # NoWork
        /\ work.list # NoEntry /\ work'.todo = work.todo /\ work'.notice = work.notice
        /\ work'.list.rows = work.list.rows /\ work'.list.missed = work.list.missed
    BY AskStep, WorkFacts
  <1>2. /\ \A g : Announced(g)' <=> Announced(g)
        /\ \A g, j : Pending(g, j)' <=> Pending(g, j)
    BY <1>1 DEF Pending, Announced, InWork
  <1>3. NoticesCurrent'
    BY <1>1, <1>2 DEF Current, NoticesCurrent, LastOf
  <1>4. \A rows, j : UpToDate(rows, j)' <=> UpToDate(rows, j)
    BY <1>1, <1>2 DEF UpToDate
  <1>5. ListsCurrent'
    BY <1>1, <1>4 DEF Current, ListsCurrent, Cached
  <1>6. ReadsCurrent'
    BY <1>1 DEF Current, ReadsCurrent
  <1> QED
    BY <1>3, <1>5, <1>6 DEF Current

LEMMA WriteCurrent == ASSUME Types, Current, ListenerWrite PROVE Current'
  <1>1. UNCHANGED <<db, fills, notices>> /\ work # NoWork /\ work.list # NoEntry
    BY DEF ListenerWrite
  <1>2. PICK k, f, rows : /\ k = Head(work.todo) /\ f = work.notice.f
                          /\ rows = [work.list.rows EXCEPT ![f] = work.notice.row]
    OBVIOUS
  <1>3. /\ k \in Keys /\ Finish(Tail(work.todo)) /\ DOMAIN rows = DOMAIN work.list.rows
        /\ \A j \in Keys \ {k} : cache'[j] = cache[j]
        /\ cache'[k].rows = rows /\ cache'[k].missed = work.list.missed
    BY <1>2, WriteStep
  <1>4. ASSUME NEW j \in Keys \ {k}, cache'[j] # NoEntry, ~cache'[j].missed
        PROVE  UpToDate(cache[j].rows, j)' /\ cache'[j] = cache[j]
    <2>1. UpToDate(cache[j].rows, j) /\ cache'[j] = cache[j]
      BY <1>3, <1>4 DEF Current, ListsCurrent, Cached
    <2> QED
      BY <1>1, <1>2, <1>3, <2>1, FinishCurrent DEF UpToDate
  <1>5. ASSUME ~cache'[k].missed PROVE UpToDate(rows, k)'
    <2>1. UpToDate(work.list.rows, k)
      BY <1>1, <1>2, <1>3, <1>5 DEF Current, ListsCurrent
    <2>2. ASSUME NEW g \in DOMAIN rows PROVE rows[g] = db[g] \/ Announced(g)
      <3>1. CASE g = f
        <4>1. rows[g] = work.notice.row
          BY <1>2, <1>3, <3>1
        <4> QED
          BY <1>1, <1>2, <3>1, <4>1 DEF Current, NoticesCurrent
      <3>2. CASE g # f
        <4>1. rows[g] = work.list.rows[g]
          BY <1>2, <1>3, <3>2
        <4>2. Pending(g, k) => Announced(g)
          BY <1>1, <1>2, <3>2 DEF Pending, InWork
        <4> QED
          BY <1>3, <2>1, <4>1, <4>2 DEF UpToDate
      <3> QED
        BY <3>1, <3>2
    <2> QED
      BY <1>1, <1>3, <2>2, FinishCurrent DEF UpToDate, Pending
  <1>6. ListsCurrent'
    BY <1>1, <1>3, <1>4, <1>5, FinishCurrent DEF ListsCurrent, Cached, UpToDate, Pending
  <1>7. ReadsCurrent'
    BY <1>1 DEF Current, ReadsCurrent
  <1> QED
    BY <1>1, <1>3, <1>6, <1>7, FinishCurrent DEF Current

\* Whatever is lost with the connection is marked on the lists.
LEMMA ConnectionCurrent == ASSUME Types, Current, ConnectionLost PROVE Current'
  <1> DEFINE lost == {notices[i].f : i \in DOMAIN notices}
                     \union (IF work = NoWork THEN {} ELSE {work.notice.f})
  <1>1. /\ UNCHANGED <<db, fills>> /\ notices' = << >> /\ work' = NoWork
        /\ cache' = MissedIn(lost)
    BY DEF ConnectionLost
  <1>2. \A g, k : Pending(g, k) => g \in lost
    BY DEF Pending, Announced, InWork
  <1> HIDE DEF lost
  <1>3. PICK ls : ls = lost
    OBVIOUS
  <1>4. NoticesCurrent' /\ ReadsCurrent'
    BY <1>1 DEF Current, NoticesCurrent, ReadsCurrent
  <1>5. ASSUME NEW k \in Keys, cache'[k] # NoEntry, ~cache'[k].missed
        PROVE  cache'[k].rows = cache[k].rows /\ \A f \in DOMAIN cache[k].rows : cache[k].rows[f] = db[f]
    <2>1. /\ Cached(k) /\ ~cache[k].missed /\ cache'[k].rows = cache[k].rows
          /\ lost \intersect DOMAIN cache[k].rows = {}
      BY <1>1, <1>5, MissedFacts DEF Types, Cached
    <2>2. UpToDate(cache[k].rows, k)
      BY <2>1 DEF Current, ListsCurrent
    <2> QED
      BY <1>2, <2>1, <2>2 DEF UpToDate
  <1>6. ListsCurrent'
    BY <1>1, <1>5 DEF ListsCurrent, Cached, UpToDate
  <1> QED
    BY <1>4, <1>6 DEF Current

\* Steps that leave the database and the listener alone keep every list current,
\* if the lists of the cache come from the cache or from what was read.
LEMMA ElsewhereCurrent ==
    ASSUME Types, Current, UNCHANGED <<db, notices, work>>, ReadsCurrent',
           \A k \in Keys : cache'[k] # NoEntry =>
              \/ Cached(k) /\ cache'[k].rows = cache[k].rows /\ cache'[k].missed = cache[k].missed
              \/ \E x \in Fillers : /\ fills[x] # NoFill /\ cache'[k].rows = fills[x].rows
                                     /\ cache'[k].missed = fills[x].missed
    PROVE  Current'
  <1>1. ASSUME NEW k \in Keys, cache'[k] # NoEntry, ~cache'[k].missed
        PROVE  \A f \in DOMAIN cache'[k].rows : cache'[k].rows[f] = db[f] \/ Pending(f, k)
    <2>1. CASE Cached(k) /\ cache'[k].rows = cache[k].rows /\ cache'[k].missed = cache[k].missed
      BY <1>1, <2>1 DEF Current, ListsCurrent, UpToDate
    <2>2. ASSUME NEW x \in Fillers, fills[x] # NoFill, cache'[k].rows = fills[x].rows,
                 cache'[k].missed = fills[x].missed
          PROVE  \A f \in DOMAIN cache'[k].rows : cache'[k].rows[f] = db[f]
      BY <1>1, <2>2 DEF Current, ReadsCurrent
    <2> QED
      BY <1>1, <2>1, <2>2
  <1>2. /\ NoticesCurrent' /\ \A f, k : Pending(f, k)' <=> Pending(f, k)
    BY QuietStep DEF Current
  <1>3. ListsCurrent'
    BY <1>1, <1>2 DEF Current, ListsCurrent, UpToDate, Cached
  <1> QED
    BY <1>2, <1>3 DEF Current

LEMMA CurrentStep == Types /\ Current /\ [Next]_vars => Current'
  <1> SUFFICES ASSUME Types, Current, [Next]_vars PROVE Current'
    OBVIOUS
  <1>1. ASSUME NEW f \in AllFlights, ChangeFlight(f) PROVE Current'
    BY <1>1, ChangeCurrent
  <1>2. ASSUME NEW x \in Fillers, ReadsFor(x) PROVE Current'
    <2>1. \A f \in DOMAIN Query(FillKey(x)) : Query(FillKey(x))[f] = db[f]
      BY QueryFacts, KeyFacts DEF Types
    <2>2. ReadsCurrent'
      BY <1>2, <2>1, ReadsForFacts DEF Current, ReadsCurrent
    <2> QED
      BY <1>2, <2>2, ReadsForFacts, ElsewhereCurrent DEF Cached
  <1>3. ASSUME NEW x \in Fillers, StoresFor(x) PROVE Current'
    <2>1. fills[x] # NoFill
      BY <1>3, StoresForFacts, ListFacts, KeyFacts
    <2>2. ReadsCurrent'
      BY <1>3, StoresForFacts DEF Current, ReadsCurrent
    <2> QED
      BY <1>3, <2>1, <2>2, StoresForFacts, ElsewhereCurrent DEF Cached
  <1>4. ASSUME NEW x \in Fillers, FillError(x) PROVE Current'
    <2>1. UNCHANGED <<db, cache, notices, work>>
      BY <1>4 DEF FillError
    <2>2. ReadsCurrent'
      BY <1>4, <2>1, FillErrorFacts DEF Current, ReadsCurrent
    <2> QED
      BY <2>1, <2>2, ElsewhereCurrent DEF Cached
  <1>5. CASE Listener
    BY <1>5, WaitCurrent, ReadCurrent, AskCurrent, WriteCurrent DEF Listener
  <1>6. CASE ConnectionLost
    BY <1>6, ConnectionCurrent
  <1>7. CASE UpdateError
    <2>1. UNCHANGED <<db, fills, notices>>
      BY <1>7 DEF UpdateError
    <2>2. PICK k : k = Head(work.todo)
      OBVIOUS
    <2> QED
      BY <1>7, <2>1, <2>2, ErrorFacts, GivenUpCurrent
  <1>8. CASE Evict \/ Tick \/ Reconnect \/ UNCHANGED vars
    <2>1. /\ UNCHANGED <<db, fills, notices, work>>
          /\ \A k \in Keys : cache'[k] # NoEntry =>
                Cached(k) /\ cache'[k].rows = cache[k].rows /\ cache'[k].missed = cache[k].missed
      BY <1>8, LossFacts DEF Reconnect, vars, Cached
    <2>2. ReadsCurrent'
      BY <2>1 DEF Current, ReadsCurrent
    <2> QED
      BY <2>1, <2>2, ElsewhereCurrent
  <1> QED
    BY <1>1, <1>2, <1>3, <1>4, <1>5, <1>6, <1>7, <1>8, NextCases

LEMMA CurrentSpec == Spec => []Current
  <1>1. Init => Current
    BY DEF Init, Current, NoticesCurrent, ReadsCurrent, ListsCurrent, Cached, Fillers
  <1> QED
    BY <1>1, TypesSpec, CurrentStep, PTL DEF Spec

\* When the listener has nothing left to do, every list that missed no change,
\* by a fault or by being read before and written after it, shows the database:
\* notifications that are older than the list they are applied to, or are applied
\* between other writers' steps, leave no older row behind.
THEOREM ListsAreCurrent == Spec => []StaleOnlyIfMissed
  <1>1. Types /\ Current => StaleOnlyIfMissed
    <2> SUFFICES ASSUME Types, Current, notices = << >>, work = NoWork,
                        NEW k \in Keys, Cached(k), ~cache[k].missed,
                        NEW f \in DOMAIN cache[k].rows
                 PROVE  cache[k].rows[f] = db[f]
      BY DEF StaleOnlyIfMissed, Quiet
    <2>1. ~Pending(f, k)
      BY DEF Pending, Announced, InWork
    <2> QED
      BY <2>1 DEF Current, ListsCurrent, UpToDate
  <1> QED
    BY <1>1, TypesSpec, CurrentSpec, PTL

=============================================================================
