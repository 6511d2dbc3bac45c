----------------------------- MODULE SumProofs -----------------------------
(***************************************************************************)
(* Facts about SumFunction, the sum of a function to Nat over its domain:  *)
(* the length of a seat array in BookingStore, the recent searches in      *)
(* SearchDemand.                                                           *)
(*                                                                         *)
(* The sum is a function defined by recursion on sets.  What it returns    *)
(* follows from the fact that a set of finite sets has a minimal member:   *)
(* there is no smallest set on which the sum is wrong.                     *)
(***************************************************************************)
EXTENDS Integers, FiniteSets, Functions, FiniteSetTheorems, WellFoundedInduction, TLAPS

-----------------------------------------------------------------------------
(* The recursion.                                                          *)

Pick(s) == CHOOSE x \in s : TRUE
SumStep(l, g, s) == IF s = {} THEN 0 ELSE l[Pick(s)] + g[s \ {Pick(s)}]
\* The functions that sum l over every subset of X.
Sums(l, X) == {g \in [SUBSET X -> Nat] : \A s \in SUBSET X : g[s] = SumStep(l, g, s)}

LEMMA PickIn == \A s : s # {} => Pick(s) \in s
  BY DEF Pick

\* The induction principle: a set of finite sets has a minimal member.
LEMMA MinimalSet ==
    ASSUME NEW D, IsFiniteSet(D), NEW T \in SUBSET (SUBSET D), T # {}
    PROVE  \E X \in T : \A Y \in T : Y \subseteq X => Y = X
  <1> DEFINE R == StrictSubsetOrdering(D)
             S == FiniteSubsetsOf(D)
  <1>1. T \subseteq S
    BY FS_FiniteSubsetsOfFinite
  <1>2. IsWellFoundedOn(R, S)
    BY FS_StrictSubsetOrderingWellFounded
  <1>3. PICK X \in T : \A Y \in T : ~(<<Y, X>> \in R)
    <2> HIDE DEF R, S
    <2> QED
      BY <1>1, <1>2, WFMin
  <1>4. ASSUME NEW Y \in T, Y \subseteq X PROVE Y = X
    BY <1>3, <1>4 DEF StrictSubsetOrdering
  <1> QED
    BY <1>4

LEMMA SumsAgree ==
    ASSUME NEW D, IsFiniteSet(D), NEW l, NEW X \in SUBSET D, NEW Y \in SUBSET D,
           NEW g \in Sums(l, X), NEW h \in Sums(l, Y)
    PROVE  \A s \in SUBSET (X \intersect Y) : g[s] = h[s]
  <1> DEFINE T == {s \in SUBSET (X \intersect Y) : g[s] # h[s]}
  <1> SUFFICES ASSUME T # {} PROVE FALSE
    OBVIOUS
  <1>1. PICK s \in T : \A r \in T : r \subseteq s => r = s
    <2>1. T \in SUBSET (SUBSET D)
      OBVIOUS
    <2> HIDE DEF T
    <2> QED
      BY <2>1, MinimalSet
  <1>2. g[s] = SumStep(l, g, s) /\ h[s] = SumStep(l, h, s) /\ g[s] # h[s]
    BY <1>1 DEF Sums
  <1>3. s # {}
    BY <1>2 DEF SumStep
  <1>4. Pick(s) \in s
    BY <1>3, PickIn
  <1>5. s \ {Pick(s)} \in SUBSET (X \intersect Y) /\ s \ {Pick(s)} # s
    BY <1>1, <1>4
  <1> HIDE DEF T
  <1>6. s \ {Pick(s)} \notin T
    BY <1>1, <1>5
  <1>7. g[s \ {Pick(s)}] = h[s \ {Pick(s)}]
    BY <1>5, <1>6 DEF T
  <1> QED
    BY <1>2, <1>3, <1>7 DEF SumStep

LEMMA SumsExist ==
    ASSUME NEW D, IsFiniteSet(D), NEW l \in [D -> Nat]
    PROVE  \A X \in SUBSET D : Sums(l, X) # {}
  <1> DEFINE T == {X \in SUBSET D : Sums(l, X) = {}}
  <1> SUFFICES ASSUME T # {} PROVE FALSE
    OBVIOUS
  <1>1. PICK X \in T : \A Y \in T : Y \subseteq X => Y = X
    <2>1. T \in SUBSET (SUBSET D)
      OBVIOUS
    <2> HIDE DEF T
    <2> QED
      BY <2>1, MinimalSet
  <1>2. X \in SUBSET D /\ Sums(l, X) = {}
    BY <1>1
  <1> DEFINE some(s) == CHOOSE g \in Sums(l, s) : TRUE
             below(s) == IF s = {} THEN 0
                         ELSE l[Pick(s)] + some(s \ {Pick(s)})[s \ {Pick(s)}]
             h == [s \in SUBSET X |-> below(s)]
  <1>3. ASSUME NEW s \in SUBSET X, s # X PROVE some(s) \in Sums(l, s)
    BY <1>1, <1>3
  <1>4. ASSUME NEW s \in SUBSET X, s # {}
        PROVE  /\ Pick(s) \in s /\ l[Pick(s)] \in Nat
               /\ s \ {Pick(s)} \in SUBSET X /\ s \ {Pick(s)} # X
    BY <1>2, <1>4, PickIn
  <1>5. ASSUME NEW s \in SUBSET X, s # X PROVE some(s)[s] = below(s) /\ some(s)[s] \in Nat
    <2>1. some(s) \in Sums(l, s)
      BY <1>3, <1>5
    <2>2. some(s)[s] = SumStep(l, some(s), s) /\ some(s)[s] \in Nat
      BY <2>1 DEF Sums
    <2>3. CASE s = {}
      BY <2>2, <2>3 DEF SumStep
    <2>4. CASE s # {}
      <3> DEFINE r == s \ {Pick(s)}
      <3>1. r \in SUBSET X /\ r # X /\ r \subseteq s
        BY <1>4, <2>4
      <3>2. some(r) \in Sums(l, r)
        BY <1>3, <3>1
      <3>3. some(r)[r] = some(s)[r]
        <4>1. r \in SUBSET (r \intersect s) /\ r \in SUBSET D /\ s \in SUBSET D
          BY <3>1, <1>2
        <4> HIDE DEF r, some
        <4> QED
          BY <4>1, <3>2, <2>1, SumsAgree
      <3> QED
        BY <2>2, <2>4, <3>3 DEF SumStep
    <2> QED
      BY <2>2, <2>3, <2>4
  <1>6. ASSUME NEW s \in SUBSET X PROVE h[s] \in Nat /\ h[s] = SumStep(l, h, s)
    <2>1. CASE s = {}
      BY <2>1 DEF SumStep
    <2>2. CASE s # {}
      <3> DEFINE r == s \ {Pick(s)}
      <3>1. r \in SUBSET X /\ r # X /\ l[Pick(s)] \in Nat
        BY <1>4, <2>2
      <3>2. some(r)[r] = below(r) /\ some(r)[r] \in Nat
        BY <1>5, <3>1
      <3>3. h[r] = some(r)[r]
        BY <3>1, <3>2
      <3>4. h[s] = l[Pick(s)] + some(r)[r]
        BY <2>2
      <3> HIDE DEF h, some, below, r
      <3>5. h[s] = l[Pick(s)] + h[r] /\ h[s] \in Nat
        BY <3>1, <3>2, <3>3, <3>4
      <3> QED
        BY <3>5, <2>2 DEF SumStep, r
    <2> QED
      BY <2>1, <2>2
  <1>7. h \in [SUBSET X -> Nat]
    <2> HIDE DEF below
    <2>1. \A s \in SUBSET X : below(s) \in Nat
      BY <1>6
    <2> QED
      BY <2>1
  <1>8. h \in Sums(l, X)
    BY <1>6, <1>7 DEF Sums
  <1> QED
    BY <1>2, <1>8

LEMMA SumIs ==
    ASSUME NEW D, IsFiniteSet(D), NEW l \in [D -> Nat]
    PROVE  \E g \in Sums(l, D) : SumFunction(l) = g[D]
  <1> DEFINE IsSum(g) == g = [s \in SUBSET D |-> IF s = {} THEN 0
                 ELSE l[CHOOSE x \in s : TRUE] + g[s \ {CHOOSE x \in s : TRUE}]]
             g == CHOOSE g : IsSum(g)
  <1>1. SumFunction(l) = g[D]
    BY DEF SumFunction, SumFunctionOnSet, FoldFunctionOnSet, MapThenFoldSet
  <1>2. PICK h : h \in Sums(l, D)
    BY SumsExist
  <1>3. IsSum(h)
    <2>1. h \in [SUBSET D -> Nat] /\ \A s \in SUBSET D : h[s] = SumStep(l, h, s)
      BY <1>2 DEF Sums
    <2> QED
      BY <2>1 DEF SumStep, Pick
  <1>4. IsSum(g)
    <2> HIDE DEF IsSum
    <2> QED
      BY <1>3
  <1> HIDE DEF g
  <1>5. DOMAIN g = SUBSET D /\ \A s \in SUBSET D : g[s] = SumStep(l, g, s)
    BY <1>4 DEF SumStep, Pick
  <1> DEFINE T == {s \in SUBSET D : g[s] \notin Nat}
  <1>6. T = {}
    <2> SUFFICES ASSUME T # {} PROVE FALSE
      OBVIOUS
    <2>1. PICK s \in T : \A r \in T : r \subseteq s => r = s
      <3>1. T \in SUBSET (SUBSET D)
        OBVIOUS
      <3> HIDE DEF T
      <3> QED
        BY <3>1, MinimalSet
    <2>2. s # {}
      <3>1. s \in SUBSET D /\ g[s] \notin Nat
        BY <2>1
      <3>2. g[s] = SumStep(l, g, s)
        BY <3>1, <1>5
      <3> QED
        BY <3>1, <3>2 DEF SumStep
    <2>3. Pick(s) \in s /\ l[Pick(s)] \in Nat
      BY <2>1, <2>2, PickIn
    <2>4. g[s \ {Pick(s)}] \in Nat
      BY <2>1, <2>3
    <2> QED
      BY <2>1, <2>2, <2>3, <2>4, <1>5 DEF SumStep
  <1>7. g \in [SUBSET D -> Nat]
    <2>1. g = [s \in SUBSET D |-> g[s]]
      BY <1>4
    <2> QED
      BY <2>1, <1>6
  <1> QED
    BY <1>1, <1>5, <1>7 DEF Sums

-----------------------------------------------------------------------------
(* What the sum returns.                                                   *)

LEMMA SumNat ==
    ASSUME NEW D, IsFiniteSet(D), NEW l \in [D -> Nat]
    PROVE  SumFunction(l) \in Nat
  <1>1. PICK g \in Sums(l, D) : SumFunction(l) = g[D]
    BY SumIs
  <1> QED
    BY <1>1 DEF Sums

LEMMA SumZero ==
    ASSUME NEW D, IsFiniteSet(D), NEW l \in [D -> Nat], \A x \in D : l[x] = 0
    PROVE  SumFunction(l) = 0
  <1>1. PICK g \in Sums(l, D) : SumFunction(l) = g[D]
    BY SumIs
  <1> DEFINE T == {s \in SUBSET D : g[s] # 0}
  <1>2. T = {}
    <2> SUFFICES ASSUME T # {} PROVE FALSE
      OBVIOUS
    <2>1. PICK s \in T : \A r \in T : r \subseteq s => r = s
      <3>1. T \in SUBSET (SUBSET D)
        OBVIOUS
      <3> HIDE DEF T
      <3> QED
        BY <3>1, MinimalSet
    <2>2. g[s] = SumStep(l, g, s)
      BY <2>1 DEF Sums
    <2>3. s # {}
      BY <2>1, <2>2 DEF SumStep
    <2>4. Pick(s) \in s /\ l[Pick(s)] = 0
      BY <2>1, <2>3, PickIn
    <2>5. g[s \ {Pick(s)}] = 0
      BY <2>1, <2>4
    <2> QED
      BY <2>1, <2>2, <2>3, <2>4, <2>5 DEF SumStep
  <1> QED
    BY <1>1, <1>2

LEMMA SumAdd ==
    ASSUME NEW D, IsFiniteSet(D), NEW a \in [D -> Nat], NEW b \in [D -> Nat],
           NEW c \in [D -> Nat], \A x \in D : c[x] = a[x] + b[x]
    PROVE  SumFunction(c) = SumFunction(a) + SumFunction(b)
  <1>2. PICK ga \in Sums(a, D) : SumFunction(a) = ga[D]
    BY SumIs
  <1>3. PICK gb \in Sums(b, D) : SumFunction(b) = gb[D]
    BY SumIs
  <1>4. PICK gc \in Sums(c, D) : SumFunction(c) = gc[D]
    BY SumIs
  <1> DEFINE T == {s \in SUBSET D : gc[s] # ga[s] + gb[s]}
  <1>5. T = {}
    <2> SUFFICES ASSUME T # {} PROVE FALSE
      OBVIOUS
    <2>1. PICK s \in T : \A r \in T : r \subseteq s => r = s
      <3>1. T \in SUBSET (SUBSET D)
        OBVIOUS
      <3> HIDE DEF T
      <3> QED
        BY <3>1, MinimalSet
    <2>2. /\ ga[s] = SumStep(a, ga, s) /\ gb[s] = SumStep(b, gb, s)
          /\ gc[s] = SumStep(c, gc, s) /\ gc[s] # ga[s] + gb[s]
      BY <2>1 DEF Sums
    <2>3. s # {}
      BY <2>2 DEF SumStep
    <2> DEFINE x == Pick(s)
               r == s \ {x}
    <2>4. x \in s /\ x \in D /\ r \in SUBSET D /\ r # s /\ r \subseteq s
      BY <2>1, <2>3, PickIn
    <2>5. gc[r] = ga[r] + gb[r]
      BY <2>1, <2>4
    <2>6. /\ ga[r] \in Nat /\ gb[r] \in Nat /\ a[x] \in Nat /\ b[x] \in Nat
          /\ c[x] = a[x] + b[x]
      BY <2>4 DEF Sums
    <2>7. ga[s] = a[x] + ga[r] /\ gb[s] = b[x] + gb[r] /\ gc[s] = c[x] + gc[r]
      BY <2>2, <2>3 DEF SumStep
    <2> HIDE DEF x, r
    <2> QED
      BY <2>2, <2>5, <2>6, <2>7
  <1> QED
    BY <1>2, <1>3, <1>4, <1>5

\* Any member may be taken out first.
TakesAny(l, D, g) == \A s \in SUBSET D : \A x \in s : g[s] = l[x] + g[s \ {x}]

LEMMA SumAny ==
    ASSUME NEW D, IsFiniteSet(D), NEW l \in [D -> Nat], NEW g \in Sums(l, D)
    PROVE  TakesAny(l, D, g)
  <1> DEFINE T == {s \in SUBSET D : \E x \in s : g[s] # l[x] + g[s \ {x}]}
  <1> SUFFICES ASSUME T # {} PROVE FALSE
    BY DEF TakesAny
  <1>1. PICK s \in T : \A r \in T : r \subseteq s => r = s
    <2>1. T \in SUBSET (SUBSET D)
      OBVIOUS
    <2> HIDE DEF T
    <2> QED
      BY <2>1, MinimalSet
  <1>2. PICK x \in s : g[s] # l[x] + g[s \ {x}]
    BY <1>1
  <1> DEFINE p == Pick(s)
             sp == s \ {p}
             sx == s \ {x}
             rest == s \ {p, x}
  <1>3. p \in s /\ s \in SUBSET D
    BY <1>1, <1>2, PickIn
  <1>4. g[s] = l[p] + g[sp]
    BY <1>1, <1>2 DEF Sums, SumStep
  <1>5. x # p
    BY <1>2, <1>4
  <1>6. sp \in SUBSET D /\ sp \subseteq s /\ sp # s /\ sx \in SUBSET D /\ sx \subseteq s /\ sx # s
    BY <1>3
  <1>7. sp \notin T /\ sx \notin T
    <2> HIDE DEF T, sp, sx
    <2> QED
      BY <1>1, <1>6
  <1>8. x \in sp /\ sp \ {x} = rest /\ p \in sx /\ sx \ {p} = rest
    BY <1>3, <1>5
  <1>9. g[sp] = l[x] + g[rest] /\ g[sx] = l[p] + g[rest]
    <2>1. g[sp] = l[x] + g[sp \ {x}]
      BY <1>6, <1>7, <1>8
    <2>2. g[sx] = l[p] + g[sx \ {p}]
      BY <1>6, <1>7, <1>8
    <2> QED
      BY <2>1, <2>2, <1>8
  <1>10. l[p] \in Nat /\ l[x] \in Nat /\ g[rest] \in Nat
    BY <1>3 DEF Sums
  <1> HIDE DEF T, p, sp, sx, rest
  <1>11. g[s] # l[x] + g[sx]
    BY <1>2 DEF sx
  <1> QED
    BY <1>4, <1>9, <1>10, <1>11

\* One value changes.
LEMMA SumUpdate ==
    ASSUME NEW D, IsFiniteSet(D), NEW l \in [D -> Nat], NEW m \in [D -> Nat],
           NEW x \in D, \A y \in D \ {x} : m[y] = l[y]
    PROVE  SumFunction(m) + l[x] = SumFunction(l) + m[x]
  <1>1. PICK g \in Sums(l, D) : SumFunction(l) = g[D]
    BY SumIs
  <1>2. PICK h \in Sums(m, D) : SumFunction(m) = h[D]
    BY SumIs
  <1> DEFINE T == {s \in SUBSET (D \ {x}) : h[s] # g[s]}
  <1>3. T = {}
    <2> SUFFICES ASSUME T # {} PROVE FALSE
      OBVIOUS
    <2>1. PICK s \in T : \A r \in T : r \subseteq s => r = s
      <3>1. T \in SUBSET (SUBSET D)
        OBVIOUS
      <3> HIDE DEF T
      <3> QED
        BY <3>1, MinimalSet
    <2>2. h[s] = SumStep(m, h, s) /\ g[s] = SumStep(l, g, s)
      BY <2>1 DEF Sums
    <2>3. s # {}
      BY <2>1, <2>2 DEF SumStep
    <2>4. Pick(s) \in s /\ m[Pick(s)] = l[Pick(s)]
      BY <2>1, <2>3, PickIn
    <2>5. h[s \ {Pick(s)}] = g[s \ {Pick(s)}]
      BY <2>1, <2>4
    <2> QED
      BY <2>1, <2>2, <2>3, <2>4, <2>5 DEF SumStep
  <1> DEFINE r == D \ {x}
  <1>4. r \in SUBSET (D \ {x}) /\ D \in SUBSET D
    OBVIOUS
  <1>5. h[r] = g[r]
    BY <1>3, <1>4
  <1>6. g[D] = l[x] + g[r] /\ h[D] = m[x] + h[r]
    BY <1>4, SumAny DEF TakesAny
  <1>7. l[x] \in Nat /\ m[x] \in Nat /\ g[r] \in Nat /\ h[r] \in Nat
    BY DEF Sums
  <1> HIDE DEF r
  <1> QED
    BY <1>1, <1>2, <1>5, <1>6, <1>7

\* Values move up by one place, and the last one falls out.
LEMMA SumShift ==
    ASSUME NEW n \in Nat \ {0}, NEW l \in [0..n - 1 -> Nat], NEW m \in [0..n - 1 -> Nat],
           \A i \in 0..n - 1 : m[i] = IF i = 0 THEN 0 ELSE l[i - 1]
    PROVE  SumFunction(m) <= SumFunction(l)
  <1> DEFINE D == 0..n - 1
             Back(s) == {i - 1 : i \in s}
  <1>0. IsFiniteSet(D)
    BY FS_Interval
  <1>1. PICK g \in Sums(l, D) : SumFunction(l) = g[D] /\ TakesAny(l, D, g)
    <2>1. l \in [D -> Nat]
      OBVIOUS
    <2> HIDE DEF D, Back
    <2> QED
      BY <2>1, <1>0, SumIs, SumAny
  <1>2. PICK h \in Sums(m, D) : SumFunction(m) = h[D] /\ TakesAny(m, D, h)
    <2>1. m \in [D -> Nat]
      OBVIOUS
    <2> HIDE DEF D, Back
    <2> QED
      BY <2>1, <1>0, SumIs, SumAny
  <1> DEFINE T == {s \in SUBSET (1..n - 1) : h[s] # g[Back(s)]}
  <1>3. T = {}
    <2> SUFFICES ASSUME T # {} PROVE FALSE
      OBVIOUS
    <2>1. PICK s \in T : \A r \in T : r \subseteq s => r = s
      <3>1. T \in SUBSET (SUBSET D)
        OBVIOUS
      <3> HIDE DEF T, D
      <3> QED
        BY <3>1, <1>0, MinimalSet
    <2>2. s \in SUBSET (1..n - 1) /\ s \in SUBSET D /\ h[s] # g[Back(s)]
      BY <2>1
    <2>3. CASE s = {}
      <3>1. Back(s) = {} /\ {} \in SUBSET D
        BY <2>3
      <3>2. h[{}] = 0 /\ g[{}] = 0
        BY <3>1 DEF Sums, SumStep
      <3> QED
        BY <2>2, <2>3, <3>1, <3>2
    <2>4. CASE s # {}
      <3> DEFINE x == Pick(s)
                 r == s \ {x}
      <3>1. x \in s /\ x \in 1..n - 1 /\ r \in SUBSET (1..n - 1) /\ r # s /\ r \subseteq s
        BY <2>2, <2>4, PickIn
      <3>2. h[s] = m[x] + h[r]
        BY <2>2, <2>4 DEF Sums, SumStep
      <3>3. h[r] = g[Back(r)]
        BY <2>1, <3>1
      <3>4. m[x] = l[x - 1]
        BY <3>1
      <3>5. Back(s) \in SUBSET D /\ x - 1 \in Back(s) /\ Back(s) \ {x - 1} = Back(r)
        <4>1. Back(s) \in SUBSET D /\ x - 1 \in Back(s)
          BY <2>2, <3>1, SMTT(30)
        <4>2. Back(s) \ {x - 1} = Back(r)
          <5>1. ASSUME NEW j \in Back(s) \ {x - 1} PROVE j \in Back(r)
            <6>1. PICK i \in s : j = i - 1
              OBVIOUS
            <6>2. i # x
              BY <6>1
            <6> QED
              BY <6>1, <6>2
          <5>2. ASSUME NEW j \in Back(r) PROVE j \in Back(s) \ {x - 1}
            <6>1. PICK i \in r : j = i - 1
              OBVIOUS
            <6>2. i \in s /\ i # x /\ i \in Int /\ x \in Int
              BY <2>2, <3>1
            <6> QED
              BY <6>1, <6>2
          <5> QED
            BY <5>1, <5>2
        <4> QED
          BY <4>1, <4>2
      <3>6. g[Back(s)] = l[x - 1] + g[Back(r)]
        <4> HIDE DEF Back, x, r, D
        <4> QED
          BY <3>5, <1>1 DEF TakesAny
      <3> HIDE DEF Back, x, r
      <3> QED
        BY <2>2, <3>2, <3>3, <3>4, <3>6
    <2> QED
      BY <2>3, <2>4
  <1> DEFINE low == D \ {0}
             high == D \ {n - 1}
  <1>4. low = 1..n - 1 /\ Back(low) = high
    <2>1. low = 1..n - 1
      OBVIOUS
    <2>2. \A j \in high : j + 1 \in low /\ j = (j + 1) - 1
      OBVIOUS
    <2>3. \A i \in low : i - 1 \in high
      OBVIOUS
    <2> HIDE DEF low, high
    <2> QED
      BY <2>1, <2>2, <2>3
  <1>5. 0 \in D /\ n - 1 \in D /\ D \in SUBSET D /\ l[n - 1] \in Nat
    OBVIOUS
  <1>6. h[D] = m[0] + h[low] /\ g[D] = l[n - 1] + g[high]
    <2> HIDE DEF D, low, high
    <2> QED
      BY <1>5, <1>1, <1>2 DEF low, high, TakesAny
  <1>7. h[low] = g[high]
    <2>1. low \in SUBSET (1..n - 1)
      BY <1>4
    <2>2. low \notin T
      BY <1>3
    <2> HIDE DEF low, high, Back
    <2> QED
      BY <2>1, <2>2, <1>4
  <1>8. m[0] = 0
    BY <1>5
  <1>9. g[high] \in Nat
    BY DEF Sums
  <1> HIDE DEF low, high, D
  <1> QED
    BY <1>1, <1>2, <1>5, <1>6, <1>7, <1>8, <1>9
=============================================================================
