-------------------------- MODULE SeatArraysProofs --------------------------
(***************************************************************************)
(* Counting the seats of an array commutes with what the code does to it:  *)
(* the counts of BookingStore are exact for every array of every length.   *)
(*                                                                         *)
(* What holds of an array is shown of each of its prefixes: there is no    *)
(* shortest prefix of which it fails.                                      *)
(***************************************************************************)
EXTENDS SeatArrays, SumProofs, SequenceTheorems, FiniteSetTheorems, TLAPS

-----------------------------------------------------------------------------
(* Induction over the prefixes of an array.                                *)

\* A set of numbers up to n has a least member.
LEMMA LeastPrefix ==
    ASSUME NEW n \in Nat, NEW T \in SUBSET (0..n), T # {}
    PROVE  \E i \in T : \A j \in T : i <= j
  <1> DEFINE D == 0..n
             B == {0..i : i \in T}
  <1>1. IsFiniteSet(D)
    BY FS_Interval
  <1>2. B \in SUBSET (SUBSET D) /\ B # {}
    <2>1. ASSUME NEW i \in T PROVE 0..i \in SUBSET D
      OBVIOUS
    <2> HIDE DEF D
    <2> QED
      BY <2>1
  <1>3. PICK X \in B : \A Y \in B : Y \subseteq X => Y = X
    <2> HIDE DEF B, D
    <2> QED
      BY <1>1, <1>2, MinimalSet
  <1>4. PICK i \in T : X = 0..i
    BY <1>3
  <1>5. ASSUME NEW j \in T PROVE i <= j
    <2> SUFFICES ASSUME j < i PROVE FALSE
      OBVIOUS
    <2>1. i \in Nat /\ j \in Nat
      OBVIOUS
    <2>2. 0..j \in B /\ 0..j \subseteq 0..i
      BY <2>1
    <2>3. 0..j = 0..i
      BY <1>3, <1>4, <2>2
    <2>4. i \in 0..i /\ i \notin 0..j
      BY <2>1
    <2> QED
      BY <2>3, <2>4
  <1> QED
    BY <1>5

\* What holds of 0, and of n + 1 whenever it holds of n, holds up to N: the set
\* G of the numbers of which it holds has them all.
LEMMA Prefixes ==
    ASSUME NEW N \in Nat, NEW G, 0 \in G, \A n \in 0..(N - 1) : n \in G => n + 1 \in G
    PROVE  \A n \in 0..N : n \in G
  <1> DEFINE T == {n \in 0..N : n \notin G}
  <1> SUFFICES ASSUME T # {} PROVE FALSE
    OBVIOUS
  <1>1. PICK i \in T : \A j \in T : i <= j
    <2>1. T \in SUBSET (0..N)
      OBVIOUS
    <2> HIDE DEF T
    <2> QED
      BY <2>1, LeastPrefix
  <1>2. i \in 0..N /\ i \notin G /\ i # 0
    BY <1>1
  <1>3. i - 1 \in 0..(N - 1) /\ (i - 1) + 1 = i /\ ~(i <= i - 1)
    BY <1>2
  <1>4. i - 1 \in 0..N /\ i - 1 \notin T
    BY <1>1, <1>3
  <1>5. i - 1 \in G
    BY <1>4
  <1> QED
    BY <1>2, <1>3, <1>5

-----------------------------------------------------------------------------
(* Counting.                                                               *)

\* How often s is among the first n of an array.
Hits(array, n, s) == {i \in 1..n : array[i] = s}
HitCount(array, n, s) == Cardinality(Hits(array, n, s))
HitCounts(array, n) == [s \in Seats |-> HitCount(array, n, s)]

LEMMA HitCountNat ==
    ASSUME NEW array, NEW n \in Nat, NEW s
    PROVE  IsFiniteSet(Hits(array, n, s)) /\ HitCount(array, n, s) \in Nat
  <1>1. IsFiniteSet(1..n) /\ Hits(array, n, s) \subseteq 1..n
    BY FS_Interval DEF Hits
  <1>2. IsFiniteSet(Hits(array, n, s))
    BY <1>1, FS_Subset
  <1> QED
    BY <1>2, FS_CardinalityType DEF HitCount

LEMMA NoHits == ASSUME NEW array, NEW s PROVE HitCount(array, 0, s) = 0
  BY FS_EmptySet DEF HitCount, Hits

\* One element more is one hit more, or none.
LEMMA NextHit ==
    ASSUME NEW array, NEW n \in Nat, NEW s
    PROVE  HitCount(array, n + 1, s) =
               HitCount(array, n, s) + IF array[n + 1] = s THEN 1 ELSE 0
  <1>1. IsFiniteSet(Hits(array, n, s)) /\ HitCount(array, n, s) \in Nat
    BY HitCountNat
  <1>2. CASE array[n + 1] = s
    <2>1. Hits(array, n + 1, s) = Hits(array, n, s) \union {n + 1} /\ n + 1 \notin Hits(array, n, s)
      BY <1>2 DEF Hits
    <2>2. Cardinality(Hits(array, n, s) \union {n + 1}) = Cardinality(Hits(array, n, s)) + 1
      BY <1>1, <2>1, FS_AddElement
    <2> QED
      BY <1>2, <2>1, <2>2 DEF HitCount
  <1>3. CASE array[n + 1] # s
    <2>1. Hits(array, n + 1, s) = Hits(array, n, s)
      BY <1>3 DEF Hits
    <2> QED
      BY <1>1, <1>3, <2>1 DEF HitCount
  <1> QED
    BY <1>2, <1>3

\* The counts of an array are those of its whole length.
LEMMA CopiesAreHits ==
    ASSUME NEW array \in SeatArray
    PROVE  /\ Len(array) \in Nat /\ DOMAIN array = 1..Len(array)
           /\ \A i \in 1..Len(array) : array[i] \in Seats
           /\ Copies(array) = HitCounts(array, Len(array)) /\ Copies(array) \in SeatList
  <1>1. /\ Len(array) \in Nat /\ DOMAIN array = 1..Len(array)
        /\ \A i \in 1..Len(array) : array[i] \in Seats
    BY DEF SeatArray
  <1>2. Copies(array) = HitCounts(array, Len(array))
    BY <1>1 DEF Copies, HitCounts, HitCount, Hits
  <1>3. HitCounts(array, Len(array)) \in SeatList
    BY <1>1, HitCountNat DEF HitCounts, SeatList
  <1> QED
    BY <1>1, <1>2, <1>3

\* The seats in an array are those that are counted.
LEMMA CountedIsIn ==
    ASSUME NEW array \in SeatArray
    PROVE  Taken(Copies(array)) = Range(array)
  <1>1. /\ Len(array) \in Nat /\ DOMAIN array = 1..Len(array)
        /\ \A i \in 1..Len(array) : array[i] \in Seats
        /\ Copies(array) = HitCounts(array, Len(array))
    BY CopiesAreHits
  <1>2. ASSUME NEW s \in Seats PROVE Copies(array)[s] > 0 <=> s \in Range(array)
    <2>1. IsFiniteSet(Hits(array, Len(array), s)) /\ HitCount(array, Len(array), s) \in Nat
      BY <1>1, HitCountNat
    <2>2. HitCount(array, Len(array), s) = 0 <=> Hits(array, Len(array), s) = {}
      BY <2>1, FS_EmptySet DEF HitCount
    <2>3. Hits(array, Len(array), s) # {} <=> s \in Range(array)
      BY <1>1 DEF Hits, Range
    <2>4. Copies(array)[s] = HitCount(array, Len(array), s)
      BY <1>1 DEF HitCounts
    <2> QED
      BY <2>1, <2>2, <2>3, <2>4
  <1>3. Range(array) \subseteq Seats
    BY <1>1 DEF Range
  <1> QED
    BY <1>2, <1>3 DEF Taken

\* len: the length of an array is the sum of its counts.
THEOREM LengthIsCounted ==
    ASSUME NEW array \in SeatArray
    PROVE  Length(Copies(array)) = Len(array)
  <1> DEFINE N == Len(array)
             G == {n \in 0..N : SumFunction(HitCounts(array, n)) = n}
  <1>0. N \in Nat /\ \A i \in 1..N : array[i] \in Seats
    BY CopiesAreHits
  <1>1. ASSUME NEW n \in Nat PROVE HitCounts(array, n) \in [Seats -> Nat]
    BY HitCountNat DEF HitCounts
  <1>2. 0 \in G
    <2>1. \A s \in Seats : HitCounts(array, 0)[s] = 0
      BY NoHits DEF HitCounts
    <2>2. SumFunction(HitCounts(array, 0)) = 0
      BY <1>1, <2>1, SumZero, ConstantsAssumption
    <2> QED
      BY <1>0, <2>2
  <1>3. ASSUME NEW n \in 0..(N - 1), n \in G PROVE n + 1 \in G
    <2> DEFINE old == HitCounts(array, n)
               new == HitCounts(array, n + 1)
               x == array[n + 1]
    <2>1. n \in Nat /\ n + 1 \in Nat /\ n + 1 \in 0..N /\ n + 1 \in 1..N /\ x \in Seats
      BY <1>0
    <2>2. \A s \in Seats : new[s] = old[s] + IF x = s THEN 1 ELSE 0
      BY <2>1, NextHit DEF HitCounts
    <2>3. old \in [Seats -> Nat] /\ new \in [Seats -> Nat]
      BY <1>1, <2>1
    <2>4. SumFunction(old) = n
      BY <1>3
    <2> HIDE DEF old, new, x
    <2>5. \A s \in Seats \ {x} : new[s] = old[s]
      BY <2>2, <2>3
    <2>6. SumFunction(new) + old[x] = SumFunction(old) + new[x]
      BY <2>1, <2>3, <2>5, SumUpdate, ConstantsAssumption
    <2>7. SumFunction(new) \in Nat
      BY <2>3, SumNat, ConstantsAssumption
    <2>8. new[x] = old[x] + 1 /\ old[x] \in Nat
      BY <2>1, <2>2, <2>3
    <2>9. SumFunction(new) = n + 1
      BY <2>1, <2>4, <2>6, <2>7, <2>8
    <2> QED
      BY <2>1, <2>9 DEF new
  <1>4. N \in G
    <2> HIDE DEF G, N
    <2>1. \A n \in 0..N : n \in G
      BY <1>0, <1>2, <1>3, Prefixes
    <2> QED
      BY <1>0, <2>1
  <1> QED
    BY <1>4, CopiesAreHits DEF Length

-----------------------------------------------------------------------------
(* Appending.                                                              *)

\* One seat more.
LEMMA PushIsCounted ==
    ASSUME NEW array \in SeatArray, NEW x \in Seats, NEW s \in Seats
    PROVE  Copies(Append(array, x))[s] = Copies(array)[s] + IF x = s THEN 1 ELSE 0
  <1> DEFINE N == Len(array)
             new == Append(array, x)
  <1>1. /\ N \in Nat /\ new \in SeatArray /\ Len(new) = N + 1 /\ new[N + 1] = x
        /\ \A i \in 1..N : new[i] = array[i]
    BY DEF SeatArray
  <1> HIDE DEF new, N
  <1>2. HitCount(new, N + 1, s) = HitCount(new, N, s) + IF x = s THEN 1 ELSE 0
    BY <1>1, NextHit
  <1>3. Hits(new, N, s) = Hits(array, N, s)
    BY <1>1 DEF Hits
  <1>4. Copies(new)[s] = HitCount(new, N + 1, s) /\ Copies(array)[s] = HitCount(array, N, s)
    BY <1>1, CopiesAreHits DEF HitCounts, N
  <1> QED
    BY <1>2, <1>3, <1>4 DEF HitCount, new

\* append and array_cat: the counts of the two arrays are added.
THEOREM AppendIsCounted ==
    ASSUME NEW to \in SeatArray, NEW more \in SeatArray
    PROVE  to \o more \in SeatArray /\ Copies(to \o more) = AppendSeats(Copies(to), Copies(more))
  <1> DEFINE L == Len(to)
             N == Len(more)
             both == to \o more
  <1>1. /\ L \in Nat /\ N \in Nat
        /\ both \in SeatArray /\ Len(both) = L + N
        /\ \A i \in 1..L : both[i] = to[i]
        /\ \A i \in 1..N : both[L + i] = more[i]
    BY DEF SeatArray
  <1> HIDE DEF both, L, N
  <1>2. ASSUME NEW s \in Seats
        PROVE  HitCount(both, L + N, s) = HitCount(to, L, s) + HitCount(more, N, s)
    <2> DEFINE G == {n \in 0..N : HitCount(both, L + n, s) = HitCount(to, L, s) + HitCount(more, n, s)}
    <2>1. 0 \in G
      <3>1. Hits(both, L, s) = Hits(to, L, s)
        BY <1>1 DEF Hits
      <3>2. HitCount(both, L, s) = HitCount(to, L, s) /\ HitCount(to, L, s) \in Nat
        BY <1>1, <3>1, HitCountNat DEF HitCount
      <3> QED
        BY <1>1, <3>2, NoHits
    <2>2. ASSUME NEW n \in 0..(N - 1), n \in G PROVE n + 1 \in G
      <3>1. n \in Nat /\ n + 1 \in 0..N /\ n + 1 \in 1..N /\ L + n \in Nat /\ (L + n) + 1 = L + (n + 1)
        BY <1>1
      <3>2. both[(L + n) + 1] = more[n + 1]
        BY <1>1, <3>1
      <3>3. HitCount(both, (L + n) + 1, s) = HitCount(both, L + n, s) + IF more[n + 1] = s THEN 1 ELSE 0
        BY <3>1, <3>2, NextHit
      <3>4. HitCount(more, n + 1, s) = HitCount(more, n, s) + IF more[n + 1] = s THEN 1 ELSE 0
        BY <3>1, NextHit
      <3>5. HitCount(to, L, s) \in Nat /\ HitCount(more, n, s) \in Nat
        BY <1>1, <3>1, HitCountNat
      <3>6. HitCount(both, L + n, s) = HitCount(to, L, s) + HitCount(more, n, s)
        BY <2>2
      <3> QED
        BY <3>1, <3>3, <3>4, <3>5, <3>6
    <2>3. N \in G
      <3> HIDE DEF G
      <3>1. \A n \in 0..N : n \in G
        BY <1>1, <2>1, <2>2, Prefixes
      <3> QED
        BY <1>1, <3>1
    <2> QED
      BY <2>3
  <1>3. /\ Copies(both) = HitCounts(both, L + N)
        /\ Copies(to) = HitCounts(to, L) /\ Copies(more) = HitCounts(more, N)
    BY <1>1, CopiesAreHits DEF L, N
  <1>4. Copies(both) = AppendSeats(Copies(to), Copies(more))
    BY <1>2, <1>3 DEF AppendSeats, HitCounts
  <1> QED
    BY <1>1, <1>4 DEF both

-----------------------------------------------------------------------------
(* The loop that filters an array.                                         *)

\* What the loop makes of element n of from, and its runs over n elements.
LoopStep(from, marked, out, n) ==
    IF n = 0 THEN << >>
    ELSE IF from[n] \in marked THEN out[n - 1] ELSE Append(out[n - 1], from[n])
Loops(from, marked, N) ==
    {out \in [0..N -> SeatArray] : \A n \in 0..N : out[n] = LoopStep(from, marked, out, n)}

\* The loop runs to the end of every array.
LEMMA LoopsExist ==
    ASSUME NEW from \in SeatArray, NEW marked
    PROVE  Loops(from, marked, Len(from)) # {}
  <1> DEFINE L == Len(from)
             G == {n \in 0..L : Loops(from, marked, n) # {}}
  <1>0. L \in Nat /\ \A i \in 1..L : from[i] \in Seats
    BY CopiesAreHits
  <1>1. 0 \in G
    <2> DEFINE out == [n \in 0..0 |-> << >>]
    <2>1. out \in [0..0 -> SeatArray] /\ \A n \in 0..0 : out[n] = LoopStep(from, marked, out, n)
      BY DEF SeatArray, LoopStep
    <2> QED
      BY <1>0, <2>1 DEF Loops
  <1>2. ASSUME NEW n \in 0..(L - 1), n \in G PROVE n + 1 \in G
    <2>1. n \in Nat /\ n + 1 \in 0..L /\ n + 1 \in 1..L /\ (n + 1) - 1 = n /\ n + 1 # 0
      BY <1>0
    <2>2. PICK out \in Loops(from, marked, n) : TRUE
      BY <1>2
    <2>3. out \in [0..n -> SeatArray] /\ \A j \in 0..n : out[j] = LoopStep(from, marked, out, j)
      BY <2>2 DEF Loops
    <2> DEFINE next == IF from[n + 1] \in marked THEN out[n] ELSE Append(out[n], from[n + 1])
               new == [j \in 0..(n + 1) |-> IF j = n + 1 THEN next ELSE out[j]]
    <2>4. next \in SeatArray
      <3>1. out[n] \in Seq(Seats) /\ from[n + 1] \in Seats
        BY <1>0, <2>1, <2>3 DEF SeatArray
      <3> QED
        BY <3>1 DEF SeatArray
    <2> HIDE DEF next
    <2>5. new \in [0..(n + 1) -> SeatArray]
      <3>1. \A j \in 0..(n + 1) : j = n + 1 \/ j \in 0..n
        BY <2>1
      <3> QED
        BY <2>3, <2>4, <3>1
    <2>6. ASSUME NEW j \in 0..(n + 1) PROVE new[j] = LoopStep(from, marked, new, j)
      <3>1. CASE j = n + 1
        <4>1. new[j] = next /\ new[j - 1] = out[n] /\ j # 0
          BY <2>1, <3>1
        <4> HIDE DEF new
        <4> QED
          BY <3>1, <4>1 DEF LoopStep, next
      <3>2. CASE j # n + 1
        <4>1. j \in 0..n /\ new[j] = out[j] /\ (j # 0 => j - 1 \in 0..(n + 1) /\ j - 1 # n + 1)
          BY <2>1, <3>2
        <4>2. j # 0 => new[j - 1] = out[j - 1]
          BY <4>1
        <4>3. out[j] = LoopStep(from, marked, out, j)
          BY <2>3, <4>1
        <4> HIDE DEF new
        <4> QED
          BY <4>1, <4>2, <4>3 DEF LoopStep
      <3> QED
        BY <3>1, <3>2
    <2>7. new \in Loops(from, marked, n + 1)
      <3> HIDE DEF new
      <3> QED
        BY <2>5, <2>6 DEF Loops
    <2> QED
      BY <2>1, <2>7
  <1>3. L \in G
    <2> HIDE DEF G, L
    <2>1. \A n \in 0..L : n \in G
      BY <1>0, <1>1, <1>2, Prefixes
    <2> QED
      BY <1>0, <2>1
  <1> QED
    BY <1>3

\* Unmarked is what such a run returns.
LEMMA UnmarkedIsLoop ==
    ASSUME NEW from \in SeatArray, NEW marked
    PROVE  \E out \in Loops(from, marked, Len(from)) : Unmarked(from, marked) = out[Len(from)]
  <1> DEFINE N == Len(from)
             IsLoop(out) == out = [n \in 0..N |->
                 IF n = 0 THEN << >>
                 ELSE IF from[n] \in marked THEN out[n - 1] ELSE Append(out[n - 1], from[n])]
             run == CHOOSE out : IsLoop(out)
  <1>0. N \in Nat /\ \A i \in 1..N : from[i] \in Seats
    BY CopiesAreHits
  <1>1. Unmarked(from, marked) = run[N]
    BY DEF Unmarked
  <1>2. PICK out : out \in Loops(from, marked, N)
    BY LoopsExist
  <1>3. IsLoop(out)
    BY <1>2 DEF Loops, LoopStep
  <1>4. IsLoop(run)
    <2> HIDE DEF IsLoop
    <2> QED
      BY <1>3
  <1> HIDE DEF run
  <1>5. DOMAIN run = 0..N /\ \A n \in 0..N : run[n] = LoopStep(from, marked, run, n)
    BY <1>4 DEF LoopStep
  <1> DEFINE G == {n \in 0..N : run[n] \in SeatArray}
  <1>6. 0 \in G
    <2>1. 0 \in 0..N /\ << >> \in SeatArray
      BY <1>0 DEF SeatArray
    <2>2. run[0] = << >>
      BY <1>5, <2>1 DEF LoopStep
    <2> QED
      BY <2>1, <2>2
  <1>7. ASSUME NEW n \in 0..(N - 1), n \in G PROVE n + 1 \in G
    <2>1. n + 1 \in 0..N /\ n + 1 \in 1..N /\ (n + 1) - 1 = n /\ n + 1 # 0
      BY <1>0
    <2>2. run[n + 1] = IF from[n + 1] \in marked THEN run[n] ELSE Append(run[n], from[n + 1])
      BY <1>5, <2>1 DEF LoopStep
    <2>3. run[n] \in Seq(Seats) /\ from[n + 1] \in Seats
      BY <1>0, <1>7, <2>1 DEF SeatArray
    <2>4. Append(run[n], from[n + 1]) \in Seq(Seats)
      BY <2>3
    <2>5. run[n + 1] \in SeatArray
      BY <2>2, <2>3, <2>4 DEF SeatArray
    <2> QED
      BY <2>1, <2>5
  <1>8. \A n \in 0..N : run[n] \in SeatArray
    <2> HIDE DEF G, N
    <2>1. \A n \in 0..N : n \in G
      BY <1>0, <1>6, <1>7, Prefixes
    <2> QED
      BY <2>1 DEF G
  <1>9. run \in [0..N -> SeatArray]
    <2>1. run = [n \in 0..N |-> run[n]]
      BY <1>4
    <2> QED
      BY <1>8, <2>1
  <1> QED
    BY <1>1, <1>5, <1>9 DEF Loops

\* The loop keeps every copy of the names that are not marked and no copy of
\* the others.
THEOREM FilterIsCounted ==
    ASSUME NEW from \in SeatArray, NEW marked
    PROVE  /\ Unmarked(from, marked) \in SeatArray
           /\ Copies(Unmarked(from, marked)) =
                  [s \in Seats |-> IF s \in marked THEN 0 ELSE Copies(from)[s]]
  <1> DEFINE N == Len(from)
  <1>0. N \in Nat /\ \A i \in 1..N : from[i] \in Seats
    BY CopiesAreHits
  <1>1. PICK out \in Loops(from, marked, N) : Unmarked(from, marked) = out[N]
    BY UnmarkedIsLoop
  <1> HIDE DEF N
  <1>2. out \in [0..N -> SeatArray] /\ \A n \in 0..N : out[n] = LoopStep(from, marked, out, n)
    BY <1>1 DEF Loops
  <1>3. ASSUME NEW s \in Seats
        PROVE  Copies(out[N])[s] = IF s \in marked THEN 0 ELSE HitCount(from, N, s)
    <2> DEFINE G == {n \in 0..N :
                       Copies(out[n])[s] = IF s \in marked THEN 0 ELSE HitCount(from, n, s)}
    <2>1. 0 \in G
      <3>1. out[0] = << >>
        BY <1>0, <1>2 DEF LoopStep
      <3>2. Copies(<< >>)[s] = 0
        BY FS_EmptySet DEF Copies
      <3> QED
        BY <1>0, <3>1, <3>2, NoHits
    <2>2. ASSUME NEW n \in 0..(N - 1), n \in G PROVE n + 1 \in G
      <3> DEFINE x == from[n + 1]
      <3>1. n \in Nat /\ n \in 0..N /\ n + 1 \in 0..N /\ n + 1 \in 1..N /\ (n + 1) - 1 = n /\ n + 1 # 0
        BY <1>0
      <3>2. out[n + 1] = IF x \in marked THEN out[n] ELSE Append(out[n], x)
        BY <1>2, <3>1 DEF LoopStep
      <3>3. HitCount(from, n + 1, s) = HitCount(from, n, s) + IF x = s THEN 1 ELSE 0
        BY <3>1, NextHit
      <3>4. HitCount(from, n, s) \in Nat /\ out[n] \in SeatArray /\ x \in Seats
        BY <1>0, <1>2, <3>1, HitCountNat
      <3>5. Copies(out[n])[s] = IF s \in marked THEN 0 ELSE HitCount(from, n, s)
        BY <2>2
      <3> HIDE DEF x
      <3>6. CASE x \in marked
        <4>1. HitCount(from, n + 1, s) = HitCount(from, n, s) \/ s \in marked
          BY <3>3, <3>4, <3>6
        <4> QED
          BY <3>1, <3>2, <3>5, <3>6, <4>1
      <3>7. CASE x \notin marked
        <4>1. Copies(Append(out[n], x))[s] = Copies(out[n])[s] + IF x = s THEN 1 ELSE 0
          BY <3>4, PushIsCounted
        <4>2. out[n + 1] = Append(out[n], x)
          BY <3>2, <3>7
        <4>3. CASE s \in marked
          <5>1. x # s
            BY <3>7, <4>3
          <5>2. Copies(out[n + 1])[s] = 0
            BY <3>5, <4>1, <4>2, <4>3, <5>1
          <5> QED
            BY <3>1, <4>3, <5>2
        <4>4. CASE s \notin marked
          <5>1. Copies(out[n + 1])[s] = HitCount(from, n + 1, s)
            BY <3>3, <3>5, <4>1, <4>2, <4>4
          <5> QED
            BY <3>1, <4>4, <5>1
        <4> QED
          BY <4>3, <4>4
      <3> QED
        BY <3>6, <3>7
    <2>3. N \in G
      <3> HIDE DEF G
      <3>1. \A n \in 0..N : n \in G
        BY <1>0, <2>1, <2>2, Prefixes
      <3> QED
        BY <1>0, <3>1
    <2> QED
      BY <2>3
  <1>4. Copies(from) = HitCounts(from, N) /\ out[N] \in SeatArray
    BY <1>0, <1>2, CopiesAreHits DEF N
  <1>5. Copies(out[N]) = [s \in Seats |-> Copies(out[N])[s]]
    BY DEF Copies
  <1>6. \A s \in Seats : Copies(from)[s] = HitCount(from, N, s)
    BY <1>4 DEF HitCounts
  <1> QED
    BY <1>1, <1>3, <1>4, <1>5, <1>6

\* removeSeats and removeSeatsSlice.
THEOREM RemovalIsCounted ==
    ASSUME NEW from \in SeatArray, NEW toRemove \in SeatArray
    PROVE  /\ RemoveFromArray(from, toRemove) \in SeatArray
           /\ Copies(RemoveFromArray(from, toRemove)) = RemoveSeats(Copies(from), Copies(toRemove))
  <1>1. Range(toRemove) = {s \in Seats : Copies(toRemove)[s] > 0}
    BY CountedIsIn DEF Taken
  <1>2. /\ RemoveFromArray(from, toRemove) \in SeatArray
        /\ Copies(RemoveFromArray(from, toRemove)) =
               [s \in Seats |-> IF s \in Range(toRemove) THEN 0 ELSE Copies(from)[s]]
    BY FilterIsCounted DEF RemoveFromArray
  <1> QED
    BY <1>1, <1>2 DEF RemoveSeats

-----------------------------------------------------------------------------
(* Rows.                                                                   *)

\* The check of CreateBooking finds the same requests available.
LEMMA CheckIsCounted ==
    ASSUME NEW row \in ArrayFlight, NEW list \in SeatArray
    PROVE  ArraysAvailable(row, list) <=> SeatsAvailable(CountedRow(row), Copies(list))
  <1>1. row.reserved \in SeatArray /\ row.booked \in SeatArray
    BY DEF ArrayFlight
  <1>2. /\ Taken(Copies(list)) = Range(list)
        /\ Taken(Copies(row.reserved)) = Range(row.reserved)
        /\ Taken(Copies(row.booked)) = Range(row.booked)
    BY <1>1, CountedIsIn
  <1>3. SeatsAvailable(CountedRow(row), Copies(list)) <=> Range(list) \intersect TakenIn(row) = {}
    BY <1>2 DEF SeatsAvailable, CountedRow, TakenIn
  <1> QED
    BY <1>3 DEF ArraysAvailable, Range

\* Writing one field, or the status and one field, of a row or of its counts.
LEMMA RowUpdate ==
    ASSUME NEW S, NEW R, NEW row \in [status : S, reserved : R, booked : R],
           NEW r \in R, NEW st \in S
    PROVE  /\ [row EXCEPT !.reserved = r] =
                  [status |-> row.status, reserved |-> r, booked |-> row.booked]
           /\ [row EXCEPT !.reserved = r, !.status = st] =
                  [status |-> st, reserved |-> r, booked |-> row.booked]
  <1>1. [row EXCEPT !.reserved = r] =
            [status |-> row.status, reserved |-> r, booked |-> row.booked]
    OBVIOUS
  <1>2. PICK u : u = [row EXCEPT !.reserved = r, !.status = st]
    OBVIOUS
  <1>3. u \in [status : S, reserved : R, booked : R]
    BY <1>2
  <1>4. u.status = st /\ u.reserved = r /\ u.booked = row.booked
    BY <1>2
  <1>5. u = [status |-> u.status, reserved |-> u.reserved, booked |-> u.booked]
    BY <1>3
  <1> QED
    BY <1>1, <1>2, <1>4, <1>5

\* What the model keeps of a seat array loses nothing that matters: on every
\* row and every request, the code's check and the three rows it computes are
\* those that BookingStore computes from the counts.
THEOREM CountsAreExact ==
    ASSUME NEW row \in ArrayFlight, NEW list \in SeatArray
    PROVE  CountsAgree(row, list)
  <1> DEFINE counts == CountedRow(row)
             booking == [seats |-> Copies(list)]
             newReserved == RemoveFromArray(row.reserved, list)
             newBooked == row.booked \o list
  <1>1. /\ row.reserved \in SeatArray /\ row.booked \in SeatArray
        /\ row \in [status : FlightStatus, reserved : SeatArray, booked : SeatArray]
    BY DEF ArrayFlight
  <1>2. /\ newReserved \in SeatArray
        /\ Copies(newReserved) = RemoveSeats(counts.reserved, booking.seats)
    BY <1>1, RemovalIsCounted DEF CountedRow
  <1>3. /\ newBooked \in SeatArray
        /\ Copies(newBooked) = AppendSeats(counts.booked, booking.seats)
    BY <1>1, AppendIsCounted DEF CountedRow
  <1>4. CountedRow(ArraysReserved(row, list)) =
            [counts EXCEPT !.reserved = AppendSeats(counts.reserved, Copies(list))]
    <2>1. Copies(row.reserved \o list) = AppendSeats(counts.reserved, Copies(list))
      BY <1>1, AppendIsCounted DEF CountedRow
    <2>2. ArraysReserved(row, list) =
              [status |-> row.status, reserved |-> row.reserved \o list, booked |-> row.booked]
      <3>1. PICK r : r = row.reserved \o list
        OBVIOUS
      <3>2. r \in SeatArray /\ row.status \in FlightStatus
        BY <1>1, <3>1 DEF SeatArray
      <3>3. ArraysReserved(row, list) = [row EXCEPT !.reserved = r]
        BY <3>1 DEF ArraysReserved
      <3> QED
        BY <1>1, <3>1, <3>2, <3>3, RowUpdate
    <2> QED
      BY <2>1, <2>2 DEF CountedRow
  <1>5. CountedRow(ArraysConfirmed(row, list)) = Confirmed(counts, booking)
    <2>1. Len(newBooked) = Length(AppendSeats(counts.booked, booking.seats))
      BY <1>3, LengthIsCounted
    <2> HIDE DEF newReserved, newBooked
    <2>2. ArraysConfirmed(row, list) =
              [reserved |-> newReserved, booked |-> newBooked,
               status |-> IF Len(newBooked) >= TotalSeats THEN "FULLY_BOOKED" ELSE row.status]
      BY DEF ArraysConfirmed, newReserved, newBooked
    <2>3. counts.status = row.status
      BY DEF CountedRow
    <2> HIDE DEF counts, booking
    <2> QED
      BY <1>2, <1>3, <2>1, <2>2, <2>3 DEF CountedRow, Confirmed, IsFull
  <1>6. CountedRow(ArraysReleased(row, list)) = Released(counts, booking)
    <2>1. Len(newReserved) = Length(RemoveSeats(counts.reserved, booking.seats))
      BY <1>2, LengthIsCounted
    <2>2. Len(row.booked) = Length(counts.booked)
      BY <1>1, LengthIsCounted DEF CountedRow
    <2> HIDE DEF newReserved
    <2> DEFINE reopened == row.status = "FULLY_BOOKED" /\ Len(newReserved) + Len(row.booked) < TotalSeats
    <2>3. ArraysReleased(row, list) =
              [status |-> IF reopened THEN "SCHEDULED" ELSE row.status,
               reserved |-> newReserved, booked |-> row.booked]
      <3>1. PICK st : st = IF reopened THEN "SCHEDULED" ELSE row.status
        OBVIOUS
      <3>2. st \in FlightStatus
        BY <1>1, <3>1 DEF FlightStatus
      <3>3. ArraysReleased(row, list) = [row EXCEPT !.reserved = newReserved, !.status = st]
        BY <3>1 DEF ArraysReleased, newReserved
      <3> QED
        BY <1>1, <1>2, <3>1, <3>2, <3>3, RowUpdate
    <2>4. counts = [status |-> row.status, reserved |-> Copies(row.reserved),
                    booked |-> Copies(row.booked)]
      BY DEF CountedRow
    <2> HIDE DEF booking
    <2>5. reopened <=> counts.status = "FULLY_BOOKED"
                       /\ HasRoom(RemoveSeats(counts.reserved, booking.seats), counts.booked)
      BY <2>1, <2>2, <2>4 DEF HasRoom
    <2> HIDE DEF reopened
    <2>6. CountedRow(ArraysReleased(row, list)) =
              [status |-> IF reopened THEN "SCHEDULED" ELSE counts.status,
               reserved |-> RemoveSeats(counts.reserved, booking.seats), booked |-> counts.booked]
      BY <1>2, <2>3, <2>4 DEF CountedRow
    <2>7. Released(counts, booking) =
              [status |-> IF reopened THEN "SCHEDULED" ELSE counts.status,
               reserved |-> RemoveSeats(counts.reserved, booking.seats), booked |-> counts.booked]
      <3>1. PICK st : st = IF reopened THEN "SCHEDULED" ELSE counts.status
        OBVIOUS
      <3>2. PICK left : left = RemoveSeats(counts.reserved, booking.seats)
        OBVIOUS
      <3>3. PICK R : counts.reserved \in R /\ counts.booked \in R /\ left \in R
        <4> WITNESS {counts.reserved, counts.booked, left}
        <4> QED
          OBVIOUS
      <3>4. PICK S : counts.status \in S /\ st \in S
        <4> WITNESS {counts.status, st}
        <4> QED
          OBVIOUS
      <3>5. counts \in [status : S, reserved : R, booked : R]
        BY <2>4, <3>3, <3>4
      <3>6. Released(counts, booking) = [counts EXCEPT !.reserved = left, !.status = st]
        BY <2>5, <3>1, <3>2 DEF Released
      <3> HIDE DEF counts
      <3> QED
        BY <3>1, <3>2, <3>3, <3>4, <3>5, <3>6, RowUpdate
    <2> QED
      BY <2>6, <2>7
  <1> QED
    BY <1>4, <1>5, <1>6, CheckIsCounted DEF CountsAgree

\* A search shows each free seat of a flight once and no other, when allSeats
\* lists each seat once, as constants.AllSeats does.
THEOREM FreeSeatsAreShown ==
    ASSUME NEW row \in ArrayFlight, NEW allSeats \in SeatArray,
           IsInjective(allSeats), Range(allSeats) = Seats
    PROVE  ShowsFreeSeats(allSeats, row)
  <1>1. row.reserved \in SeatArray /\ row.booked \in SeatArray
    BY DEF ArrayFlight
  <1>2. TakenIn(row) = Taken(Copies(row.reserved)) \union Taken(Copies(row.booked))
    BY <1>1, CountedIsIn DEF TakenIn
  <1>3. ASSUME NEW s \in Seats PROVE Copies(allSeats)[s] = 1
    <2>1. PICK i \in DOMAIN allSeats : allSeats[i] = s
      BY DEF Range
    <2>2. {j \in DOMAIN allSeats : allSeats[j] = s} = {i}
      BY <2>1 DEF IsInjective
    <2> QED
      BY <2>2, FS_Singleton DEF Copies
  <1>4. Copies(AvailableSeats(allSeats, row)) =
            [s \in Seats |-> IF s \in TakenIn(row) THEN 0 ELSE Copies(allSeats)[s]]
    BY FilterIsCounted DEF AvailableSeats
  <1> QED
    BY <1>2, <1>3, <1>4 DEF ShowsFreeSeats
=============================================================================
