------------------------- MODULE HybridMerge_proofs -------------------------
(***************************************************************************)
(* Proofs about HybridMerge and the algorithms it is made of, for any      *)
(* number of events, requests, identifiers and probes, any delays of the   *)
(* probes and any distance between the clocks.                             *)
(*                                                                         *)
(* The first parts are about operators: a median lies between the least    *)
(* and the greatest of its values, so the estimate of a clock is off by no *)
(* more than its uncertainty and the rounding (ProbesAreHonest); a verdict *)
(* on markers compares rows of the request only, and a valid one has them  *)
(* all in order (MarkerOrderIs, ValidIsInOrder); the join leaves out no    *)
(* group, and joins each to one at most (JoinIs); alignment moves the      *)
(* records of a clock all alike (AlignmentIs); a metric is a span between  *)
(* two rows of its request (MetricsAre).                                   *)
(*                                                                         *)
(* The invariant keeps what they say through the steps of the merge: the   *)
(* probes taken so far (Probed), the estimate (Estimated), what was        *)
(* aligned, joined and derived (Work) and which files say so (Filed).      *)
(***************************************************************************)
EXTENDS HybridMerge, TLAPS, FiniteSetTheorems

\* The instances count as this module does.
LEMMA Counting == \A S : J!Cardinality(S) = Cardinality(S) /\ C!Cardinality(S) = Cardinality(S)
<1> SUFFICES ASSUME NEW S
             PROVE  J!Cardinality(S) = Cardinality(S) /\ C!Cardinality(S) = Cardinality(S)
  OBVIOUS
<1>1. J!Cardinality(S) = Cardinality(S)
  BY DEF J!Cardinality, Cardinality
<1>2. C!Cardinality(S) = Cardinality(S)
  BY DEF C!Cardinality, Cardinality
<1> QED BY <1>1, <1>2

-----------------------------------------------------------------------------
(* Finite sets: what comes first, last, and at a given place.  The theorems   *)
(* on induction take an operator, so the first lemma goes by the subset of    *)
(* least size without a greatest element instead.                             *)

LEMMA Greatest ==
    ASSUME NEW I, IsFiniteSet(I), I # {}, NEW v, \A i \in I : v[i] \in Int
    PROVE  \E x \in I : \A y \in I : v[y] <= v[x]
<1> DEFINE Bad == {T \in SUBSET I : T # {} /\ ~\E x \in T : \A y \in T : v[y] <= v[x]}
<1>1. SUFFICES ASSUME Bad # {} PROVE FALSE
  BY Zenon
<1>2. IsWellFoundedOn(StrictSubsetOrdering(I), SUBSET I)
  BY FS_StrictSubsetOrderingWellFounded, FS_FiniteSubsetsOfFinite, Zenon
<1>3. PICK T \in Bad : \A U \in Bad : <<U, T>> \notin StrictSubsetOrdering(I)
  BY <1>1, <1>2, WFMin, Zenon
<1>4. PICK a \in T : TRUE
  OBVIOUS
<1>5. T \ {a} \in SUBSET I /\ T \ {a} \subseteq T /\ T \ {a} # T
  OBVIOUS
<1>6. T \ {a} \notin Bad
  <2>1. <<T \ {a}, T>> \in StrictSubsetOrdering(I)
    BY <1>5 DEF StrictSubsetOrdering
  <2> QED BY <2>1, <1>3
<1>7. CASE T \ {a} = {}
  BY <1>7, <1>4
<1>8. CASE T \ {a} # {}
  <2>1. PICK b \in T \ {a} : \A y \in T \ {a} : v[y] <= v[b]
    BY <1>8, <1>5, <1>6
  <2>2. v[a] \in Int /\ v[b] \in Int /\ \A y \in T : v[y] \in Int
    OBVIOUS
  <2>3. CASE v[a] <= v[b]
    BY <2>1, <2>2, <2>3, SMT
  <2>4. CASE v[b] <= v[a]
    BY <2>1, <2>2, <2>4, SMT
  <2> QED BY <2>2, <2>3, <2>4
<1> QED BY <1>7, <1>8

LEMMA Smallest ==
    ASSUME NEW I, IsFiniteSet(I), I # {}, NEW v, \A i \in I : v[i] \in Int
    PROVE  \E x \in I : \A y \in I : v[x] <= v[y]
<1> DEFINE w == [i \in I |-> -v[i]]
<1>1. \A i \in I : w[i] \in Int
  OBVIOUS
<1> HIDE DEF w
<1>2. PICK x \in I : \A y \in I : w[y] <= w[x]
  BY <1>1, Greatest
<1> QED BY <1>2 DEF w

\* The first, and the last, of some places.
LEMMA FirstAndLast ==
    ASSUME NEW P, IsFiniteSet(P), P # {}, P \subseteq Int
    PROVE  /\ \E i \in P : \A j \in P : i <= j
           /\ \E i \in P : \A j \in P : j <= i
<1> DEFINE v == [i \in P |-> i]
<1>1. \A i \in P : v[i] \in Int
  OBVIOUS
<1> HIDE DEF v
<1>2. (\E x \in P : \A y \in P : v[x] <= v[y]) /\ (\E x \in P : \A y \in P : v[y] <= v[x])
  BY <1>1, Smallest, Greatest
<1> QED BY <1>2 DEF v

\* Who of I has less than x has, and who has no more.
Below(I, v, x) == {j \in I : v[j] < v[x]}
UpTo(I, v, x) == {j \in I : v[j] <= v[x]}

\* In any list of integers there is one at each place of their order.
LEMMA RankExists ==
    ASSUME NEW I, IsFiniteSet(I), NEW v, \A i \in I : v[i] \in Int,
           NEW k \in 1..Cardinality(I)
    PROVE  \E i \in I : /\ Cardinality(Below(I, v, i)) < k
                        /\ k <= Cardinality(UpTo(I, v, i))
<1> DEFINE T == {i \in I : k <= Cardinality(UpTo(I, v, i))}
<1>1. \A i \in I : /\ Below(I, v, i) \in SUBSET I /\ UpTo(I, v, i) \in SUBSET I
                   /\ IsFiniteSet(Below(I, v, i)) /\ IsFiniteSet(UpTo(I, v, i))
                   /\ Cardinality(Below(I, v, i)) \in Nat /\ Cardinality(UpTo(I, v, i)) \in Nat
  BY FS_Subset, FS_CardinalityType DEF Below, UpTo
<1>2. I # {}
  BY FS_EmptySet
<1>3. T # {}
  <2>1. PICK x \in I : \A y \in I : v[y] <= v[x]
    BY <1>2, Greatest
  <2>2. UpTo(I, v, x) = I
    BY <2>1 DEF UpTo
  <2> QED BY <2>2, <2>1
<1>4. IsFiniteSet(T) /\ T \subseteq I
  BY FS_Subset
<1>5. PICK x \in T : \A y \in T : v[x] <= v[y]
  BY <1>3, <1>4, Smallest
<1>6. Cardinality(Below(I, v, x)) < k
  <2>1. SUFFICES ASSUME k <= Cardinality(Below(I, v, x)) PROVE FALSE
    BY <1>1
  <2>2. Below(I, v, x) # {}
    BY <2>1, FS_EmptySet
  <2>3. PICK m \in Below(I, v, x) : \A y \in Below(I, v, x) : v[y] <= v[m]
    BY <2>2, <1>1, Greatest DEF Below
  <2>4. UpTo(I, v, m) = Below(I, v, x)
    BY <2>3 DEF Below, UpTo
  <2>5. m \in T
    BY <2>4, <2>1 DEF Below
  <2> QED BY <2>5, <1>5, <2>3 DEF Below
<1> QED BY <1>6

-----------------------------------------------------------------------------
(* The rows at some places of a stream *)

\* How many of the places there are up to i.
Number(P, i) == Cardinality({j \in P : j <= i})

LEMMA NthPlaceIs ==
    \A P, n : J!NthPlace(P, n) = CHOOSE i \in P : Number(P, i) = n
BY Counting DEF J!NthPlace, Number

\* Each number up to their count is the number of one of the places.
LEMMA PlaceOfNumber ==
    ASSUME NEW P, IsFiniteSet(P), P \subseteq Int, NEW n \in 1..Cardinality(P)
    PROVE  /\ \E i \in P : Number(P, i) = n
           /\ J!NthPlace(P, n) \in P
<1>1. PICK v : v = [i \in P |-> i]
  OBVIOUS
<1>2. \A i \in P : v[i] \in Int
  BY <1>1
<1>3. PICK i \in P : Cardinality(Below(P, v, i)) < n /\ n <= Cardinality(UpTo(P, v, i))
  BY <1>2, RankExists
<1>4. UpTo(P, v, i) = Below(P, v, i) \cup {i} /\ i \notin Below(P, v, i)
  <2>1. \A j \in P : v[j] = j /\ j \in Int
    BY <1>1
  <2>2. \A j \in P : v[j] <= v[i] <=> v[j] < v[i] \/ j = i
    BY <2>1
  <2>3. ~(v[i] < v[i])
    BY <2>1
  <2> QED BY <2>2, <2>3 DEF UpTo, Below
<1>5. IsFiniteSet(Below(P, v, i)) /\ Cardinality(Below(P, v, i)) \in Nat
  BY FS_Subset, FS_CardinalityType DEF Below
<1>6. Cardinality(UpTo(P, v, i)) = Cardinality(Below(P, v, i)) + 1
  BY <1>4, <1>5, FS_AddElement
<1>7. n \in Int
  BY FS_CardinalityType
<1>8. UpTo(P, v, i) = {j \in P : j <= i}
  BY <1>1 DEF UpTo
<1>9. Number(P, i) = n
  BY <1>3, <1>5, <1>6, <1>7, <1>8 DEF Number
<1> QED BY <1>9, NthPlaceIs

LEMMA NumberOfPlace ==
    ASSUME NEW P, IsFiniteSet(P), P \subseteq Int, NEW i \in P
    PROVE  \E n \in 1..Cardinality(P) : J!NthPlace(P, n) = i
<1> DEFINE To(k) == {j \in P : j <= k}
<1>1. \A k \in P : /\ To(k) \in SUBSET P /\ k \in To(k) /\ IsFiniteSet(To(k))
                   /\ Number(P, k) = Cardinality(To(k)) /\ Number(P, k) \in 1..Cardinality(P)
  <2> SUFFICES ASSUME NEW k \in P
               PROVE  /\ To(k) \in SUBSET P /\ k \in To(k) /\ IsFiniteSet(To(k))
                      /\ Number(P, k) = Cardinality(To(k)) /\ Number(P, k) \in 1..Cardinality(P)
    OBVIOUS
  <2>1. To(k) \in SUBSET P /\ k \in To(k) /\ Number(P, k) = Cardinality(To(k))
    BY DEF Number
  <2> HIDE DEF To
  <2>2. /\ IsFiniteSet(To(k)) /\ Cardinality(To(k)) <= Cardinality(P)
        /\ Cardinality(To(k)) \in Nat /\ Cardinality(P) \in Nat
    BY <2>1, FS_Subset, FS_CardinalityType
  <2>3. Cardinality(To(k)) # 0
    BY <2>1, <2>2, FS_EmptySet
  <2> QED BY <2>1, <2>2, <2>3
<1>2. ASSUME NEW k \in P, NEW m \in P, k <= m PROVE To(k) \in SUBSET To(m)
  <2>1. k \in Int /\ m \in Int /\ \A j \in P : j \in Int
    OBVIOUS
  <2>2. \A j \in P : j <= k => j <= m
    BY <1>2, <2>1
  <2> QED BY <2>2
<1>3. ASSUME NEW k \in P, Number(P, k) = Number(P, i) PROVE k = i
  <2>1. k <= i \/ i <= k
    OBVIOUS
  <2>2. To(k) = To(i)
    <3> HIDE DEF To
    <3> QED BY <2>1, <1>1, <1>2, <1>3, FS_Subset
  <2>3. k \in To(i) /\ i \in To(k)
    <3> HIDE DEF To
    <3> QED BY <2>2, <1>1
  <2> QED BY <2>3
<1>4. J!NthPlace(P, Number(P, i)) = i
  <2> HIDE DEF To
  <2> QED BY <1>3, NthPlaceIs
<1> QED BY <1>1, <1>4

LEMMA RowsAtPlaces ==
    ASSUME NEW rows, NEW len \in Nat, NEW P \in SUBSET (1..len)
    PROVE  LET kept == J!RowsAt(rows, P)
           IN  /\ kept \in Seq({rows[i] : i \in P})
               /\ RangeOf(kept) = {rows[i] : i \in P}
               /\ P # {} => kept # <<>> /\ Len(kept) >= 1
<1> DEFINE kept == J!RowsAt(rows, P)
           size == Cardinality(P)
<1>1. IsFiniteSet(P) /\ P \subseteq Int /\ size \in Nat
  <2>1. IsFiniteSet(1..len)
    BY FS_Interval
  <2> HIDE DEF kept
  <2>2. IsFiniteSet(P)
    BY <2>1, FS_Subset
  <2> QED BY <2>2, FS_CardinalityType
<1>2. DOMAIN kept = 1..size /\ \A n \in 1..size : kept[n] = rows[J!NthPlace(P, n)]
  BY Counting DEF J!RowsAt
<1>3. kept = [n \in 1..size |-> rows[J!NthPlace(P, n)]]
  BY Counting DEF J!RowsAt
<1> HIDE DEF kept
<1>4. \A n \in 1..size : J!NthPlace(P, n) \in P
  BY <1>1, PlaceOfNumber
<1>5. kept \in Seq({rows[i] : i \in P}) /\ Len(kept) = size
  BY <1>1, <1>3, <1>4
<1>6. RangeOf(kept) \subseteq {rows[i] : i \in P}
  BY <1>2, <1>4 DEF RangeOf
<1>7. {rows[i] : i \in P} \subseteq RangeOf(kept)
  <2> SUFFICES ASSUME NEW i \in P PROVE rows[i] \in RangeOf(kept)
    OBVIOUS
  <2>1. PICK n \in 1..size : J!NthPlace(P, n) = i
    BY <1>1, NumberOfPlace
  <2> QED BY <2>1, <1>2 DEF RangeOf
<1>8. P # {} => size >= 1
  BY <1>1, FS_EmptySet
<1>9. P # {} => kept # <<>> /\ Len(kept) >= 1
  BY <1>5, <1>8
<1> QED BY <1>5, <1>6, <1>7, <1>9 DEF kept

-----------------------------------------------------------------------------
(* The estimate of the NPU's clock *)

LEMMA RankedIs ==
    ASSUME NEW n \in Nat, NEW values \in [1..n -> Int], NEW k \in 1..n
    PROVE  C!Ranked(values, k) \in Int
<1> DEFINE Fits(x) == /\ C!Cardinality({i \in 1..n : values[i] < x}) < k
                      /\ k <= C!Cardinality({i \in 1..n : values[i] <= x})
<1>1. IsFiniteSet(1..n) /\ Cardinality(1..n) = n
  BY FS_Interval
<1>2. PICK x \in 1..n : /\ Cardinality(Below(1..n, values, x)) < k
                        /\ k <= Cardinality(UpTo(1..n, values, x))
  BY <1>1, RankExists
<1>3. Fits(values[x])
  BY <1>2, Counting DEF Below, UpTo
<1>4. C!Ranked(values, k) = CHOOSE v \in {values[i] : i \in 1..n} : Fits(v)
  BY DEF C!Ranked
<1> HIDE DEF Fits
<1>5. C!Ranked(values, k) \in {values[i] : i \in 1..n}
  BY <1>3, <1>4
<1> QED BY <1>5

LEMMA MedianIs ==
    ASSUME NEW n \in Nat \ {0}, NEW values \in [1..n -> Int]
    PROVE  C!IntegerMedian(values) \in Int
<1>1. Len(values) = n
  OBVIOUS
<1>2. CASE n % 2 = 1
  <2>1. n \div 2 + 1 \in 1..n
    BY <1>2
  <2> QED BY <1>1, <1>2, <2>1, RankedIs DEF C!IntegerMedian
<1>3. CASE n % 2 # 1
  <2>1. n \div 2 \in 1..n /\ n \div 2 + 1 \in 1..n
    BY <1>3
  <2>2. C!Ranked(values, n \div 2) \in Int /\ C!Ranked(values, n \div 2 + 1) \in Int
    BY <2>1, RankedIs
  <2>3. C!IntegerMedian(values)
            = (C!Ranked(values, n \div 2) + C!Ranked(values, n \div 2 + 1)) \div 2
    BY <1>1, <1>3 DEF C!IntegerMedian
  <2> QED BY <2>2, <2>3
<1> QED BY <1>2, <1>3

\* Half the round trip bounds how far the offset of a probe can be off, and one
\* more the rounding of the halved sum.
LEMMA ProbeIsHonest ==
    ASSUME NEW probe, NEW ahead \in Int, Delayed(probe, ahead)
    PROVE  /\ C!RoundTrip(probe) \in Nat /\ C!ProbeOffset(probe) \in Int
           /\ C!ProbeOffset(probe) - ahead <= C!RoundTrip(probe) \div 2
           /\ ahead - C!ProbeOffset(probe) <= C!RoundTrip(probe) \div 2 + 1
<1>1. /\ probe.t0 \in Int /\ probe.t1 \in Int /\ probe.t2 \in Int /\ probe.t3 \in Int
      /\ probe.t0 + ahead <= probe.t1 /\ probe.t1 <= probe.t2 /\ probe.t2 <= probe.t3 + ahead
  BY DEF Delayed
<1> QED BY <1>1, SMT DEF C!RoundTrip, C!ProbeOffset

\* How far the offset is from how far the clock really is ahead.
Honest(e, ahead) ==
    /\ e.offset \in Int /\ e.uncertainty \in Nat
    /\ e.offset - ahead <= e.uncertainty
    /\ ahead - e.offset <= e.uncertainty + Rounding

\* The candidate that is selected is one of the samples.
LEMMA SelectedIs ==
    ASSUME NEW n \in Nat, NEW samples, DOMAIN samples = 1..n, NEW ahead \in Int,
           \A i \in 1..n : Delayed(samples[i], ahead), NEW minimum \in 1..n
    PROVE  C!SelectedSample(samples, minimum) \in 1..n
<1> DEFINE candidates == C!CandidateSamples(samples, minimum)
           trip(i) == C!RoundTrip(samples[i])
<1>1. candidates \subseteq 1..n /\ candidates # {}
  <2> DEFINE offsets == [i \in DOMAIN samples |-> C!ProbeOffset(samples[i])]
             deviations == [i \in DOMAIN samples |-> C!Abs(offsets[i] - C!IntegerMedian(offsets))]
             near == {i \in DOMAIN samples :
                         deviations[i] <= C!Larger(1, 3 * C!IntegerMedian(deviations))}
  <2>1. candidates = IF C!Cardinality(near) < minimum THEN DOMAIN samples ELSE near
    BY DEF C!CandidateSamples
  <2>2. near \subseteq 1..n
    OBVIOUS
  <2> HIDE DEF near
  <2>3. near = {} => C!Cardinality(near) < minimum
    BY Counting, FS_EmptySet
  <2> QED BY <2>1, <2>2, <2>3
<1> HIDE DEF candidates
<1>2. IsFiniteSet(candidates) /\ \A i \in candidates : trip(i) \in Int
  <2>1. IsFiniteSet(candidates)
    <3>1. IsFiniteSet(1..n)
      BY FS_Interval
    <3> QED BY <1>1, <3>1, FS_Subset
  <2>2. \A i \in 1..n : trip(i) \in Nat
    BY ProbeIsHonest
  <2> QED BY <1>1, <2>1, <2>2
<1> DEFINE trips == [i \in candidates |-> trip(i)]
           best == {i \in candidates : \A j \in candidates : trip(i) <= trip(j)}
<1>3. best # {}
  <2>1. \A i \in candidates : trips[i] \in Int /\ trips[i] = trip(i)
    BY <1>2
  <2> HIDE DEF trips, trip
  <2>2. \E x \in candidates : \A y \in candidates : trips[x] <= trips[y]
    BY <1>1, <1>2, <2>1, Smallest
  <2> QED BY <2>1, <2>2
<1>4. PICK i \in best : \A j \in best : i <= j
  <2>1. IsFiniteSet(best) /\ best \subseteq Int
    <3>1. best \in SUBSET candidates
      OBVIOUS
    <3> HIDE DEF best
    <3>2. IsFiniteSet(best)
      BY <1>2, <3>1, FS_Subset
    <3>3. \A i \in best : i \in Int
      BY <1>1, <3>1
    <3> QED BY <3>2, <3>3
  <2> HIDE DEF best
  <2> QED BY <1>3, <2>1, FirstAndLast
<1>5. \A j \in candidates : trip(i) < trip(j) \/ (trip(i) = trip(j) /\ i <= j)
  <2> SUFFICES ASSUME NEW j \in candidates
               PROVE  trip(i) < trip(j) \/ (trip(i) = trip(j) /\ i <= j)
    OBVIOUS
  <2>1. trip(i) <= trip(j) /\ trip(i) \in Int /\ trip(j) \in Int
    BY <1>2
  <2>2. CASE j \in best
    BY <1>4, <2>1, <2>2
  <2>3. CASE j \notin best
    <3> HIDE DEF trip
    <3>1. PICK l \in candidates : ~(trip(j) <= trip(l))
      BY <2>3
    <3> QED BY <1>2, <2>1, <3>1
  <2> QED BY <2>2, <2>3
<1>6. C!SelectedSample(samples, minimum)
          = CHOOSE x \in candidates : \A j \in candidates :
                trip(x) < trip(j) \/ (trip(x) = trip(j) /\ x <= j)
  BY DEF C!SelectedSample, candidates
<1> HIDE DEF trip
<1>7. C!SelectedSample(samples, minimum) \in candidates
  BY <1>4, <1>5, <1>6
<1> QED BY <1>1, <1>7

LEMMA EstimateIsHonest ==
    ASSUME NEW n \in Nat, NEW samples, samples = [i \in 1..n |-> samples[i]], NEW ahead \in Int,
           \A i \in 1..n : Delayed(samples[i], ahead), NEW minimum \in 1..n
    PROVE  Honest(C!EstimateClock(samples, minimum), ahead)
<1> DEFINE chosen == C!SelectedSample(samples, minimum)
           offsets == [i \in DOMAIN samples |-> C!ProbeOffset(samples[i])]
           median == C!IntegerMedian(offsets)
<1>1. DOMAIN samples = 1..n /\ Len(samples) = n
  OBVIOUS
<1>2. chosen \in 1..n
  BY <1>1, SelectedIs
<1>3. median \in Int
  <2>1. \A i \in 1..n : C!ProbeOffset(samples[i]) \in Int
    BY ProbeIsHonest
  <2>2. offsets \in [1..n -> Int]
    BY <1>1, <2>1
  <2> HIDE DEF offsets
  <2> QED BY <2>2, MedianIs
<1>4. C!EstimateClock(samples, minimum) = C!EstimateFrom(samples, chosen, median)
  BY <1>1 DEF C!EstimateClock
<1> HIDE DEF chosen, median
<1> DEFINE probe == samples[chosen]
<1>5. /\ C!RoundTrip(probe) \in Nat /\ C!ProbeOffset(probe) \in Int
      /\ C!ProbeOffset(probe) - ahead <= C!RoundTrip(probe) \div 2
      /\ ahead - C!ProbeOffset(probe) <= C!RoundTrip(probe) \div 2 + 1
  BY <1>2, ProbeIsHonest
<1>6. C!RoundTrip(probe) \div 2 \in Nat
  BY <1>5
<1>7. /\ C!EstimateUncertainty(probe, median) \in Nat
      /\ C!RoundTrip(probe) \div 2 <= C!EstimateUncertainty(probe, median)
  BY <1>3, <1>5, <1>6 DEF C!EstimateUncertainty, C!Larger, C!Abs
<1>8. /\ C!EstimateFrom(samples, chosen, median).offset = C!ProbeOffset(probe)
      /\ C!EstimateFrom(samples, chosen, median).uncertainty = C!EstimateUncertainty(probe, median)
  BY DEF C!EstimateFrom
<1> HIDE DEF probe
<1> QED BY <1>4, <1>5, <1>6, <1>7, <1>8 DEF Honest, Rounding

\* Whatever comes of a series of probes, if anything does, is an honest estimate.
LEMMA ProbesAreHonest ==
    ASSUME NEW ahead \in Int, NEW n \in Nat, DOMAIN outcomes = 1..n,
           \A i \in 1..n : outcomes[i] # Refused => Delayed(outcomes[i], ahead),
           NEW minimum \in Nat \ {0}, C!ProbeClock(outcomes, minimum) # Refused
    PROVE  Honest(C!ProbeClock(outcomes, minimum), ahead)
<1> DEFINE kept == {i \in DOMAIN outcomes : outcomes[i] # Refused}
           size == Cardinality(kept)
           samples == [k \in 1..size |-> outcomes[J!NthPlace(kept, k)]]
<1>1. IsFiniteSet(kept) /\ kept \subseteq Int /\ size \in Nat
  <2>1. IsFiniteSet(1..n) /\ kept \in SUBSET (1..n)
    BY FS_Interval
  <2> HIDE DEF kept
  <2>2. IsFiniteSet(kept)
    BY <2>1, FS_Subset
  <2> QED BY <2>1, <2>2, FS_CardinalityType
<1>2. C!CollectedSamples(outcomes, minimum) = IF size < minimum THEN Refused ELSE samples
  <2> DEFINE nth(k) == CHOOSE i \in kept : C!Cardinality({j \in kept : j <= i}) = k
  <2>1. \A k : nth(k) = J!NthPlace(kept, k)
    BY Counting DEF J!NthPlace
  <2>2. C!CollectedSamples(outcomes, minimum)
            = IF C!Cardinality(kept) < minimum THEN Refused
              ELSE [k \in 1..C!Cardinality(kept) |-> outcomes[nth(k)]]
    BY DEF C!CollectedSamples
  <2> HIDE DEF nth, kept
  <2> QED BY <2>1, <2>2, Counting
<1>3. minimum \in 1..size
  BY <1>1, <1>2 DEF C!ProbeClock
<1>4. C!ProbeClock(outcomes, minimum) = C!EstimateClock(samples, minimum)
  BY <1>1, <1>2, <1>3 DEF C!ProbeClock
<1>5. \A k \in 1..size : J!NthPlace(kept, k) \in kept
  <2> HIDE DEF kept
  <2> QED BY <1>1, PlaceOfNumber
<1>6. \A k \in 1..size : Delayed(samples[k], ahead)
  <2> SUFFICES ASSUME NEW k \in 1..size PROVE Delayed(samples[k], ahead)
    OBVIOUS
  <2>1. samples[k] = outcomes[J!NthPlace(kept, k)]
    OBVIOUS
  <2>2. J!NthPlace(kept, k) \in 1..n /\ outcomes[J!NthPlace(kept, k)] # Refused
    BY <1>5
  <2> QED BY <2>1, <2>2
<1>7. samples = [k \in 1..size |-> samples[k]]
  OBVIOUS
<1> HIDE DEF samples, size
<1> QED BY <1>1, <1>3, <1>4, <1>6, <1>7, EstimateIsHonest

-----------------------------------------------------------------------------
(* What the contract finds in one request's rows *)

Timed(rows) == /\ rows \in Seq(RangeOf(rows))
               /\ \A e \in RangeOf(rows) : e.ts \in Int
OfRows(rows, issues) ==
    \A issue \in issues :
        \E before, after \in RangeOf(rows) : issue \in J!OrderingIssue(before, after)

LEMMA PlacesAre ==
    ASSUME NEW rows, Timed(rows)
    PROVE  /\ Len(rows) \in Nat /\ DOMAIN rows = 1..Len(rows)
           /\ \A i \in DOMAIN rows : rows[i] \in RangeOf(rows) /\ rows[i].ts \in Int
           /\ \A P \in SUBSET DOMAIN rows : IsFiniteSet(P) /\ P \subseteq Int
           /\ \A name : J!Places(rows, name) \in SUBSET DOMAIN rows
<1>1. Len(rows) \in Nat /\ DOMAIN rows = 1..Len(rows)
  BY DEF Timed
<1>2. \A i \in DOMAIN rows : rows[i] \in RangeOf(rows) /\ rows[i].ts \in Int
  BY DEF Timed, RangeOf
<1>3. ASSUME NEW P \in SUBSET DOMAIN rows PROVE IsFiniteSet(P) /\ P \subseteq Int
  <2>1. IsFiniteSet(DOMAIN rows)
    BY <1>1, FS_Interval
  <2> QED BY <1>1, <2>1, FS_Subset
<1>4. \A name : J!Places(rows, name) \in SUBSET DOMAIN rows
  BY DEF J!Places
<1> QED BY <1>1, <1>2, <1>3, <1>4

LEMMA FirstPlaceIs ==
    ASSUME NEW rows, Timed(rows), NEW P \in SUBSET DOMAIN rows, P # {}
    PROVE  /\ J!FirstPlace(P) \in P /\ \A j \in P : J!FirstPlace(P) <= j
           /\ rows[J!FirstPlace(P)] \in RangeOf(rows)
<1>1. \E i \in P : \A j \in P : i <= j
  BY PlacesAre, FirstAndLast
<1>2. J!FirstPlace(P) \in P /\ \A j \in P : J!FirstPlace(P) <= j
  BY <1>1 DEF J!FirstPlace
<1> QED BY <1>2, PlacesAre

\* The earliest row of a name, and the latest of some rows.
LEMMA RepresentativeIs ==
    ASSUME NEW rows, Timed(rows), NEW name, J!Places(rows, name) # {}
    PROVE  J!Representative(rows, name) \in RangeOf(rows)
<1> DEFINE P == J!Places(rows, name)
           v == [i \in P |-> rows[i].ts]
           best == {i \in P : \A j \in P : rows[i].ts <= rows[j].ts}
<1>1. P \in SUBSET DOMAIN rows /\ IsFiniteSet(P) /\ \A i \in P : rows[i].ts \in Int
  BY PlacesAre
<1> HIDE DEF P
<1>2. best # {}
  <2>1. \A i \in P : v[i] = rows[i].ts /\ v[i] \in Int
    BY <1>1
  <2> HIDE DEF v
  <2>2. \E x \in P : \A y \in P : v[x] <= v[y]
    BY <1>1, <2>1, Smallest DEF P
  <2> QED BY <2>1, <2>2
<1>3. PICK i \in best : \A j \in best : i <= j
  <2>1. best \in SUBSET DOMAIN rows
    BY <1>1
  <2> HIDE DEF best
  <2> QED BY <1>2, <2>1, PlacesAre, FirstAndLast
<1>4. \A j \in P : rows[i].ts < rows[j].ts \/ (rows[i].ts = rows[j].ts /\ i <= j)
  <2> SUFFICES ASSUME NEW j \in P
               PROVE  rows[i].ts < rows[j].ts \/ (rows[i].ts = rows[j].ts /\ i <= j)
    OBVIOUS
  <2>1. rows[i].ts <= rows[j].ts /\ rows[i].ts \in Int /\ rows[j].ts \in Int
    BY <1>1
  <2>2. CASE j \in best
    BY <1>3, <2>1, <2>2
  <2>3. CASE j \notin best
    <3>1. PICK l \in P : ~(rows[j].ts <= rows[l].ts)
      BY <2>3
    <3>2. rows[l].ts \in Int /\ rows[i].ts <= rows[l].ts
      BY <1>1
    <3> QED BY <2>1, <3>1, <3>2
  <2> QED BY <2>2, <2>3
<1>5. PICK k \in P : J!Representative(rows, name) = rows[k]
  BY <1>4 DEF J!Representative, P
<1> QED BY <1>1, <1>5, PlacesAre

LEMMA LatestIs ==
    ASSUME NEW rows, Timed(rows), NEW P \in SUBSET DOMAIN rows, P # {}
    PROVE  rows[CHOOSE i \in P : \A j \in P : rows[j].ts <= rows[i].ts] \in RangeOf(rows)
<1> DEFINE v == [i \in P |-> rows[i].ts]
<1>1. \A i \in P : v[i] = rows[i].ts /\ v[i] \in Int
  BY PlacesAre
<1> HIDE DEF v
<1>2. \E x \in P : \A y \in P : v[y] <= v[x]
  BY <1>1, PlacesAre, Greatest
<1>3. \E i \in P : \A j \in P : rows[j].ts <= rows[i].ts
  BY <1>1, <1>2
<1>4. (CHOOSE i \in P : \A j \in P : rows[j].ts <= rows[i].ts) \in P
  BY <1>3
<1> QED BY <1>4, PlacesAre

\* The row that stands for a step, and the one that stands for a transfer.
LEMMA RowOfStepIs ==
    ASSUME NEW rows, Timed(rows), NEW name, NEW k \in J!Steps(rows, name)
    PROVE  J!RowOfStep(rows, name, k) \in RangeOf(rows)
<1> DEFINE P == {i \in J!Places(rows, name) : rows[i].step = k}
<1>1. P \in SUBSET DOMAIN rows /\ P # {}
  BY PlacesAre DEF J!Steps
<1>2. J!RowOfStep(rows, name, k) = rows[J!FirstPlace(P)]
  BY DEF J!RowOfStep
<1> HIDE DEF P
<1> QED BY <1>1, <1>2, FirstPlaceIs

LEMMA RowOfTransferIs ==
    ASSUME NEW rows, Timed(rows), NEW name, NEW id \in J!Transfers(rows, name)
    PROVE  J!RowOfTransfer(rows, name, id) \in RangeOf(rows)
<1> DEFINE P == {i \in J!Places(rows, name) : rows[i].transfer = id}
<1>1. P \in SUBSET DOMAIN rows /\ P # {}
  BY PlacesAre DEF J!Transfers
<1>2. J!RowOfTransfer(rows, name, id) = rows[CHOOSE i \in P : \A j \in P : j <= i]
  BY DEF J!RowOfTransfer
<1> HIDE DEF P
<1>3. \E i \in P : \A j \in P : j <= i
  BY <1>1, PlacesAre, FirstAndLast
<1> QED BY <1>1, <1>2, <1>3, PlacesAre

\* The issues of each part of the contract are about two of the rows.
LEMMA OneIssue ==
    ASSUME NEW rows, NEW before \in RangeOf(rows), NEW after \in RangeOf(rows)
    PROVE  OfRows(rows, J!OrderingIssue(before, after))
BY DEF OfRows

LEMMA RepresentativeIssuesAre ==
    ASSUME NEW rows, Timed(rows)
    PROVE  OfRows(rows, J!RepresentativeIssues(rows))
<1> DEFINE present == {k \in DOMAIN J!MARKER_ORDER : J!Places(rows, J!MARKER_ORDER[k]) # {}}
           next(k) == J!FirstPlace({m \in present : m > k})
           row(k) == J!Representative(rows, J!MARKER_ORDER[k])
<1>1. J!RepresentativeIssues(rows)
          = UNION {J!OrderingIssue(row(k), row(next(k))) :
                     k \in {k \in present : \E m \in present : m > k}}
  BY DEF J!RepresentativeIssues
<1>2. \A k \in present : row(k) \in RangeOf(rows)
  BY RepresentativeIs
<1>3. ASSUME NEW k, NEW m \in present, m > k PROVE next(k) \in present
  <2> DEFINE later == {l \in present : l > k}
  <2>1. IsFiniteSet(later) /\ later \subseteq Int /\ later # {}
    <3>1. DOMAIN J!MARKER_ORDER = 1..16
      BY DEF J!MARKER_ORDER
    <3>2. IsFiniteSet(1..16)
      BY FS_Interval, 1 \in Int, 16 \in Int, Zenon
    <3>3. later \in SUBSET (1..16) /\ later # {}
      BY <1>3, <3>1
    <3> HIDE DEF later
    <3>4. IsFiniteSet(later)
      BY <3>2, <3>3, FS_Subset
    <3> QED BY <3>3, <3>4
  <2> HIDE DEF later
  <2>2. \E i \in later : \A j \in later : i <= j
    BY <2>1, FirstAndLast
  <2>3. J!FirstPlace(later) \in later
    BY <2>2 DEF J!FirstPlace
  <2> QED BY <2>3 DEF later
<1> HIDE DEF present, next, row
<1>4. ASSUME NEW k \in present, NEW m \in present, m > k
      PROVE  OfRows(rows, J!OrderingIssue(row(k), row(next(k))))
  BY <1>2, <1>3, <1>4, OneIssue
<1> QED BY <1>1, <1>4 DEF OfRows

LEMMA ResponseIssuesAre ==
    ASSUME NEW rows, Timed(rows)
    PROVE  OfRows(rows, J!ResponseIssues(rows))
<1> DEFINE tokens == {i \in DOMAIN rows : rows[i].name \in J!TokenMarkers}
           latest == CHOOSE i \in tokens : \A j \in tokens : rows[j].ts <= rows[i].ts
           done == J!Places(rows, "response_done")
<1>1. J!ResponseIssues(rows)
          = IF Cardinality(done) # 1 \/ tokens = {} THEN {}
            ELSE J!OrderingIssue(rows[latest], rows[J!FirstPlace(done)])
  BY Counting DEF J!ResponseIssues
<1>2. CASE Cardinality(done) # 1 \/ tokens = {}
  BY <1>1, <1>2 DEF OfRows
<1>3. CASE Cardinality(done) = 1 /\ tokens # {}
  <2>1. tokens \in SUBSET DOMAIN rows /\ done \in SUBSET DOMAIN rows
    BY PlacesAre
  <2> HIDE DEF tokens, done
  <2>2. done # {}
    BY <1>3, FS_EmptySet
  <2>3. rows[latest] \in RangeOf(rows)
    BY <1>3, <2>1, LatestIs
  <2>4. rows[J!FirstPlace(done)] \in RangeOf(rows)
    BY <2>1, <2>2, FirstPlaceIs
  <2> HIDE DEF latest
  <2> QED BY <1>1, <1>3, <2>3, <2>4, OneIssue
<1> QED BY <1>2, <1>3

LEMMA PairIssuesAre ==
    ASSUME NEW rows, Timed(rows), NEW stage
    PROVE  OfRows(rows, J!PairedByTransfer(rows, stage).ordering)
<1> DEFINE first == stage \o "_start"
           last == stage \o "_end"
           starts == J!Transfers(rows, first)
           ends == J!Transfers(rows, last)
           sameClock(id) == J!RowOfTransfer(rows, first, id).clock = J!RowOfTransfer(rows, last, id).clock
           issues == UNION {J!OrderingIssue(J!RowOfTransfer(rows, first, id),
                                            J!RowOfTransfer(rows, last, id)) :
                              id \in {x \in starts \cap ends : sameClock(x)}}
<1>1. J!PairedByTransfer(rows, stage).ordering = IF None \in starts \cup ends THEN {} ELSE issues
  BY DEF J!PairedByTransfer
<1>2. ASSUME NEW id \in starts \cap ends
      PROVE  OfRows(rows, J!OrderingIssue(J!RowOfTransfer(rows, first, id),
                                          J!RowOfTransfer(rows, last, id)))
  <2>1. J!RowOfTransfer(rows, first, id) \in RangeOf(rows)
    BY RowOfTransferIs
  <2>2. J!RowOfTransfer(rows, last, id) \in RangeOf(rows)
    BY RowOfTransferIs
  <2> QED BY <2>1, <2>2, OneIssue
<1>3. OfRows(rows, issues)
  BY <1>2 DEF OfRows
<1> HIDE DEF issues, starts, ends
<1> QED BY <1>1, <1>3 DEF OfRows

LEMMA WaitIssuesAre ==
    ASSUME NEW rows, Timed(rows)
    PROVE  OfRows(rows, J!WaitIssues(rows))
<1> DEFINE row(name, id) == J!RowOfTransfer(rows, name, id)
           ids == J!WaitedTransfers(rows) \cap J!BoundedTransfers(rows)
           issues(id) == J!OrderingIssue(row("kv_transfer_start", id),
                                         row("kv_transfer_wait_start", id))
                         \cup J!OrderingIssue(row("kv_transfer_wait_end", id),
                                              row("kv_transfer_end", id))
<1>1. J!WaitIssues(rows) = UNION {issues(id) : id \in ids}
  BY DEF J!WaitIssues
<1>2. ASSUME NEW id \in ids PROVE OfRows(rows, issues(id))
  <2>1. /\ id \in J!Transfers(rows, "kv_transfer_start")
        /\ id \in J!Transfers(rows, "kv_transfer_wait_start")
        /\ id \in J!Transfers(rows, "kv_transfer_wait_end")
        /\ id \in J!Transfers(rows, "kv_transfer_end")
    BY DEF J!WaitedTransfers, J!BoundedTransfers
  <2>2. /\ row("kv_transfer_start", id) \in RangeOf(rows)
        /\ row("kv_transfer_wait_start", id) \in RangeOf(rows)
        /\ row("kv_transfer_wait_end", id) \in RangeOf(rows)
        /\ row("kv_transfer_end", id) \in RangeOf(rows)
    BY <2>1, RowOfTransferIs
  <2> HIDE DEF row
  <2> QED BY <2>2 DEF OfRows
<1> HIDE DEF issues, ids
<1> QED BY <1>1, <1>2 DEF OfRows

LEMMA IterationIssuesAre ==
    ASSUME NEW rows, Timed(rows)
    PROVE  OfRows(rows, J!IterationIssues(rows))
<1> DEFINE indices(name) == J!Steps(rows, name) \ {None}
           whole == {k \in indices("decode_step_start") :
                        \A name \in J!IterationNames : k \in indices(name)}
           at(k, m) == J!RowOfStep(rows, J!ITERATION_MARKERS[m], k)
           only(name) == IF J!Cardinality(J!Places(rows, name)) = 1
                           THEN {rows[J!FirstPlace(J!Places(rows, name))]} ELSE {}
           previous(k) == {j \in whole : j < k /\ \A m \in whole : m < k => m <= j}
           within == {J!OrderingIssue(at(k, m), at(k, m + 1)) : k \in whole, m \in 1..3}
           between == UNION {{J!OrderingIssue(at(j, 4), at(k, 1)) : j \in previous(k)} : k \in whole}
           started == {J!OrderingIssue(row, at(k, 1)) :
                         k \in whole, row \in only("decode_loop_start")}
           ended == {J!OrderingIssue(at(k, 4), row) : k \in whole, row \in only("decode_loop_end")}
<1>1. J!IterationIssues(rows) = UNION (within \cup between \cup started \cup ended)
  BY DEF J!IterationIssues
<1>2. \A k \in whole, m \in 1..4 : at(k, m) \in RangeOf(rows)
  <2> SUFFICES ASSUME NEW k \in whole, NEW m \in 1..4 PROVE at(k, m) \in RangeOf(rows)
    OBVIOUS
  <2>1. J!ITERATION_MARKERS[m] \in J!IterationNames
    BY DEF J!ITERATION_MARKERS, J!IterationNames
  <2>2. k \in J!Steps(rows, J!ITERATION_MARKERS[m])
    BY <2>1
  <2> QED BY <2>2, RowOfStepIs
<1>3. \A name : only(name) \subseteq RangeOf(rows)
  <2> SUFFICES ASSUME NEW name, Cardinality(J!Places(rows, name)) = 1
               PROVE  rows[J!FirstPlace(J!Places(rows, name))] \in RangeOf(rows)
    BY Counting
  <2>1. J!Places(rows, name) # {}
    BY FS_EmptySet
  <2> QED BY <2>1, PlacesAre, FirstPlaceIs
<1> HIDE DEF whole, at, only
<1>4. \A issues \in within : OfRows(rows, issues)
  BY <1>2 DEF OfRows
<1>5. \A issues \in between : OfRows(rows, issues)
  BY <1>2 DEF OfRows
<1>6. \A issues \in started : OfRows(rows, issues)
  BY <1>2, <1>3 DEF OfRows
<1>7. \A issues \in ended : OfRows(rows, issues)
  BY <1>2, <1>3 DEF OfRows
<1> HIDE DEF within, between, started, ended
<1> QED BY <1>1, <1>4, <1>5, <1>6, <1>7 DEF OfRows

\* What ValidateMarkerOrder finds out of order is about two of the rows; rows
\* it finds valid have every marker, and nothing out of order.
LEMMA MarkerOrderIs ==
    ASSUME NEW rows, Timed(rows)
    PROVE  LET verdict == J!ValidateMarkerOrder(rows)
           IN  /\ OfRows(rows, verdict.ordering)
               /\ verdict.status \in {"valid", "partial", "invalid"}
               /\ verdict.status = "valid" =>
                      /\ \A name \in J!MarkerNames : J!Places(rows, name) # {}
                      /\ J!RepresentativeIssues(rows) = {}
<1> DEFINE missing == {name \in J!MarkerNames : J!Places(rows, name) = {}}
           repeats == {J!RepeatIssues(rows, name) : name \in J!MarkerNames}
           pairs == IF J!HasObservability(rows)
                      THEN {J!PairedByTransfer(rows, stage) : stage \in J!PairsToCheck(rows)} ELSE {}
           duplicates == UNION {x.duplicates : x \in repeats \cup pairs}
           pairing == (UNION {x.pairing : x \in repeats \cup pairs})
                      \cup (IF J!HasIterations(rows) THEN J!IterationPairing(rows) ELSE {})
                      \cup (IF J!HasObservability(rows)
                              THEN J!MissingCapabilities(rows) \cup J!WaitPairing(rows) ELSE {})
           ordering == J!RepresentativeIssues(rows) \cup J!ResponseIssues(rows)
                       \cup (UNION {p.ordering : p \in pairs})
                       \cup (IF J!HasIterations(rows) THEN J!IterationIssues(rows) ELSE {})
                       \cup (IF J!HasObservability(rows) THEN J!WaitIssues(rows) ELSE {})
           verdict == J!ValidateMarkerOrder(rows)
<1>1. verdict = J!Verdict(missing, duplicates, pairing, ordering)
  BY DEF J!ValidateMarkerOrder
<1>2. OfRows(rows, ordering)
  <2>1. \A p \in pairs : \E stage : p = J!PairedByTransfer(rows, stage)
    OBVIOUS
  <2>2. \A p \in pairs : OfRows(rows, p.ordering)
    <3> HIDE DEF pairs
    <3> QED BY <2>1, PairIssuesAre
  <2>3. /\ OfRows(rows, J!RepresentativeIssues(rows)) /\ OfRows(rows, J!ResponseIssues(rows))
        /\ OfRows(rows, J!IterationIssues(rows)) /\ OfRows(rows, J!WaitIssues(rows))
    BY RepresentativeIssuesAre, ResponseIssuesAre, IterationIssuesAre, WaitIssuesAre
  <2> HIDE DEF pairs
  <2> QED BY <2>2, <2>3 DEF OfRows
<1>3. J!RepresentativeIssues(rows) \subseteq ordering
  OBVIOUS
<1> HIDE DEF verdict, duplicates, pairing, ordering
<1>4. /\ verdict.ordering = ordering
      /\ verdict.status = J!MarkerStatus(missing, duplicates, pairing, ordering)
  BY <1>1 DEF J!Verdict
<1>5. verdict.status = "valid" => missing = {} /\ ordering = {}
  BY <1>4 DEF J!MarkerStatus
<1>6. verdict.status \in {"valid", "partial", "invalid"}
  BY <1>4 DEF J!MarkerStatus
<1>7. verdict.status = "valid" => \A name \in J!MarkerNames : J!Places(rows, name) # {}
  BY <1>5
<1>8. verdict.status = "valid" => J!RepresentativeIssues(rows) = {}
  BY <1>3, <1>5
<1> QED BY <1>2, <1>4, <1>6, <1>7, <1>8 DEF verdict

\* Rows that are valid show the contract's markers one after another.
LEMMA ValidIsInOrder ==
    ASSUME NEW rows, Timed(rows), J!ValidateMarkerOrder(rows).status = "valid",
           NEW k \in 1..Len(J!MARKER_ORDER) - 1
    PROVE  LET row(m) == J!Representative(rows, J!MARKER_ORDER[m])
           IN  row(k) \in RangeOf(rows) /\ row(k + 1) \in RangeOf(rows) /\ row(k).ts <= row(k + 1).ts
<1> DEFINE present == {m \in DOMAIN J!MARKER_ORDER : J!Places(rows, J!MARKER_ORDER[m]) # {}}
           next(m) == J!FirstPlace({l \in present : l > m})
           row(m) == J!Representative(rows, J!MARKER_ORDER[m])
<1>1. J!RepresentativeIssues(rows) = {} /\ \A name \in J!MarkerNames : J!Places(rows, name) # {}
  BY MarkerOrderIs
<1>2. J!RepresentativeIssues(rows)
          = UNION {J!OrderingIssue(row(m), row(next(m))) :
                     m \in {m \in present : \E l \in present : l > m}}
  BY DEF J!RepresentativeIssues
<1>3. Len(J!MARKER_ORDER) = 16 /\ DOMAIN J!MARKER_ORDER = 1..16
  BY DEF J!MARKER_ORDER
<1>4. \A m \in 1..16 : J!Places(rows, J!MARKER_ORDER[m]) # {}
  BY <1>1, <1>3 DEF J!MarkerNames
<1>5. present = 1..16 /\ k \in 1..15
  BY <1>3, <1>4
<1>6. \A m \in 1..16 : row(m) \in RangeOf(rows)
  BY <1>4, RepresentativeIs
<1> HIDE DEF present, row
<1>7. next(k) = k + 1
  <2> DEFINE later == {l \in present : l > k}
  <2>1. k + 1 \in later /\ later \subseteq Int /\ \A l \in later : k + 1 <= l
    BY <1>5
  <2>2. next(k) = CHOOSE i \in later : \A j \in later : i <= j
    BY DEF J!FirstPlace
  <2> HIDE DEF later
  <2>3. \A i \in later : (\A j \in later : i <= j) => i = k + 1
    BY <2>1, <1>5
  <2> QED BY <2>1, <2>2, <2>3
<1>8. J!OrderingIssue(row(k), row(k + 1)) = {}
  <2>1. k \in {m \in present : \E l \in present : l > m}
    BY <1>5
  <2> HIDE DEF next
  <2>2. J!OrderingIssue(row(k), row(next(k))) = {}
    BY <1>1, <1>2, <2>1
  <2> QED BY <2>2, <1>7
<1>9. row(k) \in RangeOf(rows) /\ row(k + 1) \in RangeOf(rows)
  BY <1>5, <1>6
<1>10. row(k).ts <= row(k + 1).ts
  BY <1>8, <1>9 DEF J!OrderingIssue, Timed
<1> QED BY <1>9, <1>10 DEF row

-----------------------------------------------------------------------------
(* The join *)

\* Rows that are all of E, and events that all have a time.
Drawn(rows, E) == rows \in Seq(E)
OnClock(E) == \A e \in E : e.ts \in Int

LEMMA ConcatenationIs ==
    ASSUME NEW E, NEW a, Drawn(a, E), NEW b, Drawn(b, E)
    PROVE  Drawn(a \o b, E) /\ RangeOf(a \o b) = RangeOf(a) \cup RangeOf(b)
<1> USE DEF Drawn
<1>1. a \o b \in Seq(E) /\ RangeOf(a \o b) \subseteq RangeOf(a) \cup RangeOf(b)
  BY DEF RangeOf
<1>2. \A i \in DOMAIN a : a[i] = (a \o b)[i] /\ i \in DOMAIN (a \o b)
  OBVIOUS
<1>3. \A i \in DOMAIN b : b[i] = (a \o b)[Len(a) + i] /\ Len(a) + i \in DOMAIN (a \o b)
  OBVIOUS
<1>4. RangeOf(a) \subseteq RangeOf(a \o b)
  BY <1>2 DEF RangeOf
<1>5. RangeOf(b) \subseteq RangeOf(a \o b)
  BY <1>3 DEF RangeOf
<1> QED BY <1>1, <1>4, <1>5

\* Rows drawn from events on a clock are on it.
LEMMA DrawnIsTimed ==
    ASSUME NEW E, OnClock(E), NEW rows, Drawn(rows, E)
    PROVE  Timed(rows) /\ RangeOf(rows) \subseteq E
<1> USE DEF Drawn, OnClock
<1>1. RangeOf(rows) \subseteq E
  BY DEF RangeOf
<1>2. rows \in Seq(RangeOf(rows))
  BY DEF RangeOf
<1> QED BY <1>1, <1>2 DEF Timed

\* What every result of the join is, whatever found it.
Result(r, E) ==
    /\ Drawn(r.events, E)
    /\ r.ordering = {} \/ r.ordering = J!ValidateMarkerOrder(r.events).ordering
    /\ r.status = "joined" => J!ValidateMarkerOrder(r.events).status = "valid"

\* A group of each source joined, and groups left as they are.
Pairs(r, g, gRows, n, nRows, E) ==
    /\ Result(r, E) /\ r.gpu = {g} /\ r.npu = {n}
    /\ RangeOf(r.events) = RangeOf(gRows) \cup RangeOf(nRows)
Leaves(r, gs, ns, rows, E) ==
    /\ Result(r, E) /\ r.gpu = gs /\ r.npu = ns /\ r.confidence = 0 /\ r.events = rows

LEMMA JoinedIs ==
    ASSUME NEW E, OnClock(E), NEW g, NEW gRows, Drawn(gRows, E), NEW n,
           NEW nRows, Drawn(nRows, E), NEW method, NEW confidence
    PROVE  Pairs(J!Joined(g, gRows, n, nRows, method, confidence), g, gRows, n, nRows, E)
<1> DEFINE r == J!Joined(g, gRows, n, nRows, method, confidence)
           verdict == J!ValidateMarkerOrder(gRows \o nRows)
<1>1. /\ r.gpu = {g} /\ r.npu = {n}
      /\ r.events = gRows \o nRows /\ r.ordering = verdict.ordering
      /\ r.status = J!JoinedStatus(verdict)
  BY DEF J!Joined, J!Judged
<1> HIDE DEF r
<1>2. Drawn(gRows \o nRows, E) /\ RangeOf(gRows \o nRows) = RangeOf(gRows) \cup RangeOf(nRows)
  BY ConcatenationIs
<1>3. verdict.status \in {"valid", "partial", "invalid"}
  BY <1>2, DrawnIsTimed, MarkerOrderIs
<1>4. r.status = "joined" => verdict.status = "valid"
  <2> HIDE DEF verdict
  <2> QED BY <1>1, <1>3 DEF J!JoinedStatus
<1> QED BY <1>1, <1>2, <1>4 DEF Result, Pairs, r

LEMMA UnjoinedIs ==
    ASSUME NEW E, NEW rows, Drawn(rows, E), NEW request, NEW gs, NEW ns, NEW method,
           NEW status_ \in {"ambiguous", "not_joined"}
    PROVE  Leaves(J!Unjoined(request, gs, ns, method, status_, rows), gs, ns, rows, E)
BY DEF J!Unjoined, Result, Leaves

\* How far the join has come: what is used up is in a result, and what is joined
\* is used up and in one result only.
Confident(results) == {r \in results : r.confidence > 0}
Progress(done, G, N, E) ==
    /\ done.usedGpu \subseteq DOMAIN G /\ done.usedNpu \subseteq DOMAIN N
    /\ \A r \in done.results : Result(r, E)
    /\ \A g \in done.usedGpu : \E r \in done.results :
          g \in r.gpu /\ RangeOf(G[g]) \subseteq RangeOf(r.events)
    /\ \A n \in done.usedNpu : \E r \in done.results :
          n \in r.npu /\ RangeOf(N[n]) \subseteq RangeOf(r.events)
    /\ \A r \in Confident(done.results) :
          r.gpu \subseteq done.usedGpu /\ r.npu \subseteq done.usedNpu
    /\ \A r, s \in Confident(done.results) :
          r.gpu \cap s.gpu # {} \/ r.npu \cap s.npu # {} => r = s
Grouped(G, E) == \A g \in DOMAIN G : Drawn(G[g], E)

LEMMA NamedProgress ==
    ASSUME NEW E, OnClock(E), NEW G, Grouped(G, E), NEW N, Grouped(N, E)
    PROVE  Progress(J!JoinByRequest(G, N), G, N, E)
<1> DEFINE done == J!JoinByRequest(G, N)
           keys == {key \in DOMAIN G \cap DOMAIN N : key[1] = "request"}
           repeated(key) == \/ Cardinality(J!Places(G[key], "request_received")) > 1
                            \/ Cardinality(J!Places(N[key], "response_done")) > 1
           result(key) == IF repeated(key)
                            THEN J!Unjoined(key[2], {key}, {key}, "request_id", "ambiguous",
                                            G[key] \o N[key])
                            ELSE J!Joined(key, G[key], key, N[key], "request_id", 10)
<1>1. done.usedGpu = keys /\ done.usedNpu = keys /\ done.results = {result(key) : key \in keys}
  BY Counting DEF J!JoinByRequest
<1>2. ASSUME NEW key \in keys
      PROVE  /\ Result(result(key), E) /\ result(key).gpu = {key} /\ result(key).npu = {key}
             /\ RangeOf(result(key).events) = RangeOf(G[key]) \cup RangeOf(N[key])
  <2>1. Drawn(G[key], E) /\ Drawn(N[key], E)
    BY DEF Grouped
  <2> HIDE DEF keys, done
  <2>2. CASE repeated(key)
    <3>1. result(key) = J!Unjoined(key[2], {key}, {key}, "request_id", "ambiguous", G[key] \o N[key])
      BY <2>2
    <3>2. Drawn(G[key] \o N[key], E)
          /\ RangeOf(G[key] \o N[key]) = RangeOf(G[key]) \cup RangeOf(N[key])
      BY <2>1, ConcatenationIs
    <3>3. Leaves(J!Unjoined(key[2], {key}, {key}, "request_id", "ambiguous", G[key] \o N[key]),
                 {key}, {key}, G[key] \o N[key], E)
      BY <3>2, UnjoinedIs
    <3> HIDE DEF result
    <3> QED BY <3>1, <3>2, <3>3 DEF Leaves
  <2>3. CASE ~repeated(key)
    <3>1. result(key) = J!Joined(key, G[key], key, N[key], "request_id", 10)
      BY <2>3
    <3>2. Pairs(J!Joined(key, G[key], key, N[key], "request_id", 10), key, G[key], key, N[key], E)
      BY <2>1, JoinedIs
    <3> HIDE DEF result
    <3> QED BY <3>1, <3>2 DEF Pairs
  <2> QED BY <2>2, <2>3
<1>3. keys \subseteq DOMAIN G /\ keys \subseteq DOMAIN N
  OBVIOUS
<1> HIDE DEF done, keys, result
<1> QED BY <1>1, <1>2, <1>3 DEF Progress, Confident, done

LEMMA JoinProgress ==
    ASSUME NEW E, OnClock(E), NEW G, Grouped(G, E), NEW N, Grouped(N, E),
           IsFiniteSet(DOMAIN N),
           NEW done, Progress(done, G, N, E), NEW method, NEW confidence \in Nat
    PROVE  Progress(J!JoinBy(done, G, N, method, confidence), G, N, E)
<1> DEFINE after == J!JoinBy(done, G, N, method, confidence)
           freeGpu == DOMAIN G \ done.usedGpu
           freeNpu == DOMAIN N \ done.usedNpu
           candidates == [g \in freeGpu |->
               {n \in freeNpu : J!IdentifierValues(G[g], method)
                                \cap J!IdentifierValues(N[n], method) # {}}]
           matched == {g \in freeGpu : candidates[g] # {}}
           other(g) == CHOOSE n \in candidates[g] : TRUE
           result(g) ==
               IF J!OneToOne(candidates, g)
                 THEN J!Joined(g, G[g], other(g), N[other(g)], method, confidence)
                 ELSE J!Unjoined(G[g][1].request, {g}, candidates[g], method, "ambiguous", G[g])
           paired == {x \in matched : J!OneToOne(candidates, x)}
<1>1. /\ after.usedGpu = done.usedGpu \cup matched
      /\ after.usedNpu = done.usedNpu \cup (UNION {candidates[g] : g \in paired})
      /\ after.results = done.results \cup {result(g) : g \in matched}
  BY DEF J!JoinBy
<1>2. ASSUME NEW g \in paired
      PROVE  candidates[g] = {other(g)} /\ other(g) \in freeNpu
             /\ \A h \in freeGpu : other(g) \in candidates[h] => h = g
  <2>1. Cardinality(candidates[g]) = 1 /\ \A n \in candidates[g] : J!Rivals(candidates, n) = {g}
    BY Counting DEF J!OneToOne
  <2>2. DOMAIN candidates = freeGpu /\ candidates[g] \subseteq freeNpu /\ candidates[g] # {}
    OBVIOUS
  <2> HIDE DEF candidates
  <2>3. IsFiniteSet(candidates[g])
    BY <2>2, FS_Subset
  <2>4. PICK n : candidates[g] = {n}
    BY <2>1, <2>3, FS_Singleton
  <2>5. other(g) = n /\ n \in freeNpu /\ J!Rivals(candidates, n) = {g}
    BY <2>1, <2>2, <2>4
  <2>6. \A h \in freeGpu : n \in candidates[h] => h = g
    BY <2>2, <2>5 DEF J!Rivals
  <2> QED BY <2>4, <2>5, <2>6
<1>3. \A g \in paired : g \in matched /\ J!OneToOne(candidates, g)
  OBVIOUS
<1>4. matched \subseteq freeGpu /\ \A g \in matched : candidates[g] \subseteq freeNpu
  OBVIOUS
<1>5. ASSUME NEW g \in paired
      PROVE  /\ Result(result(g), E) /\ result(g).gpu = {g} /\ result(g).npu = {other(g)}
             /\ RangeOf(result(g).events) = RangeOf(G[g]) \cup RangeOf(N[other(g)])
  <2>1. result(g) = J!Joined(g, G[g], other(g), N[other(g)], method, confidence)
    BY <1>3
  <2>2. g \in freeGpu /\ other(g) \in freeNpu
    BY <1>2, <1>3, <1>4
  <2> HIDE DEF result, other, candidates
  <2>3. Drawn(G[g], E) /\ Drawn(N[other(g)], E)
    BY <2>2 DEF Grouped
  <2>4. Pairs(J!Joined(g, G[g], other(g), N[other(g)], method, confidence), g, G[g], other(g),
              N[other(g)], E)
    BY <2>3, JoinedIs
  <2> QED BY <2>1, <2>4 DEF Pairs
<1>6. ASSUME NEW g \in matched \ paired
      PROVE  /\ Result(result(g), E) /\ result(g).gpu = {g} /\ result(g).confidence = 0
             /\ RangeOf(result(g).events) = RangeOf(G[g])
  <2>1. result(g) = J!Unjoined(G[g][1].request, {g}, candidates[g], method, "ambiguous", G[g])
    OBVIOUS
  <2>2. Drawn(G[g], E)
    BY <1>4 DEF Grouped
  <2> HIDE DEF result, candidates
  <2> QED BY <2>1, <2>2, UnjoinedIs DEF Leaves
<1>7. UNION {candidates[g] : g \in paired} = {other(g) : g \in paired}
  <2> HIDE DEF candidates, other, paired
  <2> QED BY <1>2
<1>8. paired \subseteq matched
  OBVIOUS
<1> HIDE DEF after, freeGpu, freeNpu, candidates, matched, other, result, paired
<1>9. after.usedGpu \subseteq DOMAIN G /\ after.usedNpu \subseteq DOMAIN N
  BY <1>1, <1>2, <1>4, <1>7 DEF Progress, freeGpu, freeNpu
<1>10. \A r \in after.results : Result(r, E)
  BY <1>1, <1>5, <1>6 DEF Progress
<1>11. \A g \in after.usedGpu : \E r \in after.results :
          g \in r.gpu /\ RangeOf(G[g]) \subseteq RangeOf(r.events)
  <2> SUFFICES ASSUME NEW g \in after.usedGpu
               PROVE  \E r \in after.results :
                         g \in r.gpu /\ RangeOf(G[g]) \subseteq RangeOf(r.events)
    OBVIOUS
  <2>1. CASE g \in done.usedGpu
    BY <1>1, <2>1 DEF Progress
  <2>2. CASE g \in matched
    <3>1. result(g) \in after.results
      BY <1>1, <2>2
    <3>2. g \in result(g).gpu /\ RangeOf(G[g]) \subseteq RangeOf(result(g).events)
      BY <1>5, <1>6, <2>2
    <3> QED BY <3>1, <3>2
  <2> QED BY <1>1, <2>1, <2>2
<1>12. \A n \in after.usedNpu : \E r \in after.results :
          n \in r.npu /\ RangeOf(N[n]) \subseteq RangeOf(r.events)
  <2> SUFFICES ASSUME NEW n \in after.usedNpu
               PROVE  \E r \in after.results :
                         n \in r.npu /\ RangeOf(N[n]) \subseteq RangeOf(r.events)
    OBVIOUS
  <2>1. CASE n \in done.usedNpu
    BY <1>1, <2>1 DEF Progress
  <2>2. CASE \E g \in paired : n = other(g)
    <3>1. PICK g \in paired : n = other(g)
      BY <2>2
    <3>2. result(g) \in after.results
      BY <1>1, <1>8
    <3> QED BY <1>5, <3>1, <3>2
  <2> QED BY <1>1, <1>7, <2>1, <2>2
<1>13. \A r \in Confident(after.results) :
          r \in Confident(done.results) \/ \E g \in paired : r = result(g)
  <2>1. ~(0 > 0)
    OBVIOUS
  <2> QED BY <1>1, <1>6, <2>1 DEF Confident
<1>14. \A r \in Confident(after.results) : r.gpu \subseteq after.usedGpu /\ r.npu \subseteq after.usedNpu
  BY <1>1, <1>5, <1>7, <1>8, <1>13 DEF Progress
<1>15. ASSUME NEW r \in Confident(after.results), NEW s \in Confident(after.results),
              r.gpu \cap s.gpu # {} \/ r.npu \cap s.npu # {}
       PROVE  r = s
  <2>1. \A t \in Confident(done.results) :
           t.gpu \cap freeGpu = {} /\ t.npu \cap freeNpu = {}
    BY DEF Progress, freeGpu, freeNpu
  <2>2. \A g \in paired : result(g).gpu \subseteq freeGpu /\ result(g).npu \subseteq freeNpu
    BY <1>2, <1>4, <1>5, <1>8
  <2>3. \A t \in Confident(done.results), g \in paired :
           t.gpu \cap result(g).gpu = {} /\ t.npu \cap result(g).npu = {}
    BY <2>1, <2>2
  <2>4. \A g, h \in paired :
           result(g).gpu \cap result(h).gpu # {} \/ result(g).npu \cap result(h).npu # {} => g = h
    <3> SUFFICES ASSUME NEW g \in paired, NEW h \in paired, g = h \/ other(g) = other(h)
                 PROVE  g = h
      BY <1>5
    <3>1. h \in freeGpu /\ other(h) \in candidates[h]
      BY <1>2, <1>4, <1>8
    <3> QED BY <1>2, <3>1
  <2>5. CASE r \in Confident(done.results) /\ s \in Confident(done.results)
    BY <1>15, <2>5 DEF Progress
  <2>6. CASE r \in Confident(done.results) /\ \E g \in paired : s = result(g)
    BY <1>15, <2>3, <2>6
  <2>7. CASE s \in Confident(done.results) /\ \E g \in paired : r = result(g)
    BY <1>15, <2>3, <2>7
  <2>8. CASE (\E g \in paired : r = result(g)) /\ (\E h \in paired : s = result(h))
    BY <1>15, <2>4, <2>8
  <2> QED BY <1>13, <2>5, <2>6, <2>7, <2>8
<1> QED BY <1>9, <1>10, <1>11, <1>12, <1>14, <1>15 DEF Progress, after

\* The whole join: every group is in a result with its rows, and joined to one
\* group at most.
LEMMA JoinGroupsIs ==
    ASSUME NEW E, OnClock(E), NEW G, Grouped(G, E), NEW N, Grouped(N, E),
           IsFiniteSet(DOMAIN N)
    PROVE  LET results == J!JoinGroups(G, N)
           IN  /\ \A r \in results : Result(r, E)
               /\ \A g \in DOMAIN G : \E r \in results :
                     g \in r.gpu /\ RangeOf(G[g]) \subseteq RangeOf(r.events)
               /\ \A n \in DOMAIN N : \E r \in results :
                     n \in r.npu /\ RangeOf(N[n]) \subseteq RangeOf(r.events)
               /\ \A r, s \in Confident(results) :
                     r.gpu \cap s.gpu # {} \/ r.npu \cap s.npu # {} => r = s
<1> DEFINE named == J!JoinByRequest(G, N)
           transferred == J!JoinBy(named, G, N, "transfer_id", 9)
           done == J!JoinBy(transferred, G, N, "correlation_id", 8)
           results == J!JoinGroups(G, N)
           gpuLeft == {J!Unjoined(G[g][1].request, {g}, {}, "none", "not_joined", G[g]) :
                         g \in DOMAIN G \ done.usedGpu}
           npuLeft == {J!Unjoined(N[n][1].request, {}, {n}, "none", "not_joined", N[n]) :
                         n \in DOMAIN N \ done.usedNpu}
<1>1. results = done.results \cup gpuLeft \cup npuLeft
  BY DEF J!JoinGroups, J!WithUnjoined
<1>2. Progress(done, G, N, E)
  <2>1. Progress(named, G, N, E)
    BY NamedProgress
  <2> HIDE DEF named
  <2>2. Progress(transferred, G, N, E)
    BY <2>1, JoinProgress
  <2> HIDE DEF transferred
  <2> QED BY <2>2, JoinProgress
<1> HIDE DEF done, results
<1>3. ASSUME NEW g \in DOMAIN G \ done.usedGpu
      PROVE  Leaves(J!Unjoined(G[g][1].request, {g}, {}, "none", "not_joined", G[g]),
                    {g}, {}, G[g], E)
  <2>1. Drawn(G[g], E)
    BY DEF Grouped
  <2> QED BY <2>1, UnjoinedIs
<1>4. ASSUME NEW n \in DOMAIN N \ done.usedNpu
      PROVE  Leaves(J!Unjoined(N[n][1].request, {}, {n}, "none", "not_joined", N[n]),
                    {}, {n}, N[n], E)
  <2>1. Drawn(N[n], E)
    BY DEF Grouped
  <2> QED BY <2>1, UnjoinedIs
<1>5. \A r \in gpuLeft \cup npuLeft : Result(r, E) /\ r.confidence = 0
  <2>1. \A r \in gpuLeft : Result(r, E) /\ r.confidence = 0
    BY <1>3 DEF Leaves
  <2>2. \A r \in npuLeft : Result(r, E) /\ r.confidence = 0
    BY <1>4 DEF Leaves
  <2> HIDE DEF gpuLeft, npuLeft
  <2> QED BY <2>1, <2>2
<1>6. \A g \in DOMAIN G \ done.usedGpu : \E r \in gpuLeft : g \in r.gpu /\ r.events = G[g]
  BY <1>3 DEF Leaves
<1>7. \A n \in DOMAIN N \ done.usedNpu : \E r \in npuLeft : n \in r.npu /\ r.events = N[n]
  BY <1>4 DEF Leaves
<1> HIDE DEF gpuLeft, npuLeft
<1>8. \A r \in results : Result(r, E)
  BY <1>1, <1>2, <1>5 DEF Progress
<1>9. \A g \in DOMAIN G : \E r \in results :
         g \in r.gpu /\ RangeOf(G[g]) \subseteq RangeOf(r.events)
  BY <1>1, <1>2, <1>6 DEF Progress
<1>10. \A n \in DOMAIN N : \E r \in results :
         n \in r.npu /\ RangeOf(N[n]) \subseteq RangeOf(r.events)
  BY <1>1, <1>2, <1>7 DEF Progress
<1>11. Confident(results) = Confident(done.results)
  <2>1. ~(0 > 0)
    OBVIOUS
  <2> QED BY <1>1, <1>5, <2>1 DEF Confident
<1>12. \A r, s \in Confident(results) :
          r.gpu \cap s.gpu # {} \/ r.npu \cap s.npu # {} => r = s
  BY <1>2, <1>11 DEF Progress
<1> QED BY <1>8, <1>9, <1>10, <1>12 DEF results

LEMMA GroupsIs ==
    ASSUME NEW E, NEW events, Drawn(events, E)
    PROVE  LET G == J!Groups(events)
           IN  /\ IsFiniteSet(DOMAIN G) /\ Grouped(G, E)
               /\ \A e \in RangeOf(events) :
                     J!GroupKey(e) \in DOMAIN G /\ e \in RangeOf(G[J!GroupKey(e)])
<1> DEFINE G == J!Groups(events)
           at(key) == {i \in DOMAIN events : J!GroupKey(events[i]) = key}
           keyAt(i) == J!GroupKey(events[i])
<1>1. Len(events) \in Nat /\ DOMAIN events = 1..Len(events)
      /\ \A i \in DOMAIN events : events[i] \in E /\ events[i] \in RangeOf(events)
  BY DEF Drawn, RangeOf
<1>2. G = [key \in {keyAt(i) : i \in DOMAIN events} |-> J!RowsAt(events, at(key))]
  BY DEF J!Groups
<1> HIDE DEF G
<1>3. IsFiniteSet(DOMAIN G)
  <2>1. DOMAIN G = {keyAt(i) : i \in 1..Len(events)}
    BY <1>1, <1>2
  <2>2. IsFiniteSet(1..Len(events))
    BY <1>1, FS_Interval
  <2> DEFINE f == [i \in 1..Len(events) |-> keyAt(i)]
  <2>3. f \in Surjection(1..Len(events), {keyAt(i) : i \in 1..Len(events)})
    BY DEF Surjection
  <2> HIDE DEF f
  <2> QED BY <2>1, <2>2, <2>3, FS_Surjection
<1>4. \A key : /\ at(key) \in SUBSET (1..Len(events))
               /\ {events[i] : i \in at(key)} \subseteq E
  BY <1>1
<1> HIDE DEF at
<1>5. \A key \in DOMAIN G :
         G[key] \in Seq({events[i] : i \in at(key)}) /\ RangeOf(G[key]) = {events[i] : i \in at(key)}
  <2>1. \A key \in DOMAIN G : G[key] = J!RowsAt(events, at(key))
    BY <1>2
  <2> QED BY <1>1, <1>4, <2>1, RowsAtPlaces
<1>6. Grouped(G, E)
  <2> SUFFICES ASSUME NEW key \in DOMAIN G PROVE G[key] \in Seq(E)
    BY DEF Grouped, Drawn
  <2>1. G[key] \in Seq({events[i] : i \in at(key)}) /\ {events[i] : i \in at(key)} \subseteq E
    BY <1>4, <1>5
  <2> DEFINE T == {events[i] : i \in at(key)}
  <2> HIDE DEF T
  <2>2. G[key] \in Seq(T) /\ T \subseteq E
    BY <2>1 DEF T
  <2> QED BY <2>2
<1>7. \A e \in RangeOf(events) : J!GroupKey(e) \in DOMAIN G /\ e \in RangeOf(G[J!GroupKey(e)])
  <2> SUFFICES ASSUME NEW i \in DOMAIN events
               PROVE  keyAt(i) \in DOMAIN G /\ events[i] \in RangeOf(G[keyAt(i)])
    BY DEF RangeOf
  <2>1. keyAt(i) \in DOMAIN G
    BY <1>2
  <2>2. i \in at(keyAt(i))
    BY DEF at
  <2> QED BY <1>5, <2>1, <2>2
<1> QED BY <1>3, <1>6, <1>7 DEF G

\* Every event is in a result, under the key of its group; results that join two
\* groups share neither.
LEMMA JoinIs ==
    ASSUME NEW E, OnClock(E), NEW a, Drawn(a, E), NEW b, Drawn(b, E)
    PROVE  LET results == J!JoinRequests(a, b)
           IN  /\ \A r \in results : Result(r, E)
               /\ \A e \in RangeOf(a) : \E r \in results :
                     J!GroupKey(e) \in r.gpu /\ e \in RangeOf(r.events)
               /\ \A e \in RangeOf(b) : \E r \in results :
                     J!GroupKey(e) \in r.npu /\ e \in RangeOf(r.events)
               /\ \A r, s \in Confident(results) :
                     r.gpu \cap s.gpu # {} \/ r.npu \cap s.npu # {} => r = s
<1> DEFINE G == J!Groups(a)
           N == J!Groups(b)
           results == J!JoinGroups(G, N)
<1>1. /\ Grouped(G, E)
      /\ \A e \in RangeOf(a) : J!GroupKey(e) \in DOMAIN G /\ e \in RangeOf(G[J!GroupKey(e)])
  BY GroupsIs
<1>2. /\ IsFiniteSet(DOMAIN N) /\ Grouped(N, E)
      /\ \A e \in RangeOf(b) : J!GroupKey(e) \in DOMAIN N /\ e \in RangeOf(N[J!GroupKey(e)])
  BY GroupsIs
<1>3. J!JoinRequests(a, b) = results
  BY DEF J!JoinRequests
<1> HIDE DEF G, N
<1>4. /\ \A r \in results : Result(r, E)
      /\ \A g \in DOMAIN G : \E r \in results :
            g \in r.gpu /\ RangeOf(G[g]) \subseteq RangeOf(r.events)
      /\ \A n \in DOMAIN N : \E r \in results :
            n \in r.npu /\ RangeOf(N[n]) \subseteq RangeOf(r.events)
      /\ \A r, s \in Confident(results) :
            r.gpu \cap s.gpu # {} \/ r.npu \cap s.npu # {} => r = s
  BY <1>1, <1>2, JoinGroupsIs
<1> HIDE DEF results
<1>5. \A e \in RangeOf(a) : \E r \in results : J!GroupKey(e) \in r.gpu /\ e \in RangeOf(r.events)
  BY <1>1, <1>4
<1>6. \A e \in RangeOf(b) : \E r \in results : J!GroupKey(e) \in r.npu /\ e \in RangeOf(r.events)
  BY <1>2, <1>4
<1> QED BY <1>3, <1>4, <1>5, <1>6

-----------------------------------------------------------------------------
(* The alignment *)

\* A record of the source on the canonical clock, and a stream of them.
Aligned(e, original, role, offset, uncertainty) ==
    /\ e.id = <<role, original.id>> /\ e.ts = original.ts + offset /\ e.clock = Canonical
    /\ e.uncertainty = uncertainty /\ e.request = original.request

AlignedStream(stream, source, role, offset, uncertainty, usable) ==
    /\ stream \in Seq(RangeOf(stream)) /\ DOMAIN stream = DOMAIN source.events
    /\ \A i \in DOMAIN source.events :
          /\ Aligned(stream[i], source.events[i], role, offset, uncertainty)
          /\ \E c \in RecordClocks(source) : source.events[i].clock = c.id
          /\ source.events[i].ts \in Int
          /\ usable

LEMMA AlignmentIs ==
    ASSUME NEW source, source.events \in Seq(RangeOf(source.events)),
           \A e \in RangeOf(source.events) : TypedEvent(e),
           NEW role, NEW offset, NEW uncertainty, NEW method, NEW usable,
           NEW stream, stream # Refused,
           stream = C!AlignEventStream(source.events, role,
                        TimestampTransforms(source, offset, uncertainty, method, usable))
    PROVE  AlignedStream(stream, source, role, offset, uncertainty, usable)
<1> DEFINE events == source.events
           ways == TimestampTransforms(source, offset, uncertainty, method, usable)
           keys == [i \in DOMAIN events |-> C!EventKey(events[i])]
           ok(r) == /\ r.clock \in DOMAIN ways
                    /\ C!AlignTimestamp(r.ts, r.clock, ways[r.clock]) # Refused
<1>1. /\ stream = [i \in DOMAIN events |-> C!AlignRecord(events[i], role, ways[events[i].clock])]
      /\ \A i \in DOMAIN events : ok(events[i])
  <2>1. stream = IF (\A i \in DOMAIN events : ok(events[i])) /\ C!StreamsAdvance(events, keys)
                   THEN [i \in DOMAIN events |->
                           C!AlignRecord(events[i], role, ways[events[i].clock])]
                   ELSE Refused
    BY DEF C!AlignEventStream, C!AlignStream
  <2> HIDE DEF ok, ways, keys
  <2> QED BY <2>1
<1>2. DOMAIN ways = {c.id : c \in RecordClocks(source)}
      /\ \A clock \in DOMAIN ways :
            /\ ways[clock].offset = offset /\ ways[clock].uncertainty = uncertainty
            /\ ways[clock].target = Canonical /\ ways[clock].available = usable
  BY DEF TimestampTransforms
<1>3. Len(events) \in Nat /\ DOMAIN events = 1..Len(events)
      /\ \A i \in DOMAIN events : TypedEvent(events[i])
  BY DEF RangeOf
<1> HIDE DEF ways
<1>4. ASSUME NEW i \in DOMAIN events
      PROVE  /\ Aligned(stream[i], events[i], role, offset, uncertainty)
             /\ \E c \in RecordClocks(source) : events[i].clock = c.id
             /\ events[i].ts \in Int
             /\ usable
  <2> DEFINE e == events[i]
             way == ways[e.clock]
  <2>1. e.clock \in DOMAIN ways /\ C!AlignTimestamp(e.ts, e.clock, way) # Refused
    BY <1>1
  <2>2. way.available
    BY <2>1 DEF C!AlignTimestamp
  <2>3. TypedEvent(e)
    BY <1>3
  <2>4. stream[i] = C!AlignRecord(e, role, way)
    BY <1>1
  <2> HIDE DEF e, way
  <2>5. /\ way.offset = offset /\ way.uncertainty = uncertainty /\ way.target = Canonical
        /\ way.available = usable
    BY <1>2, <2>1 DEF way
  <2>6. Aligned(stream[i], e, role, offset, uncertainty)
    BY <2>3, <2>4, <2>5 DEF TypedEvent, C!AlignRecord, Aligned
  <2> QED BY <1>2, <2>1, <2>2, <2>3, <2>5, <2>6 DEF TypedEvent, e
<1>5. stream \in Seq(RangeOf(stream)) /\ DOMAIN stream = DOMAIN events
  <2>1. DOMAIN stream = 1..Len(events) /\ stream = [i \in 1..Len(events) |-> stream[i]]
    BY <1>1, <1>3
  <2>2. \A i \in 1..Len(events) : stream[i] \in RangeOf(stream)
    BY <2>1 DEF RangeOf
  <2> HIDE DEF events
  <2> QED BY <1>3, <2>1, <2>2
<1> QED BY <1>4, <1>5 DEF AlignedStream

-----------------------------------------------------------------------------
(* The durations *)

\* A metric of two rows is the time from one to the other; the two that count
\* bytes are not.
Counts == {"transfer.bytes", "transfer.effective_bandwidth"}
Spanned(m, rows) ==
    Cardinality(m.sources) = 2 /\ m.name \notin Counts =>
        \E start, end \in m.sources :
            start \in RangeOf(rows) /\ end \in RangeOf(rows) /\ m.value = end.ts - start.ts

\* A row that was found, and a value that is the time between two that were.
Found(row, rows) == row # None => row \in RangeOf(rows)
Between(value, start, end, rows) ==
    value # None =>
        start \in RangeOf(rows) /\ end \in RangeOf(rows) /\ value = end.ts - start.ts

LEMMA FirstRowIs ==
    ASSUME NEW rows, Timed(rows), NEW name
    PROVE  Found(FirstRow(rows, name), rows)
BY PlacesAre, FirstPlaceIs DEF FirstRow, Found

LEMMA RowByIdIs ==
    ASSUME NEW rows, Timed(rows), NEW name, NEW id
    PROVE  Found(RowById(rows, name, id), rows)
BY RowOfTransferIs DEF RowById, Found

LEMMA SpanIs ==
    ASSUME NEW rows, NEW start, NEW end, Found(start, rows), Found(end, rows)
    PROVE  Between(Span(start, end), start, end, rows)
BY DEF Found, Between, Span

LEMMA MetricIs ==
    ASSUME NEW rows, NEW value, NEW start, NEW end, Between(value, start, end, rows),
           NEW result, NEW name, NEW id
    PROVE  Spanned(Metric(result, name, id, value, {start, end}), rows)
<1> DEFINE m == Metric(result, name, id, value, {start, end})
<1>1. m.sources = (IF value = None THEN {} ELSE {start, end}) /\ m.value = value
  BY DEF Metric
<1> HIDE DEF m
<1>2. CASE value = None
  <2>1. Cardinality(m.sources) = 0
    BY <1>1, <1>2, FS_EmptySet
  <2> QED BY <2>1 DEF Spanned, m
<1>3. CASE value # None
  BY <1>1, <1>3 DEF Spanned, Between, m
<1> QED BY <1>2, <1>3

\* A value one row speaks for is no time between two.
LEMMA OneRowMetricIs ==
    ASSUME NEW rows, NEW value, NEW row, NEW result, NEW name, NEW id
    PROVE  Spanned(Metric(result, name, id, value, {row}), rows)
<1> DEFINE m == Metric(result, name, id, value, {row})
<1>1. m.sources = IF value = None THEN {} ELSE {row}
  BY DEF Metric
<1> HIDE DEF m
<1>2. Cardinality(m.sources) \in {0, 1}
  BY <1>1, FS_EmptySet, FS_Singleton
<1>3. Cardinality(m.sources) # 2
  BY <1>2
<1> QED BY <1>3 DEF Spanned, m

LEMMA PhaseMetricIs ==
    ASSUME NEW r, Timed(r.events), NEW stage, NEW accepted
    PROVE  Spanned(PhaseMetric(r, stage, accepted), r.events)
<1> DEFINE start == FirstRow(r.events, IF stage = "e2e" THEN "request_received"
                                       ELSE stage \o "_start")
           end == FirstRow(r.events, IF stage = "e2e" THEN "response_done"
                                     ELSE stage \o "_end")
           value == IF accepted THEN Span(start, end) ELSE None
<1>1. PhaseMetric(r, stage, accepted) = Metric(r, "latency." \o stage, None, value, {start, end})
  BY DEF PhaseMetric
<1>2. Found(start, r.events) /\ Found(end, r.events)
  BY FirstRowIs
<1> HIDE DEF start, end
<1>3. Between(value, start, end, r.events)
  BY <1>2, SpanIs DEF Between
<1> HIDE DEF value
<1> QED BY <1>1, <1>3, MetricIs

LEMMA TransferMetricsAre ==
    ASSUME NEW r, Timed(r.events), NEW accepted, NEW m \in TransferMetrics(r, accepted)
    PROVE  Spanned(m, r.events)
<1> DEFINE row(name) == FirstRow(r.events, name)
           start == row("kv_transfer_start")
           end == row("kv_transfer_end")
           duration == IF accepted THEN Span(start, end) ELSE None
           e2e == IF accepted THEN Span(row("request_received"), row("response_done")) ELSE None
           transform == IF accepted THEN Span(row("kv_transform_start"), row("kv_transform_end"))
                        ELSE None
           moved == IF duration # None /\ start.bytes # None /\ start.bytes = end.bytes
                      THEN start.bytes ELSE None
           bandwidth == IF moved # None /\ duration # 0 THEN moved ELSE None
           share == IF duration = None \/ e2e = None \/ e2e = 0 THEN None
                    ELSE IF duration > e2e THEN None ELSE duration
           metric(name, value) == Metric(r, name, None, value, {start, end})
           over(value, whole) == IF value = None THEN 1 ELSE whole
<1>1. \/ m = metric("transfer.bytes", moved)
      \/ m = metric("transfer.duration", duration)
      \/ m = [metric("transfer.effective_bandwidth", bandwidth)
                 EXCEPT !.over = over(bandwidth, duration)]
      \/ m = [metric("transfer.e2e_share", share) EXCEPT !.over = over(share, e2e)]
      \/ m = Metric(r, "transfer.transform_duration", None, transform,
                    {row("kv_transform_start"), row("kv_transform_end")})
  BY DEF TransferMetrics
<1>2. \A name : Found(row(name), r.events)
  BY FirstRowIs
<1> HIDE DEF row
<1>3. Between(duration, start, end, r.events)
      /\ Between(transform, row("kv_transform_start"), row("kv_transform_end"), r.events)
  BY <1>2, SpanIs DEF Between
<1>4. Between(share, start, end, r.events)
  BY <1>3 DEF Between
<1> HIDE DEF start, end, duration, transform, share, moved, bandwidth, e2e, over
<1>5. CASE m = metric("transfer.bytes", moved)
  BY <1>5 DEF Metric, Spanned, Counts
<1>6. CASE m = metric("transfer.duration", duration)
  BY <1>3, <1>6, MetricIs
<1>7. CASE m = [metric("transfer.effective_bandwidth", bandwidth)
                   EXCEPT !.over = over(bandwidth, duration)]
  BY <1>7 DEF Metric, Spanned, Counts
<1>8. CASE m = [metric("transfer.e2e_share", share) EXCEPT !.over = over(share, e2e)]
  <2>1. Spanned(metric("transfer.e2e_share", share), r.events)
    BY <1>4, MetricIs
  <2>2. /\ m.sources = metric("transfer.e2e_share", share).sources
        /\ m.value = metric("transfer.e2e_share", share).value
        /\ m.name = metric("transfer.e2e_share", share).name
    BY <1>8 DEF Metric
  <2> HIDE DEF metric
  <2> QED BY <2>1, <2>2 DEF Spanned
<1>9. CASE m = Metric(r, "transfer.transform_duration", None, transform,
                      {row("kv_transform_start"), row("kv_transform_end")})
  BY <1>3, <1>9, MetricIs
<1> QED BY <1>1, <1>5, <1>6, <1>7, <1>8, <1>9

LEMMA ObservabilityMetricsAre ==
    ASSUME NEW r, Timed(r.events), NEW accepted, NEW m \in ObservabilityMetrics(r, accepted)
    PROVE  Spanned(m, r.events)
<1> DEFINE start(stage, id) == RowById(r.events, stage \o "_start", id)
           end(stage, id) == RowById(r.events, stage \o "_end", id)
           value(stage, id, zero) ==
               ObservedValue(r, start(stage, id), end(stage, id), zero, accepted)
           sample(stage, id, zero) ==
               Metric(r, "observed." \o stage, id, value(stage, id, zero),
                      IF zero # None THEN {zero} ELSE {start(stage, id), end(stage, id)})
           done(id) == LET last == RowById(r.events, "kv_transfer_end", id)
                       IN  IF last = None THEN None
                           ELSE IF last.observed = "done_on_first_poll" THEN last ELSE None
           one(ids) == IF Cardinality(ids) = 1 THEN CHOOSE id \in ids : TRUE ELSE None
           setups == IdsOf(r.events, "kv_transfer_setup")
           single == {sample(stage, one(IdsOf(r.events, stage)), None) :
                        stage \in {"kv_handoff", "decode_schedule_wait", "kv_device_sync"}}
           setUp == {sample("kv_transfer_setup", id, None) : id \in OrNone(setups)}
           waited == {sample("kv_transfer_wait", id, done(id)) :
                        id \in OrNone(setups \cup IdsOf(r.events, "kv_transfer_wait"))}
<1>1. \E stage, id, zero : m = sample(stage, id, zero)
  <2>1. m \in single \cup setUp \cup waited
    BY Counting DEF ObservabilityMetrics
  <2> HIDE DEF sample, done, one, setups
  <2>2. CASE m \in single
    BY <2>2
  <2>3. CASE m \in setUp
    BY <2>3
  <2>4. CASE m \in waited
    BY <2>4
  <2> HIDE DEF single, setUp, waited
  <2> QED BY <2>1, <2>2, <2>3, <2>4
<1> HIDE DEF single, setUp, waited, done, one, setups
<1>2. PICK stage, id, zero : m = sample(stage, id, zero)
  BY <1>1
<1>3. Found(start(stage, id), r.events) /\ Found(end(stage, id), r.events)
  BY RowByIdIs
<1> HIDE DEF start, end
<1>4. Between(Span(start(stage, id), end(stage, id)), start(stage, id), end(stage, id), r.events)
  BY <1>3, SpanIs
<1>5. CASE zero # None
  <2>1. m = Metric(r, "observed." \o stage, id, value(stage, id, zero), {zero})
    BY <1>2, <1>5
  <2> HIDE DEF value, sample
  <2> QED BY <2>1, OneRowMetricIs
<1>6. CASE zero = None
  <2>1. m = Metric(r, "observed." \o stage, id, value(stage, id, zero),
                   {start(stage, id), end(stage, id)})
    BY <1>2, <1>6
  <2>2. value(stage, id, zero) \in {None, Span(start(stage, id), end(stage, id))}
    BY <1>6 DEF ObservedValue
  <2> HIDE DEF value, sample
  <2>3. Between(value(stage, id, zero), start(stage, id), end(stage, id), r.events)
    BY <1>4, <2>2 DEF Between
  <2> QED BY <2>1, <2>3, MetricIs
<1> QED BY <1>5, <1>6

LEMMA MetricsAre ==
    ASSUME NEW results, \A r \in results : Timed(r.events), NEW accepted,
           NEW m \in HybridMetrics(results, accepted)
    PROVE  \E r \in results : Spanned(m, r.events)
<1>1. PICK r \in results :
          m \in {PhaseMetric(r, stage, accepted) : stage \in PhaseStages \cup {"e2e"}}
                \cup TransferMetrics(r, accepted) \cup ObservabilityMetrics(r, accepted)
  BY DEF HybridMetrics, JoinedResults
<1>2. CASE m \in {PhaseMetric(r, stage, accepted) : stage \in PhaseStages \cup {"e2e"}}
  BY <1>2, PhaseMetricIs
<1>3. CASE m \in TransferMetrics(r, accepted)
  BY <1>3, TransferMetricsAre
<1>4. CASE m \in ObservabilityMetrics(r, accepted)
  BY <1>4, ObservabilityMetricsAre
<1> QED BY <1>1, <1>2, <1>3, <1>4

-----------------------------------------------------------------------------
(* The invariant *)

\* The samples are what the probes of this clock may return.
Probed ==
    /\ scenario \in Scenarios
    /\ outcomes \in Seq(ProbeOutcomes(scenario.ahead) \cup {Refused})
    /\ phase \in {"probe", "align"} => SourcesMerge

\* Nothing is joined before the streams are aligned.
Unjoined ==
    phase \in {"load", "probe", "align"} =>
        joins = {} /\ derived = {} /\ aligned = {} /\ status = None

\* The estimate is one, and one that can be used is honest.
Estimated ==
    /\ estimate.offset \in Int /\ estimate.uncertainty \in Nat
    /\ phase = "load" => estimate = C!SameClock
    /\ phase = "align" /\ available => Honest(estimate, scenario.ahead)

\* An aligned event is off by what the estimate of its clock is off.
Sound(e) ==
    /\ e.ts \in Int
    /\ \/ e.id[1] = "gpu" /\ e.uncertainty = 0
       \/ /\ e.id[1] = "npu" /\ e.uncertainty = estimate.uncertainty
          /\ Honest(estimate, scenario.ahead)

JoinIsSound(r) ==
    /\ Timed(r.events)
    /\ \A e \in RangeOf(r.events) : Sound(e)
    /\ OfRows(r.events, r.ordering)
    /\ r.status = "joined" => J!ValidateMarkerOrder(r.events).status = "valid"
JoinsAreSound == \A r \in joins : JoinIsSound(r)
DerivedAreSpans == \A m \in derived : \E r \in joins : Spanned(m, r.events)
SuccessIsWhole ==
    status = "succeeded" =>
        /\ ~scenario.torn /\ {gpu.status, npu.status} \cap {"failed", "partial"} = {}
        /\ estimate.uncertainty <= MaxUncertainty
        /\ \A r \in joins : r.status = "joined"
        /\ \A e \in aligned : \E r \in joins : \E f \in RangeOf(r.events) : f.id = e.id
AlignedAreTraced == \A e \in aligned : e.clock = Canonical /\ TracedBack(e)
Work == JoinsAreSound /\ DerivedAreSpans /\ JoinsArePairs /\ SuccessIsWhole /\ AlignedAreTraced

\* The files of each phase, and those a manifest speaks for.
Described == {"sources", "alignment", "summary"}
Filed ==
    /\ phase \in {"align_file", "summarise", "validate", "write"} => "sources" \in files
    /\ phase \in {"summarise", "validate", "write"} => "alignment" \in files
    /\ phase \in {"validate", "write"} => "summary" \in files /\ summary = status
    /\ phase = "write" => HybridRecordsValid
    /\ "manifest" \in files =>
          /\ phase = "returned" /\ summary = status /\ HybridRecordsValid
          /\ RangeOf(RecordFiles) \cup Described \subseteq files

Inv == TypeOK /\ Probed /\ Unjoined /\ Estimated /\ Work /\ Filed

-----------------------------------------------------------------------------
(* What the invariant says of true times *)

LEMMA TimesAre ==
    ASSUME Estimated, scenario.ahead \in Int, NEW a, Sound(a), NEW b, Sound(b)
    PROVE  /\ (TrueTime(b) - TrueTime(a)) - (b.ts - a.ts) <= estimate.uncertainty + Rounding
           /\ (b.ts - a.ts) - (TrueTime(b) - TrueTime(a)) <= estimate.uncertainty + Rounding
           /\ a.ts - b.ts > a.uncertainty + b.uncertainty => TrueTime(a) >= TrueTime(b)
           /\ TrueTime(a) \in Int /\ TrueTime(b) \in Int
<1> DEFINE drift == estimate.offset - scenario.ahead
<1>1. /\ a.ts \in Int /\ b.ts \in Int /\ drift \in Int /\ estimate.uncertainty \in Nat
      /\ Rounding = 1
  BY DEF Sound, Estimated, Rounding
<1>2. ASSUME Honest(estimate, scenario.ahead)
      PROVE  drift <= estimate.uncertainty /\ -drift <= estimate.uncertainty + 1
  BY <1>2, <1>1 DEF Honest, Estimated, Rounding
<1>3. \A e : /\ e.id[1] = "gpu" => TrueTime(e) = e.ts
             /\ e.id[1] = "npu" /\ e.ts \in Int => TrueTime(e) = e.ts + drift
  BY DEF TrueTime, Estimated
<1> HIDE DEF drift
<1>4. CASE a.id[1] = "gpu" /\ b.id[1] = "gpu"
  <2>1. TrueTime(a) = a.ts /\ TrueTime(b) = b.ts /\ a.uncertainty = 0 /\ b.uncertainty = 0
    BY <1>3, <1>4 DEF Sound
  <2> QED BY <1>1, <2>1
<1>5. CASE a.id[1] = "npu" /\ b.id[1] = "gpu"
  <2>1. /\ TrueTime(a) = a.ts + drift /\ TrueTime(b) = b.ts
        /\ a.uncertainty = estimate.uncertainty /\ b.uncertainty = 0
        /\ Honest(estimate, scenario.ahead)
    BY <1>1, <1>3, <1>5 DEF Sound
  <2> QED BY <1>1, <1>2, <2>1
<1>6. CASE a.id[1] = "gpu" /\ b.id[1] = "npu"
  <2>1. /\ TrueTime(a) = a.ts /\ TrueTime(b) = b.ts + drift
        /\ a.uncertainty = 0 /\ b.uncertainty = estimate.uncertainty
        /\ Honest(estimate, scenario.ahead)
    BY <1>1, <1>3, <1>6 DEF Sound
  <2> QED BY <1>1, <1>2, <2>1
<1>7. CASE a.id[1] = "npu" /\ b.id[1] = "npu"
  <2>1. /\ TrueTime(a) = a.ts + drift /\ TrueTime(b) = b.ts + drift
        /\ a.uncertainty = estimate.uncertainty /\ b.uncertainty = estimate.uncertainty
    BY <1>1, <1>3, <1>7 DEF Sound
  <2> QED BY <1>1, <2>1
<1> QED BY <1>4, <1>5, <1>6, <1>7 DEF Sound

LEMMA AheadIs == ASSUME Probed PROVE scenario.ahead \in Int
BY MergeAssumption DEF Probed

LEMMA DefiniteFollows == ASSUME Inv PROVE DefiniteIsTrue
<1> SUFFICES ASSUME NEW r \in joins, NEW issue \in r.ordering, issue.definite
             PROVE  \E before, after \in RangeOf(r.events) :
                        /\ issue.before = before.id /\ issue.after = after.id
                        /\ TrueTime(before) >= TrueTime(after)
  BY DEF DefiniteIsTrue
<1>1. /\ OfRows(r.events, r.ordering) /\ \A e \in RangeOf(r.events) : Sound(e)
      /\ Estimated /\ scenario.ahead \in Int
  BY AheadIs DEF Inv, Work, JoinsAreSound, JoinIsSound
<1>2. PICK before \in RangeOf(r.events), after \in RangeOf(r.events) :
          issue \in J!OrderingIssue(before, after)
  BY <1>1 DEF OfRows
<1>3. /\ issue.before = before.id /\ issue.after = after.id
      /\ before.ts - after.ts > before.uncertainty + after.uncertainty
  <2> DEFINE far == before.ts - after.ts > before.uncertainty + after.uncertainty
  <2>1. issue = [before |-> before.id, after |-> after.id, definite |-> far]
    BY <1>2 DEF J!OrderingIssue
  <2> HIDE DEF far
  <2>2. issue.before = before.id /\ issue.after = after.id /\ issue.definite = far
    BY <2>1
  <2>3. far
    BY <2>2, Zenon
  <2> QED BY <2>2, <2>3 DEF far
<1>4. TrueTime(before) >= TrueTime(after)
  BY <1>1, <1>3, TimesAre
<1> QED BY <1>3, <1>4

LEMMA DurationsFollow == ASSUME Inv PROVE DurationsAreHonest
<1> SUFFICES ASSUME NEW m \in derived, Cardinality(m.sources) = 2, m.name \notin Counts
             PROVE  \E start, end \in m.sources :
                        /\ end.ts - start.ts = m.value
                        /\ C!Abs((TrueTime(end) - TrueTime(start)) - m.value)
                             <= estimate.uncertainty + Rounding
  BY DEF DurationsAreHonest, Counts
<1>1. PICK r \in joins : Spanned(m, r.events)
  BY DEF Inv, Work, DerivedAreSpans
<1>2. PICK start \in m.sources, end \in m.sources :
          start \in RangeOf(r.events) /\ end \in RangeOf(r.events) /\ m.value = end.ts - start.ts
  BY <1>1 DEF Spanned
<1>3. Sound(start) /\ Sound(end) /\ Estimated /\ scenario.ahead \in Int
  BY <1>2, AheadIs DEF Inv, Work, JoinsAreSound, JoinIsSound
<1>4. /\ (TrueTime(end) - TrueTime(start)) - (end.ts - start.ts) <= estimate.uncertainty + Rounding
      /\ (end.ts - start.ts) - (TrueTime(end) - TrueTime(start)) <= estimate.uncertainty + Rounding
      /\ TrueTime(end) \in Int /\ TrueTime(start) \in Int
  BY <1>3, TimesAre
<1>5. end.ts \in Int /\ start.ts \in Int /\ estimate.uncertainty \in Nat /\ Rounding = 1
  BY <1>3 DEF Sound, Estimated, Rounding
<1>6. C!Abs((TrueTime(end) - TrueTime(start)) - (end.ts - start.ts)) <= estimate.uncertainty + Rounding
  BY <1>4, <1>5 DEF C!Abs
<1> QED BY <1>2, <1>6

LEMMA SuccessFollows == ASSUME Inv PROVE SuccessIsTrue
<1> SUFFICES ASSUME status = "succeeded"
             PROVE  /\ ~scenario.torn
                    /\ {gpu.status, npu.status} \cap {"failed", "partial"} = {}
                    /\ \A e \in aligned : \E r \in joins :
                          r.status = "joined" /\ \E f \in RangeOf(r.events) : f.id = e.id
                    /\ \A r \in joins, name \in J!MarkerNames : J!Places(r.events, name) # {}
                    /\ \A r \in joins : \A k \in 1..Len(J!MARKER_ORDER) - 1 :
                          TrueTime(J!Representative(r.events, J!MARKER_ORDER[k]))
                            - TrueTime(J!Representative(r.events, J!MARKER_ORDER[k + 1]))
                              <= MaxUncertainty + Rounding
  BY DEF SuccessIsTrue
<1>1. /\ ~scenario.torn /\ {gpu.status, npu.status} \cap {"failed", "partial"} = {}
      /\ estimate.uncertainty <= MaxUncertainty
      /\ \A r \in joins : r.status = "joined"
      /\ \A e \in aligned : \E r \in joins : \E f \in RangeOf(r.events) : f.id = e.id
  BY DEF Inv, Work, SuccessIsWhole
<1>2. \A r \in joins : /\ Timed(r.events) /\ \A e \in RangeOf(r.events) : Sound(e)
                       /\ J!ValidateMarkerOrder(r.events).status = "valid"
  BY <1>1 DEF Inv, Work, JoinsAreSound, JoinIsSound
<1>3. \A r \in joins, name \in J!MarkerNames : J!Places(r.events, name) # {}
  BY <1>2, MarkerOrderIs
<1>4. ASSUME NEW r \in joins, NEW k \in 1..Len(J!MARKER_ORDER) - 1
      PROVE  TrueTime(J!Representative(r.events, J!MARKER_ORDER[k]))
               - TrueTime(J!Representative(r.events, J!MARKER_ORDER[k + 1]))
                 <= MaxUncertainty + Rounding
  <2> DEFINE rows == r.events
             a == J!Representative(rows, J!MARKER_ORDER[k])
             b == J!Representative(rows, J!MARKER_ORDER[k + 1])
  <2>1. Timed(rows) /\ J!ValidateMarkerOrder(rows).status = "valid"
    BY <1>2
  <2> HIDE DEF rows
  <2>2. a \in RangeOf(rows) /\ b \in RangeOf(rows) /\ a.ts <= b.ts
    BY <2>1, ValidIsInOrder
  <2> HIDE DEF a, b
  <2>3. Sound(a) /\ Sound(b) /\ Estimated /\ scenario.ahead \in Int
    BY <1>2, <2>2, AheadIs DEF Inv, rows
  <2>4. /\ (b.ts - a.ts) - (TrueTime(b) - TrueTime(a)) <= estimate.uncertainty + Rounding
        /\ TrueTime(a) \in Int /\ TrueTime(b) \in Int
    BY <2>3, TimesAre
  <2>5. a.ts \in Int /\ b.ts \in Int /\ estimate.uncertainty \in Nat /\ Rounding = 1
    BY <2>3 DEF Sound, Estimated, Rounding
  <2>6. TrueTime(a) - TrueTime(b) <= MaxUncertainty + Rounding
    BY <1>1, <2>2, <2>4, <2>5, MergeAssumption
  <2> QED BY <2>6 DEF a, b, rows
<1> QED BY <1>1, <1>3, <1>4

LEMMA ManifestFollows == ASSUME Inv PROVE ManifestIsBacked
BY DEF Inv, Filed, Work, AlignedAreTraced, HybridRecordsValid, ManifestIsBacked,
   Described,
       Running

-----------------------------------------------------------------------------
(* The steps *)

kept == <<scenario, estimate, aligned, joins, derived, status>>

LEMMA NothingJoined ==
    /\ joins = {} /\ derived = {} /\ aligned = {} /\ status # "succeeded" => Work
    /\ joins' = {} /\ derived' = {} /\ aligned' = {} /\ status' # "succeeded" => Work'
BY DEF Work, JoinsAreSound, DerivedAreSpans, JoinsArePairs, SuccessIsWhole,
   AlignedAreTraced

LEMMA StillWork == ASSUME Work, UNCHANGED kept PROVE Work'
<1> USE DEF kept, gpu, npu
<1>1. JoinsAreSound'
  BY DEF Work, JoinsAreSound, JoinIsSound, Sound, Honest, OfRows
<1>2. DerivedAreSpans'
  BY DEF Work, DerivedAreSpans
<1>3. JoinsArePairs'
  BY DEF Work, JoinsArePairs
<1>4. SuccessIsWhole'
  BY DEF Work, SuccessIsWhole
<1>5. AlignedAreTraced'
  <2>1. ClockTransforms' = ClockTransforms /\ ClockDomains' = ClockDomains
    BY DEF ClockTransforms, ClockDomains, RecordClocks
  <2>2. \A e : TracedBack(e)' <=> TracedBack(e)
    BY <2>1 DEF TracedBack
  <2> QED BY <2>2 DEF Work, AlignedAreTraced
<1> QED BY <1>1, <1>2, <1>3, <1>4, <1>5 DEF Work

LEMMA InitInv == Init => Inv
<1> SUFFICES ASSUME Init PROVE Inv
  OBVIOUS
<1> USE DEF Init
<1>1. TypeOK
  <2>1. Len(<<>>) = 0 /\ 0 <= ProbeCount
    BY MergeAssumption
  <2>2. Len(outcomes) <= ProbeCount
    BY <2>1
  <2> QED BY <2>2 DEF TypeOK
<1>2. Probed
  BY DEF Probed
<1>3. Unjoined
  BY DEF Unjoined
<1>4. Estimated
  BY DEF Estimated, C!SameClock
<1>5. status # "succeeded"
  BY MergeAssumption
<1>6. Work
  BY <1>5, NothingJoined
<1>7. Filed
  BY DEF Filed
<1> QED BY <1>1, <1>2, <1>3, <1>4, <1>6, <1>7 DEF Inv

\* The streams, aligned.
LEMMA AlignStep ==
    ASSUME Inv, AlignAndJoin
    PROVE  /\ Work'
           /\ status' \in {"failed", "partial", "succeeded"} /\ available' \in BOOLEAN
<1> DEFINE npuWay == NpuTransforms(estimate, available)
           gs == C!AlignEventStream(gpu.events, "gpu", GpuTransforms)
           ns == C!AlignEventStream(npu.events, "npu", npuWay)
           ms == {C!AlignMetricStream(gpu.metrics, "gpu", GpuTransforms),
                  C!AlignMetricStream(npu.metrics, "npu", npuWay)}
           eventsOK == gs # Refused /\ ns # Refused
           ok == eventsOK /\ Refused \notin ms
           E == RangeOf(gs) \cup RangeOf(ns)
<1>1. /\ aligned' = IF eventsOK THEN WithPlace("gpu", gs) \cup WithPlace("npu", ns) ELSE {}
      /\ joins' = IF ok THEN J!JoinRequests(gs, ns) ELSE {}
      /\ derived' = HybridMetrics(joins', AlignmentAccepted)
      /\ status' = ClassifyHybridStatus(joins', available /\ ok, ~(available /\ ok))
      /\ available' = (available /\ ok)
      /\ UNCHANGED <<scenario, estimate>>
  BY DEF AlignAndJoin, AlignStreams, Join
<1>2. /\ phase = "align" /\ scenario \in Scenarios /\ SourcesMerge /\ Estimated
      /\ available => Honest(estimate, scenario.ahead)
  BY DEF AlignAndJoin, Inv, Probed, Estimated
<1>3. /\ gpu.events \in Seq(RangeOf(gpu.events)) /\ \A e \in RangeOf(gpu.events) : TypedEvent(e)
      /\ npu.events \in Seq(RangeOf(npu.events)) /\ \A e \in RangeOf(npu.events) : TypedEvent(e)
  BY <1>2, MergeAssumption DEF SourcesMerge, LoadSourceBundle, TypedSource, gpu, npu
<1> HIDE DEF ok, gs, ns, ms, npuWay
<1>4. ASSUME eventsOK
      PROVE  /\ gs \in Seq(RangeOf(gs)) /\ DOMAIN gs = DOMAIN gpu.events
             /\ \A i \in DOMAIN gpu.events :
                   /\ Aligned(gs[i], gpu.events[i], "gpu", 0, 0)
                   /\ \E c \in RecordClocks(gpu) : gpu.events[i].clock = c.id
                   /\ gpu.events[i].ts \in Int
  <2>1. gs = C!AlignEventStream(gpu.events, "gpu",
                  TimestampTransforms(gpu, 0, 0, "same_clock_domain", TRUE))
    BY DEF gs, GpuTransforms
  <2>2. AlignedStream(gs, gpu, "gpu", 0, 0, TRUE)
    BY <1>3, <1>4, <2>1, AlignmentIs
  <2> QED BY <2>2 DEF AlignedStream
<1>5. ASSUME eventsOK
      PROVE  /\ ns \in Seq(RangeOf(ns)) /\ DOMAIN ns = DOMAIN npu.events
             /\ \A i \in DOMAIN npu.events :
                   /\ Aligned(ns[i], npu.events[i], "npu", -estimate.offset, estimate.uncertainty)
                   /\ \E c \in RecordClocks(npu) : npu.events[i].clock = c.id
                   /\ npu.events[i].ts \in Int
                   /\ available
  <2>1. ns = C!AlignEventStream(npu.events, "npu",
                  TimestampTransforms(npu, -estimate.offset, estimate.uncertainty,
                                      estimate.method, available))
    BY DEF ns, npuWay, NpuTransforms
  <2>2. AlignedStream(ns, npu, "npu", -estimate.offset, estimate.uncertainty, available)
    BY <1>3, <1>5, <2>1, AlignmentIs
  <2> QED BY <2>2 DEF AlignedStream
<1>6. ASSUME eventsOK PROVE \A e \in E : Sound(e)
  <2>1. \A e \in RangeOf(gs) : Sound(e)
    <3> SUFFICES ASSUME NEW i \in DOMAIN gpu.events PROVE Sound(gs[i])
      BY <1>4, <1>6 DEF RangeOf
    <3>1. Aligned(gs[i], gpu.events[i], "gpu", 0, 0) /\ gpu.events[i].ts \in Int
      BY <1>4, <1>6
    <3> QED BY <3>1 DEF Aligned, Sound
  <2>2. \A e \in RangeOf(ns) : Sound(e)
    <3> SUFFICES ASSUME NEW i \in DOMAIN npu.events PROVE Sound(ns[i])
      BY <1>5, <1>6 DEF RangeOf
    <3>1. /\ Aligned(ns[i], npu.events[i], "npu", -estimate.offset, estimate.uncertainty)
          /\ npu.events[i].ts \in Int /\ available
      BY <1>5, <1>6
    <3>2. Honest(estimate, scenario.ahead) /\ estimate.offset \in Int
      BY <1>2, <3>1 DEF Estimated
    <3> QED BY <3>1, <3>2 DEF Aligned, Sound
  <2> QED BY <2>1, <2>2
<1>7. ASSUME ok
      PROVE  /\ \A r \in joins' : Result(r, E)
             /\ \A e \in RangeOf(gs) : \E r \in joins' :
                   J!GroupKey(e) \in r.gpu /\ e \in RangeOf(r.events)
             /\ \A e \in RangeOf(ns) : \E r \in joins' :
                   J!GroupKey(e) \in r.npu /\ e \in RangeOf(r.events)
             /\ \A r, s \in Confident(joins') :
                   r.gpu \cap s.gpu # {} \/ r.npu \cap s.npu # {} => r = s
  <2>1. eventsOK /\ joins' = J!JoinRequests(gs, ns)
    BY <1>1, <1>7 DEF ok
  <2>2. gs \in Seq(RangeOf(gs)) /\ ns \in Seq(RangeOf(ns))
    BY <1>4, <1>5, <2>1
  <2>3. OnClock(E)
    BY <1>6, <2>1 DEF Sound, OnClock
  <2> HIDE DEF E
  <2>4. RangeOf(gs) \subseteq E /\ RangeOf(ns) \subseteq E
    BY DEF E
  <2>5. Drawn(gs, E) /\ Drawn(ns, E)
    BY <2>2, <2>4 DEF Drawn
  <2> QED BY <2>1, <2>3, <2>5, JoinIs
<1>8. ~ok => joins' = {}
  BY <1>1
<1>9. \A r \in joins' : JoinIsSound(r)
  <2> SUFFICES ASSUME ok, NEW r \in joins' PROVE JoinIsSound(r)
    BY <1>8
  <2>1. Result(r, E) /\ eventsOK
    BY <1>7 DEF ok
  <2>2. \A e \in E : Sound(e)
    BY <1>6, <2>1
  <2> HIDE DEF E
  <2>3. OnClock(E)
    BY <2>2 DEF Sound, OnClock
  <2>4. Timed(r.events) /\ RangeOf(r.events) \subseteq E
    BY <2>1, <2>3, DrawnIsTimed DEF Result
  <2>5. OfRows(r.events, r.ordering)
    <3>1. CASE r.ordering = {}
      BY <3>1 DEF OfRows
    <3>2. CASE r.ordering = J!ValidateMarkerOrder(r.events).ordering
      BY <2>4, <3>2, MarkerOrderIs
    <3> QED BY <2>1, <3>1, <3>2 DEF Result
  <2> QED BY <2>1, <2>2, <2>4, <2>5 DEF Result, JoinIsSound
<1>10. JoinsAreSound'
  <2>1. \A e : Sound(e)' <=> Sound(e)
    BY <1>1 DEF Sound, Honest
  <2>2. \A r : JoinIsSound(r)' <=> JoinIsSound(r)
    BY <2>1 DEF JoinIsSound
  <2> QED BY <1>9, <2>2 DEF JoinsAreSound
<1>11. DerivedAreSpans'
  <2>1. \A r \in joins' : Timed(r.events)
    BY <1>9 DEF JoinIsSound
  <2>2. \A m \in derived' : \E r \in joins' : Spanned(m, r.events)
    BY <1>1, <2>1, MetricsAre
  <2> QED BY <2>2 DEF DerivedAreSpans
<1>12. ASSUME ok, NEW key
       PROVE  /\ Cardinality({r \in joins' : key \in r.gpu /\ r.confidence > 0}) <= 1
              /\ Cardinality({r \in joins' : key \in r.npu /\ r.confidence > 0}) <= 1
  <2> DEFINE A == {r \in joins' : key \in r.gpu /\ r.confidence > 0}
             B == {r \in joins' : key \in r.npu /\ r.confidence > 0}
  <2>1. \A r, s \in A : r = s
    BY <1>7, <1>12 DEF Confident
  <2>2. \A r, s \in B : r = s
    BY <1>7, <1>12 DEF Confident
  <2> HIDE DEF A, B
  <2>3. \A S : (\A r, s \in S : r = s) => Cardinality(S) <= 1
    <3> SUFFICES ASSUME NEW S, \A r, s \in S : r = s PROVE Cardinality(S) <= 1
      OBVIOUS
    <3>1. S = {} \/ \E x : S = {x}
      OBVIOUS
    <3>2. Cardinality(S) \in {0, 1}
      BY <3>1, FS_EmptySet, FS_Singleton
    <3> QED BY <3>2
  <2>4. Cardinality(A) <= 1 /\ Cardinality(B) <= 1
    BY <2>1, <2>2, <2>3
  <2> QED BY <2>4 DEF A, B
<1>13. JoinsArePairs'
  <2>1. UNCHANGED <<gpu, npu>>
    BY <1>1 DEF gpu, npu
  <2> DEFINE gpuKeys == UNION {r.gpu : r \in joins'}
             npuKeys == UNION {r.npu : r \in joins'}
  <2>2. ASSUME joins' # {}
        PROVE  /\ \A key \in gpuKeys :
                     Cardinality({r \in joins' : key \in r.gpu /\ r.confidence > 0}) <= 1
               /\ \A e \in RangeOf(gpu.events) : e.request # None =>
                     <<"request", e.request>> \in gpuKeys
               /\ \A key \in npuKeys :
                     Cardinality({r \in joins' : key \in r.npu /\ r.confidence > 0}) <= 1
               /\ \A e \in RangeOf(npu.events) : e.request # None =>
                     <<"request", e.request>> \in npuKeys
    <3>1. ok /\ eventsOK
      BY <1>8, <2>2 DEF ok
    <3>2. ASSUME NEW e \in RangeOf(gpu.events), e.request # None
          PROVE  <<"request", e.request>> \in gpuKeys
      <4>1. PICK i \in DOMAIN gpu.events : e = gpu.events[i]
        BY DEF RangeOf
      <4>2. Aligned(gs[i], gpu.events[i], "gpu", 0, 0) /\ gs[i] \in RangeOf(gs)
        BY <1>4, <3>1 DEF RangeOf
      <4>3. J!GroupKey(gs[i]) = <<"request", e.request>>
        BY <3>2, <4>1, <4>2 DEF Aligned, J!GroupKey
      <4> QED BY <1>7, <3>1, <4>2, <4>3
    <3>3. ASSUME NEW e \in RangeOf(npu.events), e.request # None
          PROVE  <<"request", e.request>> \in npuKeys
      <4>1. PICK i \in DOMAIN npu.events : e = npu.events[i]
        BY DEF RangeOf
      <4>2. /\ Aligned(ns[i], npu.events[i], "npu", -estimate.offset, estimate.uncertainty)
            /\ ns[i] \in RangeOf(ns)
        BY <1>5, <3>1 DEF RangeOf
      <4>3. J!GroupKey(ns[i]) = <<"request", e.request>>
        BY <3>3, <4>1, <4>2 DEF Aligned, J!GroupKey
      <4> QED BY <1>7, <3>1, <4>2, <4>3
    <3> HIDE DEF gpuKeys, npuKeys
    <3> QED BY <1>12, <3>1, <3>2, <3>3
  <2> QED BY <2>1, <2>2 DEF JoinsArePairs
<1>14. SuccessIsWhole'
  <2> SUFFICES ASSUME status' = "succeeded"
               PROVE  /\ ~scenario.torn /\ {gpu.status, npu.status} \cap {"failed", "partial"} = {}
                      /\ estimate.uncertainty <= MaxUncertainty
                      /\ \A r \in joins' : r.status = "joined"
                      /\ \A e \in aligned' : \E r \in joins' :
                            \E f \in RangeOf(r.events) : f.id = e.id
    BY <1>1 DEF SuccessIsWhole, gpu, npu
  <2>1. /\ available /\ ok /\ ~AnySource("failed") /\ ~AnySource("partial")
        /\ ~(estimate.uncertainty > MaxUncertainty)
        /\ \A r \in joins' : r.status = "joined"
    BY <1>1 DEF ClassifyHybridStatus
  <2>2. {gpu.status, npu.status} \cap {"failed", "partial"} = {}
    BY <2>1 DEF AnySource
  <2>3. ~scenario.torn
    BY <1>2, <2>2, MergeAssumption DEF gpu
  <2>4. estimate.uncertainty <= MaxUncertainty
    BY <1>2, <2>1, MergeAssumption DEF Estimated
  <2>5. ASSUME NEW e \in aligned' PROVE \E r \in joins' : \E f \in RangeOf(r.events) : f.id = e.id
    <3>1. eventsOK
      BY <2>1 DEF ok
    <3>2. e \in WithPlace("gpu", gs) \cup WithPlace("npu", ns)
      BY <1>1, <2>5, <3>1
    <3>3. \E f \in RangeOf(gs) \cup RangeOf(ns) : f.id = e.id
      BY <3>2 DEF WithPlace, Placed, RangeOf
    <3> QED BY <1>7, <2>1, <3>3
  <2> QED BY <2>1, <2>2, <2>3, <2>4, <2>5
<1>15. AlignedAreTraced'
  <2>1. /\ UNCHANGED <<gpu, npu>>
        /\ ClockTransforms' = ClockTransforms /\ ClockDomains' = ClockDomains
    BY <1>1 DEF gpu, npu, ClockTransforms, ClockDomains, RecordClocks
  <2>2. \A e : TracedBack(e)' <=> TracedBack(e)
    BY <2>1 DEF TracedBack
  <2>3. ASSUME eventsOK, NEW e \in WithPlace("gpu", gs) PROVE e.clock = Canonical /\ TracedBack(e)
    <3>1. PICK i \in DOMAIN gpu.events :
              e = [id |-> gs[i].id, clock |-> gs[i].clock, ts |-> gs[i].ts, at |-> <<"gpu", i>>]
      BY <1>4, <2>3 DEF WithPlace, Placed
    <3> DEFINE original == gpu.events[i]
    <3>2. Aligned(gs[i], original, "gpu", 0, 0) /\ original.ts \in Int
      BY <1>4, <2>3
    <3>3. PICK c \in RecordClocks(gpu) : original.clock = c.id
      BY <1>4, <2>3
    <3> HIDE DEF original
    <3>4. e.clock = Canonical /\ e.ts - 0 = original.ts /\ e.at[1] = "gpu" /\ e.at[2] = i
      BY <3>1, <3>2 DEF Aligned
    <3> DEFINE t == [source |-> <<"gpu", c.id>>, target |-> CanonicalDomain,
                     offset |-> 0, uncertainty |-> 0]
    <3>5. t \in ClockTransforms
      BY DEF ClockTransforms
    <3>6. {t.source, t.target} \subseteq ClockDomains
      BY DEF ClockDomains, RecordClocks
    <3>7. t.source = <<"gpu", original.clock>> /\ t.target = <<"canonical", e.clock>> /\ t.offset = 0
      BY <3>3, <3>4 DEF CanonicalDomain
    <3> HIDE DEF t
    <3> QED BY <3>4, <3>5, <3>6, <3>7 DEF TracedBack, original
  <2>4. ASSUME eventsOK, NEW e \in WithPlace("npu", ns) PROVE e.clock = Canonical /\ TracedBack(e)
    <3>1. PICK i \in DOMAIN npu.events :
              e = [id |-> ns[i].id, clock |-> ns[i].clock, ts |-> ns[i].ts, at |-> <<"npu", i>>]
      BY <1>5, <2>4 DEF WithPlace, Placed
    <3> DEFINE original == npu.events[i]
    <3>2. /\ Aligned(ns[i], original, "npu", -estimate.offset, estimate.uncertainty)
          /\ original.ts \in Int /\ estimate.offset \in Int
      BY <1>2, <1>5, <2>4 DEF Estimated
    <3>3. PICK c \in RecordClocks(npu) : original.clock = c.id
      BY <1>5, <2>4
    <3> HIDE DEF original
    <3>4. /\ e.clock = Canonical /\ e.ts - (-estimate.offset) = original.ts
          /\ e.at[1] = "npu" /\ e.at[2] = i
      BY <3>1, <3>2 DEF Aligned
    <3> DEFINE t == [source |-> <<"npu", c.id>>, target |-> CanonicalDomain,
                     offset |-> -estimate.offset, uncertainty |-> estimate.uncertainty]
    <3>5. t \in ClockTransforms
      BY DEF ClockTransforms
    <3>6. {t.source, t.target} \subseteq ClockDomains
      BY DEF ClockDomains, RecordClocks
    <3>7. /\ t.source = <<"npu", original.clock>> /\ t.target = <<"canonical", e.clock>>
          /\ t.offset = -estimate.offset
      BY <3>3, <3>4 DEF CanonicalDomain
    <3> HIDE DEF t
    <3> QED BY <3>4, <3>5, <3>6, <3>7 DEF TracedBack, original
  <2>5. \A e \in aligned' : e.clock = Canonical /\ TracedBack(e)
    BY <1>1, <2>3, <2>4
  <2> QED BY <2>2, <2>5 DEF AlignedAreTraced
<1>16. status' \in {"failed", "partial", "succeeded"} /\ available' \in BOOLEAN
  BY <1>1 DEF ClassifyHybridStatus
<1> QED BY <1>10, <1>11, <1>13, <1>14, <1>15, <1>16 DEF Work

LEMMA NextInv == Inv /\ [Next]_vars => Inv'
<1> SUFFICES ASSUME Inv, [Next]_vars PROVE Inv'
  OBVIOUS
<1> USE DEF Inv
<1>1. CASE LoadFails
  <2>1. /\ phase = "load" /\ files = {} /\ phase' = "returned"
        /\ files' = {"directories", "summary"} /\ summary' = "failed" /\ status' = "failed"
        /\ UNCHANGED <<scenario, outcomes, estimate, available, aligned, joins, derived>>
    BY <1>1 DEF LoadFails
  <2>2. TypeOK' /\ Probed' /\ Unjoined' /\ Estimated' /\ Filed'
    BY <2>1 DEF TypeOK, Probed, Unjoined, Estimated, Filed
  <2>3. Work'
    BY <2>1, NothingJoined DEF Unjoined
  <2> QED BY <2>2, <2>3
<1>2. CASE RefuseRealSources
  <2>1. /\ phase = "load" /\ phase' = "returned" /\ status' = "failed"
        /\ UNCHANGED <<scenario, outcomes, estimate, available, aligned, joins, derived, files,
                       summary>>
    BY <1>2 DEF RefuseRealSources
  <2>2. TypeOK' /\ Probed' /\ Unjoined' /\ Estimated' /\ Filed'
    BY <2>1 DEF TypeOK, Probed, Unjoined, Estimated, Filed
  <2>3. Work'
    BY <2>1, NothingJoined DEF Unjoined
  <2> QED BY <2>2, <2>3
<1>3. CASE StartEstimate
  <2>1. /\ phase = "load" /\ SourcesMerge /\ phase' \in {"align", "probe"}
        /\ files' = {"directories"}
        /\ phase' = "align" => available' = SameClockUsable
        /\ phase' = "probe" => available' = available
        /\ UNCHANGED <<scenario, outcomes, estimate, aligned, joins, derived, status, summary>>
    BY <1>3 DEF StartEstimate, Create
  <2>2. SourcesMerge'
    BY <2>1 DEF SourcesMerge, LoadSourceBundle, gpu, npu
  <2>3. Probed' /\ Unjoined' /\ Filed'
    BY <2>1, <2>2 DEF Probed, Unjoined, Filed
  <2>4. TypeOK'
    BY <2>1 DEF TypeOK, SameClockUsable
  <2>5. ASSUME SameClockUsable PROVE scenario.ahead = 0
    <3>1. PICK d \in RecordClockDomains(gpu) : d \in RecordClockDomains(npu)
      BY <2>5 DEF SameClockUsable
    <3>2. ClockShared(scenario)
      BY <3>1 DEF RecordClockDomains, RecordClocks, ClockShared, gpu, npu
    <3> QED BY <3>2, MergeAssumption DEF Probed
  <2>6. Estimated'
    <3>1. estimate = C!SameClock /\ estimate.offset = 0 /\ estimate.uncertainty = 0
      BY <2>1 DEF Estimated, C!SameClock
    <3>2. scenario.ahead = 0 => Honest(estimate, scenario.ahead)
      BY <3>1 DEF Honest, Rounding
    <3> QED BY <2>1, <2>5, <3>1, <3>2 DEF Estimated, Honest
  <2>7. Work'
    BY <2>1, StillWork DEF kept
  <2> QED BY <2>3, <2>4, <2>6, <2>7
<1>4. CASE CreateRefuses
  <2>1. /\ phase = "load" /\ phase' = "raised"
        /\ UNCHANGED <<scenario, outcomes, estimate, available, aligned, joins, derived, status,
                       files, summary>>
    BY <1>4 DEF CreateRefuses
  <2>2. TypeOK' /\ Probed' /\ Unjoined' /\ Estimated' /\ Filed'
    BY <2>1 DEF TypeOK, Probed, Unjoined, Estimated, Filed
  <2>3. Work'
    BY <2>1, StillWork DEF kept
  <2> QED BY <2>2, <2>3
<1>5. CASE Probe
  <2>1. /\ phase = "probe" /\ Len(outcomes) < ProbeCount
        /\ \E outcome \in ProbeOutcomes(scenario.ahead) : outcomes' = Append(outcomes, outcome)
        /\ UNCHANGED <<scenario, phase, estimate, available, aligned, joins, derived, status,
                       files, summary>>
    BY <1>5 DEF Probe
  <2>2. SourcesMerge'
    BY <2>1 DEF Probed, SourcesMerge, LoadSourceBundle, gpu, npu
  <2> DEFINE Results == ProbeOutcomes(scenario.ahead) \cup {Refused}
  <2>3. outcomes \in Seq(Results) /\ \E outcome \in Results : outcomes' = Append(outcomes, outcome)
    BY <2>1 DEF Probed
  <2> HIDE DEF Results
  <2>4. outcomes' \in Seq(Results) /\ Len(outcomes') = Len(outcomes) + 1
    BY <2>3
  <2>5. Probed'
    BY <2>1, <2>2, <2>4 DEF Probed, Results
  <2>6. TypeOK'
    BY <2>1, <2>3, <2>4, MergeAssumption DEF TypeOK
  <2>7. Unjoined' /\ Estimated' /\ Filed'
    BY <2>1 DEF Unjoined, Estimated, Filed
  <2>8. Work'
    BY <2>1, StillWork DEF kept
  <2> QED BY <2>5, <2>6, <2>7, <2>8
<1>6. CASE Estimate
  <2> DEFINE found == C!ProbeClock(outcomes, MinimumSamples)
  <2>1. /\ phase = "probe" /\ phase' = "align" /\ outcomes' = <<>>
        /\ available' = (found # Refused)
        /\ estimate' = IF found = Refused THEN C!SameClock ELSE found
        /\ UNCHANGED <<scenario, aligned, joins, derived, status, files, summary>>
    BY <1>6 DEF Estimate
  <2>2. SourcesMerge'
    BY <2>1 DEF Probed, SourcesMerge, LoadSourceBundle, gpu, npu
  <2>3. ASSUME found # Refused PROVE Honest(found, scenario.ahead)
    <3>1. Len(outcomes) \in Nat /\ DOMAIN outcomes = 1..Len(outcomes)
      BY DEF Probed
    <3>2. \A i \in 1..Len(outcomes) : outcomes[i] # Refused => Delayed(outcomes[i], scenario.ahead)
      BY MergeAssumption DEF Probed
    <3>3. scenario.ahead \in Int /\ MinimumSamples \in Nat \ {0}
      BY AheadIs, MergeAssumption
    <3> QED BY <2>3, <3>1, <3>2, <3>3, ProbesAreHonest
  <2> HIDE DEF found
  <2>4. Estimated'
    <3>1. CASE found = Refused
      <4>1. ~available' /\ phase' = "align"
        BY <2>1, <3>1
      <4>2. estimate' = C!SameClock
        BY <2>1, <3>1
      <4>3. estimate'.offset \in Int /\ estimate'.uncertainty \in Nat
        BY <4>2 DEF C!SameClock
      <4> QED BY <4>1, <4>3 DEF Estimated
    <3>2. CASE found # Refused
      BY <2>1, <2>3, <3>2 DEF Estimated, Honest
    <3> QED BY <3>1, <3>2
  <2>5. Probed'
    BY <2>1, <2>2 DEF Probed
  <2>6. Unjoined' /\ Filed'
    BY <2>1 DEF Unjoined, Filed
  <2>7. TypeOK'
    <3>1. Len(outcomes') = 0 /\ 0 <= ProbeCount
      BY <2>1, MergeAssumption
    <3>2. Len(outcomes') <= ProbeCount
      BY <3>1
    <3> QED BY <2>1, <3>2 DEF TypeOK
  <2>8. Work'
    BY <2>1, NothingJoined, MergeAssumption DEF Unjoined
  <2> QED BY <2>4, <2>5, <2>6, <2>7, <2>8
<1>7. CASE AlignAndJoin
  <2>1. phase = "align" /\ phase' = "describe" /\ UNCHANGED <<scenario, outcomes, estimate, files, summary>>
    BY <1>7 DEF AlignAndJoin
  <2>2. Work' /\ status' \in {"failed", "partial", "succeeded"} /\ available' \in BOOLEAN
    BY <1>7, AlignStep
  <2>3. TypeOK' /\ Probed' /\ Unjoined' /\ Estimated' /\ Filed'
    BY <2>1, <2>2 DEF TypeOK, Probed, Unjoined, Estimated, Filed
  <2> QED BY <2>2, <2>3
<1>8. CASE Describe
  <2>1. UNCHANGED <<scenario, outcomes, estimate, available, aligned, joins, derived, status>>
    BY <1>8 DEF Describe
  <2>2. \/ /\ phase = "describe" /\ phase' = "align_file"
           /\ files' = files \cup {"sources"} /\ summary' = summary
        \/ /\ phase = "align_file" /\ phase' = "summarise"
           /\ files' = files \cup {"alignment"} /\ summary' = summary
        \/ /\ phase = "summarise" /\ phase' = "validate"
           /\ files' = files \cup {"summary"} /\ summary' = status
    BY <1>8 DEF Describe, WriteDescriptions
  <2>3. TypeOK' /\ Probed' /\ Unjoined' /\ Estimated'
    BY <2>1, <2>2 DEF TypeOK, Probed, Unjoined, Estimated
  <2>4. Filed'
    BY <2>1, <2>2 DEF Filed
  <2>5. Work'
    BY <2>1, StillWork DEF kept
  <2> QED BY <2>3, <2>4, <2>5
<1>9. CASE Validate
  <2>1. /\ phase = "validate" /\ phase' = IF HybridRecordsValid THEN "write" ELSE "raised"
        /\ UNCHANGED <<scenario, outcomes, estimate, available, aligned, joins, derived, status,
                       files, summary>>
    BY <1>9 DEF Validate
  <2>2. TypeOK' /\ Probed' /\ Unjoined' /\ Estimated'
    BY <2>1 DEF TypeOK, Probed, Unjoined, Estimated
  <2>3. Filed'
    BY <2>1 DEF Filed, HybridRecordsValid
  <2>4. Work'
    BY <2>1, StillWork DEF kept
  <2> QED BY <2>2, <2>3, <2>4
<1>10. CASE WriteRecords
  <2>1. /\ phase = "write" /\ \E file \in RangeOf(RecordFiles) : files' = files \cup {file}
        /\ UNCHANGED <<scenario, phase, outcomes, estimate, available, aligned, joins, derived,
                       status, summary>>
    BY <1>10 DEF WriteRecords, RangeOf
  <2>2. TypeOK' /\ Probed' /\ Unjoined' /\ Estimated'
    BY <2>1 DEF TypeOK, Probed, Unjoined, Estimated
  <2>3. "manifest" \notin RangeOf(RecordFiles)
    BY DEF RecordFiles, RangeOf
  <2>4. Filed'
    BY <2>1, <2>3 DEF Filed, HybridRecordsValid
  <2>5. Work'
    BY <2>1, StillWork DEF kept
  <2> QED BY <2>2, <2>4, <2>5
<1>11. CASE WriteManifest
  <2>1. /\ phase = "write" /\ phase' = "returned" /\ files' = files \cup {"manifest"}
        /\ RangeOf(RecordFiles) \subseteq files
        /\ UNCHANGED <<scenario, outcomes, estimate, available, aligned, joins, derived, status,
                       summary>>
    BY <1>11 DEF WriteManifest
  <2>2. TypeOK' /\ Probed' /\ Unjoined' /\ Estimated'
    BY <2>1 DEF TypeOK, Probed, Unjoined, Estimated
  <2>3. Filed'
    BY <2>1 DEF Filed, HybridRecordsValid, Described
  <2>4. Work'
    BY <2>1, StillWork DEF kept
  <2> QED BY <2>2, <2>3, <2>4
<1>12. CASE CrashAndRerun
  <2>1. /\ phase # "returned" /\ phase' = "load" /\ outcomes' = <<>>
        /\ estimate' = C!SameClock /\ available' = FALSE
        /\ aligned' = {} /\ joins' = {} /\ derived' = {} /\ status' = None
        /\ UNCHANGED <<scenario, files, summary>>
    BY <1>12 DEF CrashAndRerun, Running
  <2>2. Probed' /\ Unjoined' /\ Filed'
    BY <2>1 DEF Probed, Unjoined, Filed
  <2>3. Estimated'
    BY <2>1 DEF Estimated, C!SameClock
  <2>4. TypeOK'
    <3>1. Len(outcomes') = 0 /\ 0 <= ProbeCount
      BY <2>1, MergeAssumption
    <3>2. Len(outcomes') <= ProbeCount
      BY <3>1
    <3> QED BY <2>1, <3>2 DEF TypeOK
  <2>5. Work'
    BY <2>1, NothingJoined, MergeAssumption
  <2> QED BY <2>2, <2>3, <2>4, <2>5
<1>13. CASE UNCHANGED vars
  <2> USE <1>13 DEF vars
  <2>1. SourcesMerge' <=> SourcesMerge
    BY DEF SourcesMerge, LoadSourceBundle, gpu, npu
  <2>2. TypeOK' /\ Probed' /\ Unjoined' /\ Estimated'
    BY <2>1 DEF TypeOK, Probed, Unjoined, Estimated
  <2>3. Filed'
    BY DEF Filed, HybridRecordsValid
  <2>4. Work'
    BY StillWork DEF kept
  <2> QED BY <2>2, <2>3, <2>4
<1> QED
  BY <1>1, <1>2, <1>3, <1>4, <1>5, <1>6, <1>7, <1>8, <1>9, <1>10, <1>11, <1>12,
     <1>13
     DEF Next

-----------------------------------------------------------------------------
(* The theorems *)

\* The invariant holds in every state of every merge.
THEOREM Invariance == Spec => []Inv
BY InitInv, NextInv, PTL DEF Spec

\* The merge keeps its state well typed, whatever the sources and probes.
THEOREM TypeCorrect == Spec => []TypeOK
<1>1. Inv => TypeOK
  BY DEF Inv
<1> QED BY <1>1, Invariance, PTL

\* Markers of one request that happened in the contract's order are never called
\* a definite violation of it: the uncertainty of the estimate covers whatever
\* the delays of the probes were (join.py:144, clock_sync.py:150).
THEOREM DefiniteHolds == Spec => []DefiniteIsTrue
BY Invariance, DefiniteFollows, PTL

\* A derived duration across the two clocks is off by no more than the recorded
\* uncertainty and the rounding (bundle.py:565).
THEOREM DurationsHold == Spec => []DurationsAreHonest
BY Invariance, DurationsFollow, PTL

\* However many requests and identifiers there are, no group is joined to two,
\* and no request is left out of the results (join.py:623).
THEOREM JoinsHold == Spec => []JoinsArePairs
<1>1. Inv => JoinsArePairs
  BY DEF Inv, Work
<1> QED BY <1>1, Invariance, PTL

\* A merge that succeeded joined every event of both sources, and the markers of
\* each request happened in the contract's order up to the accepted uncertainty
\* (validation.py:198).
THEOREM SuccessHolds == Spec => []SuccessIsTrue
BY Invariance, SuccessFollows, PTL

\* A manifest on disk speaks for a whole bundle, crashes and reruns or not
\* (bundle.py:295).
THEOREM ManifestHolds == Spec => []ManifestIsBacked
BY Invariance, ManifestFollows, PTL

\* The assumption on marker files is what the sources' writer does: a line that
\* cannot be parsed refuses the markers of both, and both are written failed
\* (runtime_markers.py:440).
THEOREM TornMarkersFail ==
    ASSUME NEW proxy, NEW workers, NEW measured, NEW metrics, NEW metadata, NEW errors,
           \/ \E n \in DOMAIN proxy : proxy[n] = Torn
           \/ \E f \in DOMAIN workers : \E n \in DOMAIN workers[f] : workers[f][n] = Torn
    PROVE  \A role \in {"gpu", "npu"} :
              WriteSources(proxy, workers, measured, metrics, metadata, errors)[role].status = "failed"
<1>1. ASSUME NEW list, NEW f \in DOMAIN list, NEW n \in DOMAIN list[f], list[f][n] = Torn
      PROVE  M!IngestRuntimeMarkerFiles(list, "h", "mono") = Refused
  <2> DEFINE places == UNION {{<<g, m>> : m \in DOMAIN list[g]} : g \in DOMAIN list}
             parsed(p) == M!ParseMarker(list[p[1]][p[2]], p[1], p[2], "h", "mono")
  <2>1. <<f, n>> \in places /\ <<f, n>>[1] = f /\ <<f, n>>[2] = n
    OBVIOUS
  <2>2. parsed(<<f, n>>) = Refused
    BY <1>1, <2>1 DEF M!ParseMarker
  <2>3. \E p \in places : parsed(p) = Refused
    <3> HIDE DEF places, parsed
    <3> QED BY <2>1, <2>2
  <2>4. (\E p \in places : parsed(p) = Refused) => M!IngestRuntimeMarkerFiles(list, "h", "mono") = Refused
    BY DEF M!IngestRuntimeMarkerFiles
  <2> QED BY <2>3, <2>4
<1>2. MarkerEvents(proxy, workers, measured) = Refused
  <2>1. \/ M!IngestRuntimeMarkerFiles(<<proxy>>, "h", "mono") = Refused
        \/ M!IngestRuntimeMarkerFiles(workers, "h", "mono") = Refused
    <3>1. ASSUME NEW n \in DOMAIN proxy, proxy[n] = Torn
          PROVE  M!IngestRuntimeMarkerFiles(<<proxy>>, "h", "mono") = Refused
      <4>1. 1 \in DOMAIN <<proxy>> /\ <<proxy>>[1] = proxy
        OBVIOUS
      <4> QED BY <1>1, <3>1, <4>1
    <3> QED BY <1>1, <3>1
  <2> QED BY <2>1 DEF MarkerEvents, EventsOfRequests
<1> QED BY <1>2 DEF WriteSources, SourcesOf, SourceBundle
=============================================================================
