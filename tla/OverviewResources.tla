-------------------------- MODULE OverviewResources --------------------------
(***************************************************************************)
(* What the sampled resources did, over the capture and over each stage         *)
(* (overview/resources.py).  A stream is the sequence of the samples of one      *)
(* metric of one device, in the order of the file.  A sample of an interval       *)
(* metric speaks for the time since the sample before it, when its interval       *)
(* says so; a point gauge speaks for its instant only.                           *)
(***************************************************************************)
EXTENDS OverviewThroughput, SequencesExt

CONSTANTS ResourceNames,    \* the catalog's resource metrics
          IntervalNames,    \* those whose samples speak for an interval
          Percentages       \* those that are at most a hundred

SampleRefused(m) ==
    \/ ~m.conforms \/ m.available # (m.value # None)
    \/ m.value # None /\ (m.value.n < 0 \/ (m.name \in Percentages /\ m.value.n > 100 * m.value.d))

StreamKey(m) == <<m.name, m.host, m.device, m.window>>
Sampled(loaded) == {m \in loaded.metrics : m.name \in ResourceNames}
StreamKeys(loaded) == {StreamKey(m) : m \in Sampled(loaded)}
\* The elements in the order of the numbers they have, which are different.
InOrderOf(S, number) ==
    [k \in 1..Cardinality(S) |->
        CHOOSE x \in S : Cardinality({y \in S : number[y] < number[x]}) = k - 1]
InFileOrder(samples) == InOrderOf(samples, [m \in samples |-> m.place])
ByTime(samples) == InOrderOf(samples, [m \in samples |-> m.ts])
StreamOf(loaded, key) == {m \in Sampled(loaded) : StreamKey(m) = key}
DuplicateInstants(samples) == Cardinality({m.ts : m \in samples}) # Cardinality(samples)

Later(stream) == 2..Len(stream)
Delta(stream, i) == stream[i].ts - stream[i - 1].ts
Tiles(stream, i) == stream[i].interval # None /\ stream[i].interval > 0
                    /\ stream[i].interval = Delta(stream, i)
Increasing(stream) == \A i \in Later(stream) : Delta(stream, i) > 0

------------------------------------------------------------------------------
(* Order statistics.  Values are a function of the places of their samples.        *)

Count(values) == Cardinality(DOMAIN values)
\* In order, each value as often as there are samples of it: the k-th has fewer than k
\* values below it and at least k that are at most what it is.
Ordered(values) ==
    [k \in 1..Count(values) |->
        CHOOSE v \in {values[i] : i \in DOMAIN values} :
           /\ Cardinality({i \in DOMAIN values : ~AtMost(v, values[i])}) < k
           /\ k <= Cardinality({i \in DOMAIN values : AtMost(values[i], v)})]
\* The Hyndman-Fan type 7 percentile: between two values when it falls there.
PercentileR7(values, percent) ==
    LET ordered == Ordered(values)
        position == (Count(values) - 1) * percent
        low == ordered[position \div 100 + 1]
        high == ordered[(position + 99) \div 100 + 1]
        gap == [n |-> high.n * low.d - low.n * high.d, d |-> high.d * low.d]
    IN  Plus(low, Over(gap.n * (position % 100), gap.d * 100))

Statistics(values, mean, weighted) ==
    [min |-> Ordered(values)[1], max |-> Ordered(values)[Count(values)],
     p50 |-> PercentileR7(values, 50), p95 |-> PercentileR7(values, 95),
     mean |-> mean, weighted |-> weighted]
NoStatistics == [s \in {"min", "max", "p50", "p95", "mean", "weighted"} |-> None]
ValuesOf(samples) == [i \in DOMAIN samples |-> samples[i].value]
MeanOf(values) == Mean(values)
Kept(samples, places) == [i \in places |-> samples[i]]
WithValue(samples) == Kept(samples, {i \in DOMAIN samples : samples[i].available})

------------------------------------------------------------------------------
(* The capture: every available sample counts once, and the weighted mean needs    *)
(* every interval after the first.                                               *)

WeightedReason(stream) ==
    IF Len(stream) < 2 THEN "one timestamp"
    ELSE IF ~Increasing(stream) THEN "not increasing"
    ELSE IF \E i \in Later(stream) : ~Tiles(stream, i) THEN "not tiled"
    ELSE IF \E i \in Later(stream) : ~stream[i].available THEN "endpoint unavailable" ELSE None
Weighted(stream, weights) ==
    Part(Total([i \in DOMAIN weights |-> Over(stream[i].value.n * weights[i], stream[i].value.d)]),
         SumFunction(weights))
TimeWeightedMean(stream) ==
    IF WeightedReason(stream) # None THEN None
    ELSE Weighted(stream, [i \in Later(stream) |-> stream[i].interval])

Summary(key, stage, reason, statistics, clock, total, available, covered, warned) ==
    [key |-> key, stage |-> stage, reason |-> reason, statistics |-> statistics, clock |-> clock,
     total |-> total, available |-> available, covered |-> covered, warned |-> warned]
CaptureSummary(loaded, key) ==
    LET stream == ByTime(StreamOf(loaded, key))
        some == WithValue(stream)
        weighted == TimeWeightedMean(stream)
    IN  Summary(key, None, IF Count(some) = 0 THEN "no available samples" ELSE None,
                IF Count(some) = 0 THEN [NoStatistics EXCEPT !.weighted = weighted]
                  ELSE Statistics(ValuesOf(some), MeanOf(ValuesOf(some)), weighted),
                ClockOf(loaded, StreamOf(loaded, key)), Len(stream), Count(some),
                stream[Len(stream)].ts - stream[1].ts, Count(some) # Len(stream))

------------------------------------------------------------------------------
(* A stage.  An interval metric describes it when the intervals of its available    *)
(* samples cover the window exactly; the overlaps weigh the values.                 *)

Larger(a, b) == IF a > b THEN a ELSE b
Smaller(a, b) == IF a < b THEN a ELSE b
Overlap(stream, i, window) ==
    Larger(0, Smaller(stream[i].ts, window.end) - Larger(stream[i - 1].ts, window.start))
Touching(stream, window) == {i \in Later(stream) : Overlap(stream, i, window) > 0}
Broken(stream, window) == {i \in Touching(stream, window) : ~Tiles(stream, i)}
Contributing(stream, window) ==
    {i \in Touching(stream, window) \ Broken(stream, window) : stream[i].available}
Segments(stream, window) ==
    LET parts == {<<Larger(stream[i - 1].ts, window.start), Smaller(stream[i].ts, window.end)>> :
                    i \in Contributing(stream, window)}
    IN  InOrderOf(parts, [part \in parts |-> part[1]])
Covered(stream, window) == UnionDuration(Segments(stream, window))
SegmentsOverlap(stream, window) ==
    Contributing(stream, window) # {} /\ Swept(Segments(stream, window)).overlapped

IntervalReasonOfAvailable(stream, window) ==   \* mutant: a part of the stage stands for all of it
    IF Touching(stream, window) = {} THEN "no overlap"
    ELSE IF Contributing(stream, window) = {} THEN "partial" ELSE None
IntervalReason(stream, window) ==
    IF Broken(stream, window) # {} \/ SegmentsOverlap(stream, window) THEN "partial"
    ELSE IF Touching(stream, window) = {} THEN "no overlap"
    ELSE IF Covered(stream, window) # window.end - window.start THEN "partial" ELSE None
OverlapWeighted(stream, window) ==
    Weighted(stream, [i \in Contributing(stream, window) |-> Overlap(stream, i, window)])

\* A sampling interval longer than the stage tells of more than the stage.
NotExclusive(stream, window) ==
    \E i \in Touching(stream, window) \ Broken(stream, window) :
       stream[i].interval > window.end - window.start

\* A point gauge describes a stage by the samples inside it, all of them.
Inside(stream, window) ==
    Kept(stream, {i \in DOMAIN stream : window.start <= stream[i].ts /\ stream[i].ts <= window.end})
PointReason(stream, window) ==
    IF Count(Inside(stream, window)) = 0 THEN "no overlap"
    ELSE IF \E i \in DOMAIN Inside(stream, window) : ~stream[i].available THEN "partial" ELSE None

StageReason(stream, window, clock, name) ==
    IF ~window.valid THEN "no valid canonical stage window"
    ELSE IF ~clock.aligned \/ window.clock \notin clock.domains THEN "no common clock"
    ELSE IF stream[1].host \notin window.hosts THEN "not the same host"
    ELSE IF ~Increasing(stream) THEN "partial"
    ELSE IF name \in IntervalNames THEN IntervalReason(stream, window) ELSE PointReason(stream, window)

StageSummary(loaded, key, window) ==
    LET stream == InFileOrder(StreamOf(loaded, key))
        clock == ClockOf(loaded, StreamOf(loaded, key))
        reason == StageReason(stream, window, clock, key[1])
        interval == key[1] \in IntervalNames
        unread == {"no valid canonical stage window", "no common clock", "not the same host"}
        chosen == IF reason \in unread \/ ~Increasing(stream) THEN Kept(stream, {})
                  ELSE IF interval THEN Kept(stream, Touching(stream, window) \ Broken(stream, window))
                  ELSE Inside(stream, window)
        mean == IF reason # None THEN None
                ELSE IF interval THEN OverlapWeighted(stream, window)
                ELSE MeanOf(ValuesOf(WithValue(chosen)))
    IN  Summary(key, window.stage, reason,
                IF reason # None THEN NoStatistics
                  ELSE Statistics(ValuesOf(WithValue(chosen)), mean, IF interval THEN mean ELSE None),
                clock, Count(chosen), Count(WithValue(chosen)),
                IF interval /\ reason \notin unread /\ Increasing(stream) THEN Covered(stream, window)
                  ELSE None,
                interval /\ Count(chosen) # 0 /\ NotExclusive(stream, window))

\* A stream that is itself of a window, or of a phase by its first sample, is not cut again.
OfWholeRun(loaded, key) == key[4] = None /\ ByTime(StreamOf(loaded, key))[1].phase = None
SummarizeResources(loaded, windows) ==
    {CaptureSummary(loaded, key) : key \in StreamKeys(loaded)}
    \cup {StageSummary(loaded, key, window) :
            key \in {k \in StreamKeys(loaded) : OfWholeRun(loaded, k)}, window \in windows}
ResourcesRefused(loaded) ==
    \/ \E m \in Sampled(loaded) : SampleRefused(m) \/ ClockRefused({m})
    \/ \E key \in StreamKeys(loaded) : DuplicateInstants(StreamOf(loaded, key))
=============================================================================
