------------------------------ MODULE ClockSync ------------------------------
(***************************************************************************)
(* The offset of the NPU clock from four-timestamp probes                   *)
(* (hybrid/clock_sync.py), and the conversion of a source stream to the     *)
(* canonical clock (hybrid/alignment.py).  Pure algorithms: a probe is a    *)
(* record [t0, t1, t2, t3]; Refused stands for what an exception refuses.   *)
(* Python's // and TLA+'s \div both round towards minus infinity.           *)
(***************************************************************************)
EXTENDS Integers, Sequences, FiniteSets

CONSTANT Refused

Abs(n) == IF n < 0 THEN -n ELSE n
Larger(a, b) == IF a >= b THEN a ELSE b

------------------------------------------------------------------------------
(* One probe *)

RoundTrip(s) == (s.t3 - s.t0) - (s.t2 - s.t1)
ProbeOffset(s) == ((s.t1 - s.t0) + (s.t2 - s.t3)) \div 2

\* The checks a sample passes when it is built: the order of each side's own
\* clock, and no more time spent at the target than between send and receive.
SampleAccepted(s) ==
    /\ \A t \in {s.t0, s.t1, s.t2, s.t3} : t >= 0
    /\ s.t3 >= s.t0
    /\ s.t2 >= s.t1
    /\ RoundTrip(s) >= 0

\* A remote clock that is ahead by offset, reached and left with these delays.
RemoteProbe(start, out, offset, processing, in) ==
    [t0 |-> start,
     t1 |-> start + out + offset,
     t2 |-> start + out + offset + processing,
     t3 |-> start + out + processing + in]

\* What survives of a series of probes: a probe that timed out or was refused
\* is dropped, and too few survivors are an error.
CollectedSamples(outcomes, minimum) ==
    LET kept == {i \in DOMAIN outcomes : outcomes[i] # Refused}
        nth(n) == CHOOSE i \in kept : Cardinality({j \in kept : j <= i}) = n
    IN  IF Cardinality(kept) < minimum THEN Refused
        ELSE [n \in 1..Cardinality(kept) |-> outcomes[nth(n)]]

------------------------------------------------------------------------------
(* The estimate *)

\* The value at place k when the values are sorted.
Ranked(values, k) ==
    CHOOSE v \in {values[i] : i \in DOMAIN values} :
        /\ Cardinality({i \in DOMAIN values : values[i] < v}) < k
        /\ k <= Cardinality({i \in DOMAIN values : values[i] <= v})
IntegerMedian(values) ==
    LET middle == Len(values) \div 2
    IN  IF Len(values) % 2 = 1
          THEN Ranked(values, middle + 1)
          ELSE (Ranked(values, middle) + Ranked(values, middle + 1)) \div 2

SameClock ==
    [offset |-> 0, uncertainty |-> 0, roundTrip |-> 0, count |-> 0,
     selected |-> 0, median |-> 0, method |-> "same_clock_domain"]

\* The samples within three median deviations of the median offset, or all of
\* them when those are too few.
CandidateSamples(samples, minimum) ==
    LET offsets == [i \in DOMAIN samples |-> ProbeOffset(samples[i])]
        median == IntegerMedian(offsets)
        deviations == [i \in DOMAIN samples |-> Abs(offsets[i] - median)]
        threshold == Larger(1, 3 * IntegerMedian(deviations))
        near == {i \in DOMAIN samples : deviations[i] <= threshold}
    IN  IF Cardinality(near) < minimum THEN DOMAIN samples ELSE near

\* The candidate with the shortest round trip, the earliest of equals.
SelectedSample(samples, minimum) ==
    LET candidates == CandidateSamples(samples, minimum)
        trip(i) == RoundTrip(samples[i])
    IN  CHOOSE i \in candidates : \A j \in candidates :
            trip(i) < trip(j) \/ (trip(i) = trip(j) /\ i <= j)

EstimateSpread(sample, median) ==   \* mutant: the round trip is left out
    Abs(ProbeOffset(sample) - median)
EstimateUncertainty(sample, median) ==
    Larger(RoundTrip(sample) \div 2, Abs(ProbeOffset(sample) - median))

EstimateFrom(samples, chosen, median) ==
    [offset |-> ProbeOffset(samples[chosen]),
     uncertainty |-> EstimateUncertainty(samples[chosen], median),
     roundTrip |-> RoundTrip(samples[chosen]),
     count |-> Len(samples), selected |-> chosen, median |-> median,
     method |-> "ntp_style_four_timestamp"]
EstimateClock(samples, minimum) ==
    IF Len(samples) < minimum THEN Refused
    ELSE EstimateFrom(samples, SelectedSample(samples, minimum),
                      IntegerMedian([i \in DOMAIN samples |-> ProbeOffset(samples[i])]))

ProbeClock(outcomes, minimum) ==
    LET samples == CollectedSamples(outcomes, minimum)
    IN  IF samples = Refused THEN Refused ELSE EstimateClock(samples, minimum)

------------------------------------------------------------------------------
(* Alignment of a record and of a stream.  A transform is                    *)
(* [source, target, offset, uncertainty, method, available].                 *)

AlignTimestamp(ts, clock, transform) ==
    IF \/ ts < 0
       \/ clock # transform.source
       \/ ~transform.available
       \/ ts + transform.offset < 0
    THEN Refused
    ELSE ts + transform.offset

\* The record on the canonical clock, its identifiers made the role's own and
\* its provenance kept.  A metric has source ids, an event an id and a parent.
AlignRecord(record, role, transform) ==
    [record EXCEPT !.ts = record.ts + transform.offset,
                   !.clock = transform.target,
                   !.id = <<role, record.id>>,
                   !.uncertainty = transform.uncertainty]

\* Two records of a stream, one of them earlier in it, in the order its own
\* clock gave them.
StreamsAdvance(records, keys) ==
    \A i, j \in DOMAIN records :
        i < j /\ keys[i] = keys[j] => records[i].ts <= records[j].ts

\* Each record through the transform of its clock; one record that cannot be
\* converted refuses the whole stream, as does a stream that goes back.
AlignStream(records, keys, role, transforms) ==
    LET ok(r) == /\ r.clock \in DOMAIN transforms
                 /\ AlignTimestamp(r.ts, r.clock, transforms[r.clock]) # Refused
    IN  IF (\A i \in DOMAIN records : ok(records[i])) /\ StreamsAdvance(records, keys)
          THEN [i \in DOMAIN records |->
                  AlignRecord(records[i], role, transforms[records[i].clock])]
          ELSE Refused

\* A stream is one clock and one request, and for a metric one series too.
EventKey(e) == <<e.clock, e.request>>
MetricKey(m) == <<m.clock, m.request, m.name, m.device>>

AlignEventStream(events, role, transforms) ==
    AlignStream(events, [i \in DOMAIN events |-> EventKey(events[i])], role, transforms)
AlignMetricStream(metrics, role, transforms) ==
    AlignStream(metrics, [i \in DOMAIN metrics |-> MetricKey(metrics[i])], role, transforms)

==============================================================================
