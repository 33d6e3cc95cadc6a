--------------------------- MODULE OverviewLatency ---------------------------
(***************************************************************************)
(* Latency, kept apart by who saw it (overview/calculation/latency.py): what  *)
(* the client measured of a request, and what the markers of the pipeline     *)
(* tell.  loaded is the run read back:                                       *)
(*   [id, events (a set), metrics, canonical, offset, raw (the client's rows:  *)
(*    None, or [intact, rows]), ...]                                          *)
(* and a raw row [request, hash, start, end, e2e, ttft, tpot].                 *)
(***************************************************************************)
EXTENDS OverviewKpi, Sequences

LatencyNames ==
    [e2e |-> "latency.e2e", ttft |-> "latency.ttft", tpot |-> "latency.tpot",
     prefill |-> "latency.prefill", kv_export |-> "latency.kv_export",
     kv_transfer |-> "latency.kv_transfer", kv_transform |-> "latency.kv_transform",
     decode |-> "latency.decode", sampling |-> "latency.sampling", wait |-> "latency.wait"]
Latency(stem) == LatencyNames[stem]

------------------------------------------------------------------------------
(* What the client saw.  Its rows are read again, and are to say the same as    *)
(* the metrics made from them.                                                *)

ClientStems == {"e2e", "ttft", "tpot"}
MeasuredIds(metrics) == {m.request : m \in ByClient(Of(metrics, Latency("e2e")))} \ {None}

RawRefused(loaded, id) ==
    loaded.raw # None
      /\ (~loaded.raw.intact \/ Cardinality({r \in loaded.raw.rows : r.request = id}) > 1)
RawRow(loaded, id) ==
    IF loaded.raw = None THEN None
    ELSE LET rows == {r \in loaded.raw.rows : r.request = id}
         IN  IF rows = {} THEN None ELSE CHOOSE r \in rows : TRUE

MarkerHashes(loaded) ==
    {e.hash : e \in {x \in loaded.events : x.name = "request_received"}} \ {None}
RowRefused(loaded, row, kpis) ==
    \/ MarkerHashes(loaded) # {} /\ row.hash \notin MarkerHashes(loaded)
    \/ row.start # None /\ row.end # None /\ row.e2e # Whole(row.end - row.start)
    \/ \E stem \in ClientStems :
          kpis[Latency(stem)].available /\ row[stem] # kpis[Latency(stem)].value

\* Time per output token needs two tokens, and the instants of the first and last.
TpotHasProvenance(tpot, output) ==
    /\ tpot # None /\ Cardinality(tpot.sources) >= 2
    /\ output # None /\ MetricValue(output) # None /\ MetricValue(output).n > 1
TpotKpi(loaded, e2e, tpot, output) ==
    IF TpotHasProvenance(tpot, output)
      THEN NormalizedMetricKpi(loaded, Latency("tpot"), tpot, "client")
      ELSE Kpi(Latency("tpot"), None, "no explicit tokens", "client_token_interval_mean", 0,
               Scope("client", e2e.request),
               ClockOf(loaded, {IF tpot # None THEN tpot ELSE e2e}), {})

ClientCandidates(metrics, stem, id) == ByClient(OfRequest(Of(metrics, Latency(stem)), id))
OutputTokens(metrics, id) == OfRequest(Of(metrics, "request.output_tokens"), id)

OneClientRequest(loaded, metrics, id) ==
    LET metric(stem) == Selected(ClientCandidates(metrics, stem, id))
    IN  [name \in {Latency(stem) : stem \in ClientStems} |->
            IF name = Latency("tpot")
              THEN TpotKpi(loaded, metric("e2e"), metric("tpot"), Selected(OutputTokens(metrics, id)))
              ELSE NormalizedMetricKpi(loaded, name,
                       metric(IF name = Latency("e2e") THEN "e2e" ELSE "ttft"), "client")]
\* Without two tokens or their instants, only the clock of the token metric is read.
ValueIsRead(metrics, stem, id) ==
    stem = "tpot" => TpotHasProvenance(Selected(ClientCandidates(metrics, "tpot", id)),
                                       Selected(OutputTokens(metrics, id)))
OneClientRefused(loaded, metrics, id, kpis) ==
    \/ \E stem \in ClientStems : Ambiguous(ClientCandidates(metrics, stem, id))
    \/ Ambiguous(OutputTokens(metrics, id)) \/ RawRefused(loaded, id)
    \/ \E m \in OutputTokens(metrics, id) : MetricRefused(m)
    \/ \E stem \in ClientStems : \E m \in ClientCandidates(metrics, stem, id) :
          ClockRefused({m}) \/ (ValueIsRead(metrics, stem, id) /\ MetricRefused(m))
    \/ \E name \in DOMAIN kpis : KpiRefused(kpis[name])
    \/ RawRow(loaded, id) # None /\ RowRefused(loaded, RawRow(loaded, id), kpis)

NoClientRequest(loaded) ==
    [name \in {Latency(stem) : stem \in ClientStems} |->
        NormalizedMetricKpi(loaded, name, None, "client")]
ClientRows(loaded) ==
    [id \in MeasuredIds(loaded.metrics) |->
        OneClientRequest(loaded, OfRequest(loaded.metrics, id), id)]

\* A run that names no request may have no client latency at all.
ClientRowsRefused(loaded, rows) ==
    \/ Ambiguous(ByClient(Of(loaded.metrics, Latency("e2e")))) /\ Cardinality(DOMAIN rows) <= 1
    \/ DOMAIN rows = {} /\ ByClient(Of(loaded.metrics, Latency("e2e"))) # {}
    \/ \E id \in DOMAIN rows :
          OneClientRefused(loaded, OfRequest(loaded.metrics, id), id, rows[id])

Collected(loaded, rows, none) ==
    LET ids == DOMAIN rows
    IN  IF ids = {} THEN none
        ELSE IF Cardinality(ids) = 1 THEN rows[CHOOSE id \in ids : TRUE]
        ELSE AggregateRequestKpis(rows, CHOOSE id \in ids : TRUE)

------------------------------------------------------------------------------
(* What the markers tell: a stage has a duration when it has one start and one   *)
(* end, in order, both on the canonical clock and aligned.                      *)

Pairings ==
    [e2e |-> <<"request_received", "response_done">>,
     prefill |-> <<"prefill_start", "prefill_end">>,
     kv_export |-> <<"kv_export_start", "kv_export_end">>,
     kv_transfer |-> <<"kv_transfer_start", "kv_transfer_end">>,
     kv_transform |-> <<"kv_transform_start", "kv_transform_end">>,
     decode |-> <<"decode_loop_start", "decode_loop_end">>,
     sampling |-> <<"sampling_start", "sampling_end">>]
FirstMarker(stem) == Pairings[stem][1]
LastMarker(stem) == Pairings[stem][2]
DerivedStems == {"e2e", "prefill", "kv_export", "kv_transfer", "kv_transform", "decode"}
PairedStems == DerivedStems \cup {"sampling"}
CanonicalMarkers ==
    {FirstMarker(stem) : stem \in PairedStems} \cup {LastMarker(stem) : stem \in PairedStems}
Markers(loaded) == {e \in loaded.events : e.name \in CanonicalMarkers}
Correlations(loaded) == {e.correlation : e \in Markers(loaded)}
MarkersOf(loaded, correlation) == {e \in Markers(loaded) : e.correlation = correlation}

OnlyOf(events) == IF Cardinality(events) = 1 THEN CHOOSE e \in events : TRUE ELSE None
Pair(events, stem) ==
    LET start == OnlyOf({e \in events : e.name = FirstMarker(stem)})
        end == OnlyOf({e \in events : e.name = LastMarker(stem)})
    IN  [start |-> start, end |-> end,
         reason |-> IF start = None \/ end = None THEN "missing or ambiguous"
                    ELSE IF end.ts < start.ts THEN "reversed" ELSE None]

\* Why a pair that was found may still have no duration.
PairReason(clock, pair) ==
    IF pair.reason # None THEN pair.reason
    ELSE IF pair.start.clock # pair.end.clock THEN "different clock domains"
    ELSE IF ~clock.aligned THEN "alignment evidence is incomplete" ELSE None
EventClock(loaded, events) == IF events = {} THEN UnknownClock ELSE ClockOf(loaded, events)

PipelineMetrics(loaded, stem, correlation) ==
    ByPipeline(OfRequest(Of(loaded.metrics, Latency(stem)), correlation))
PipelineKpi(loaded, stem, pair, correlation) ==
    LET records == {pair.start, pair.end} \ {None}
        clock == EventClock(loaded, records)
        reason == PairReason(clock, pair)
    IN  Kpi(Latency(stem), IF reason = None THEN Whole(pair.end.ts - pair.start.ts) ELSE None,
            reason, "canonical_marker_pair", IF reason = None THEN 1 ELSE 0,
            Scope("pipeline", correlation), clock, {e.id : e \in records})

------------------------------------------------------------------------------
(* Sampling happens once a step: its latency is the sum over the steps, which    *)
(* are to be numbered from zero without a gap and not to overlap.               *)

SamplingMarks(events) == {e \in events : e.name \in {"sampling_start", "sampling_end"}}
StepsOf(events) == {e.step : e \in SamplingMarks(events)}
StepPair(events, step) == Pair({e \in events : e.step = step}, "sampling")
PairedSteps(events) ==
    {k \in StepsOf(events) : \A j \in StepsOf(events) : j <= k => StepPair(events, j).reason = None}
StepsOverlap(events, steps) ==
    \E k \in steps : k + 1 \in steps
                     /\ StepPair(events, k + 1).start.ts < StepPair(events, k).end.ts

SamplingReason(events) ==
    LET steps == StepsOf(events)
    IN  IF steps = {} \/ None \in steps THEN "no step index"
        ELSE IF \E k \in steps : k < 0 THEN "no step index"
        ELSE IF steps # 0..Max(steps) THEN "not contiguous"
        ELSE IF PairedSteps(events) # steps
               THEN StepPair(events, Min(steps \ PairedSteps(events))).reason
        ELSE IF StepsOverlap(events, steps) THEN "overlap" ELSE None

SamplingRecords(events, reason) ==
    IF reason \in {"no step index", "not contiguous"} \/ PairedSteps(events) = {}
      THEN SamplingMarks(events)
      ELSE UNION {{StepPair(events, k).start, StepPair(events, k).end} : k \in PairedSteps(events)}
SamplingTotal(events) ==
    Total([k \in StepsOf(events) |->
              Whole(StepPair(events, k).end.ts - StepPair(events, k).start.ts)])

SamplingRow(loaded, correlation, steps, total, found, records, clock, metric) ==
    LET reason == IF found = None /\ ~clock.aligned THEN "alignment evidence is incomplete" ELSE found
        value == IF reason = None THEN total ELSE None
    IN  [Kpi(Latency("sampling"), value, reason, "sum_explicit_sampling_pairs",
             IF reason = None THEN Cardinality(steps) ELSE 0,
             Scope("pipeline", correlation), clock, {e.id : e \in records})
            EXCEPT !.warned = value # None /\ metric # None /\ metric.value # value]
SamplingKpi(loaded, events, correlation) ==
    LET records == SamplingRecords(events, SamplingReason(events))
    IN  SamplingRow(loaded, correlation, StepsOf(events), SamplingTotal(events),
                    SamplingReason(events), records, EventClock(loaded, records),
                    Selected(PipelineMetrics(loaded, "sampling", correlation)))

\* No waiting is inferred from a gap between two stages.
WaitKpi(loaded, events, correlation) ==
    Kpi(Latency("wait"), None, "no explicit wait intervals", "interval_union", 0,
        Scope("pipeline", correlation), EventClock(loaded, events), {})

OnePipeline(loaded, correlation, events) ==
    [name \in {Latency(stem) : stem \in PairedStems \cup {"wait"}} |->
        IF name = Latency("wait") THEN WaitKpi(loaded, events, correlation)
        ELSE IF name = Latency("sampling") THEN SamplingKpi(loaded, events, correlation)
        ELSE LET stem == CHOOSE s \in DerivedStems : name = Latency(s)
             IN  PipelineKpi(loaded, stem, Pair(events, stem), correlation)]

\* A metric made from the same markers by the merge is to say the same; that of
\* sampling knows the first step only, and a difference is a warning.
OnePipelineRefused(loaded, correlation, events, kpis) ==
    \/ ClockRefused(events)
    \/ \E stem \in PairedStems :
          LET candidates == PipelineMetrics(loaded, stem, correlation)
          IN  \/ Ambiguous(candidates)
              \/ \E m \in candidates :
                    \/ MetricRefused(m)
                    \/ /\ stem # "sampling" /\ kpis[Latency(stem)].available
                       /\ MetricValue(m) # kpis[Latency(stem)].value

NoPipeline ==
    [name \in {Latency(stem) : stem \in PairedStems \cup {"wait"}} |->
        Kpi(name, None, "markers are absent", "none", 0, Scope("pipeline", None), UnknownClock, {})]
PipelineRows(loaded) ==
    [c \in Correlations(loaded) \ {None} |-> OnePipeline(loaded, c, MarkersOf(loaded, c))]
PipelineRefused(loaded, rows) ==
    \/ None \in Correlations(loaded)
    \/ \E c \in DOMAIN rows : OnePipelineRefused(loaded, c, MarkersOf(loaded, c), rows[c])

\* The pairs the stage windows and the transfer stand on: those of one request.
CanonicalPairs(loaded) ==
    LET events == Markers(loaded)
    IN  [stem \in {s \in DerivedStems : /\ Cardinality(Correlations(loaded)) = 1
                                        /\ Pair(events, s).reason = None} |-> Pair(events, stem)]

------------------------------------------------------------------------------
(* The windows resources are summed over: from the start of one stage to the     *)
(* end of another, of one request, on one aligned clock.                         *)

WindowSpecs ==
    {[stage |-> "prefill", from |-> "prefill", to |-> "prefill"],
     [stage |-> "transfer", from |-> "kv_export", to |-> "kv_transform"],
     [stage |-> "decode", from |-> "decode", to |-> "decode"]}
WindowProven(loaded, spec, pipeline, pairs) ==
    /\ {spec.from, spec.to} \subseteq DOMAIN pairs
    /\ pipeline[Latency(spec.from)].available /\ pipeline[Latency(spec.to)].available
    /\ pairs[spec.from].start.clock = pairs[spec.to].end.clock
    /\ pairs[spec.from].start.ts < pairs[spec.to].end.ts
    /\ ClockOf(loaded, {pairs[spec.from].start, pairs[spec.to].end}).aligned
StageWindow(loaded, spec, pipeline, pairs) ==
    LET start == IF spec.from \in DOMAIN pairs THEN pairs[spec.from].start.ts ELSE None
        end == IF spec.to \in DOMAIN pairs THEN pairs[spec.to].end.ts ELSE None
        proven == WindowProven(loaded, spec, pipeline, pairs)
    IN  [stage |-> spec.stage, start |-> start, end |-> end, valid |-> proven,
         request |-> IF proven THEN pairs[spec.from].start.correlation ELSE None,
         clock |-> IF proven THEN pairs[spec.from].start.clock ELSE None,
         hosts |-> IF proven THEN {pairs[spec.from].start.host, pairs[spec.to].end.host} ELSE {}]
CanonicalStageWindows(loaded, pipeline, pairs) ==
    {StageWindow(loaded, spec, pipeline, pairs) : spec \in WindowSpecs}

------------------------------------------------------------------------------
(* The union of intervals, by walking them in order.                             *)

Sweep(state, interval) ==
    IF interval[1] <= state.end
      THEN [state EXCEPT !.end = IF interval[2] > @ THEN interval[2] ELSE @,
                         !.overlapped = @ \/ interval[1] < state.end]
      ELSE [total |-> state.total + state.end - state.start, start |-> interval[1],
            end |-> interval[2], overlapped |-> state.overlapped]
Swept(ordered) ==
    LET walk[i \in 1..Len(ordered)] ==
            IF i = 1 THEN [total |-> 0, start |-> ordered[1][1], end |-> ordered[1][2],
                           overlapped |-> FALSE]
            ELSE Sweep(walk[i - 1], ordered[i])
    IN  walk[Len(ordered)]
UnionDuration(ordered) ==
    IF ordered = <<>> THEN 0 ELSE LET s == Swept(ordered) IN s.total + s.end - s.start
=============================================================================
