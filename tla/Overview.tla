------------------------------ MODULE Overview ------------------------------
(***************************************************************************)
(* The Overview of a run (overview/generator.py): the run and its trace are      *)
(* loaded, the KPIs calculated family by family, each from its own evidence,      *)
(* the report built, and the report checked against the trace before anything      *)
(* is written.  How the files get out, and what becomes of an input that changes    *)
(* meanwhile, is in Publication; what a loaded run has been checked for besides      *)
(* its markers is in LoadedRun.                                                  *)
(***************************************************************************)
EXTENDS OverviewReport

CONSTANT Inputs        \* [loaded, shown]: a run and what its trace is like

\* What every loaded run is: its events are those of its lines, finitely many, with
\* whole nanoseconds and steps (what is no step counted from zero reads as none), and
\* there is a number wherever a metric has a value, and the samples of a stream are on
\* lines of their own.  None is none of the values it stands in for.
RunTyped(run) ==
    /\ DOMAIN run.lines \subseteq Nat /\ IsFiniteSet(DOMAIN run.lines)
    /\ run.events = {run.lines[i] : i \in DOMAIN run.lines} /\ None \notin run.events
    /\ \A e \in run.events : e.ts \in Int /\ e.step \in Nat \cup {None}
    /\ IsFiniteSet(run.metrics) /\ None \notin run.metrics
    /\ \A m \in run.metrics :
          m.value \in Fraction \cup {None} /\ m.ts \in Int /\ m.place \in Int
    /\ \A m, n \in Sampled(run) : StreamKey(m) = StreamKey(n) /\ m.place = n.place => m = n
Reasons ==
    {"missing or ambiguous", "reversed", "different clock domains", "no step index",
     "not contiguous", "overlap", "alignment evidence is incomplete", "markers are absent",
     "one or more unavailable", "not present", "unavailable", "no explicit wait intervals",
     "one timestamp", "not increasing", "not tiled", "endpoint unavailable", "no overlap",
     "partial", "no valid canonical stage window", "no common clock", "not the same host"}
ASSUME NoneAssumption == None \notin Reasons /\ None \notin Fraction
ASSUME InputsAssumption == \A i \in Inputs : RunTyped(i.loaded) /\ i.shown.kpis \in Nat

VARIABLES input,
          stage,       \* the step to take next, "validated" or "refused_" and a step
          marker,      \* the verdict on the run's markers
          paired,      \* the slices planned from its events
          pairs,       \* the marker pairs of its one request
          bundle, kpis, windows, resources, report,
          mismatches   \* what the last check found
vars == <<input, stage, marker, paired, pairs, bundle, kpis, windows, resources, report, mismatches>>

loaded == input.loaded
NoKpis == [client |-> None, pipeline |-> None, throughput |-> None, transfer |-> None]

Init ==
    /\ input \in Inputs
    /\ stage = "load" /\ marker = None /\ paired = {} /\ pairs = <<>> /\ bundle = None
    /\ kpis = NoKpis /\ windows = {} /\ resources = {} /\ report = None /\ mismatches = {}

\* A step that refuses ends the generation; nothing has been written.
Refuse(outcome) ==
    /\ stage' = outcome
    /\ UNCHANGED <<input, marker, paired, pairs, bundle, kpis, windows, resources, report,
                   mismatches>>

Load ==
    /\ stage = "load"
    /\ \E verdict \in {J!ValidateMarkerGroups(loaded.lines)} :
          IF verdict.status # "valid" \/ PairingRefused(loaded.events) THEN Refuse("refused_load")
          ELSE /\ stage' = "trace" /\ marker' = verdict
               /\ paired' = assign_concurrent_lanes(pair_slices(loaded.events))
               /\ UNCHANGED <<input, pairs, bundle, kpis, windows, resources, report, mismatches>>

Trace ==
    /\ stage = "trace"
    /\ IF \/ DecodeDetailsRefused(paired) \/ FlowsRefused(paired)
          \/ input.shown.run # loaded.id
         THEN Refuse("refused_trace")
         ELSE /\ stage' = "client" /\ bundle' = MatchingBundle(input.shown, loaded, paired)
              /\ UNCHANGED <<input, marker, paired, pairs, kpis, windows, resources, report,
                             mismatches>>

RequestFacingLatency ==
    /\ stage = "client"
    /\ \E rows \in {ClientRows(loaded)} :
          IF ClientRowsRefused(loaded, rows) \/ AggregateRefused(rows) THEN Refuse("refused_client")
          ELSE /\ stage' = "pipeline"
               /\ kpis' = [kpis EXCEPT !.client = Collected(loaded, rows, NoClientRequest(loaded))]
               /\ UNCHANGED <<input, marker, paired, pairs, bundle, windows, resources, report,
                              mismatches>>

PipelineLatency ==
    /\ stage = "pipeline"
    /\ \E rows \in {PipelineRows(loaded)} :
          IF PipelineRefused(loaded, rows) THEN Refuse("refused_pipeline")
          ELSE /\ stage' = "windows" /\ pairs' = CanonicalPairs(loaded)
               /\ kpis' = [kpis EXCEPT !.pipeline = Collected(loaded, rows, NoPipeline)]
               /\ UNCHANGED <<input, marker, paired, bundle, windows, resources, report, mismatches>>

StageWindows ==
    /\ stage = "windows" /\ stage' = "throughput"
    /\ windows' = CanonicalStageWindows(loaded, kpis.pipeline, pairs)
    /\ UNCHANGED <<input, marker, paired, pairs, bundle, kpis, resources, report, mismatches>>

Throughput ==
    /\ stage = "throughput"
    /\ IF ThroughputRefused(loaded) THEN Refuse("refused_throughput")
       ELSE /\ stage' = "transfer"
            /\ kpis' = [kpis EXCEPT !.throughput = ThroughputAndTokens(loaded)]
            /\ UNCHANGED <<input, marker, paired, pairs, bundle, windows, resources, report,
                           mismatches>>

Transfer ==
    /\ stage = "transfer"
    /\ \E transfer \in {TransferKpis(loaded, kpis.pipeline, pairs)} :
          IF TransferRefused(loaded, kpis.pipeline, pairs, transfer) THEN Refuse("refused_transfer")
          ELSE /\ stage' = "resources" /\ kpis' = [kpis EXCEPT !.transfer = transfer]
               /\ UNCHANGED <<input, marker, paired, pairs, bundle, windows, resources, report,
                              mismatches>>

Resources ==
    /\ stage = "resources"
    /\ IF ResourcesRefused(loaded) THEN Refuse("refused_resources")
       ELSE /\ stage' = "report" /\ resources' = SummarizeResources(loaded, windows)
            /\ UNCHANGED <<input, marker, paired, pairs, bundle, kpis, windows, report, mismatches>>

Report ==
    /\ stage = "report"
    /\ IF ReportRefused(loaded, bundle, kpis) THEN Refuse("refused_report")
       ELSE /\ stage' = "validate"
            /\ report' = BuildOverviewReport(loaded, bundle, kpis, resources, marker)
            /\ UNCHANGED <<input, marker, paired, pairs, bundle, kpis, windows, resources, mismatches>>

\* A report that says something else than the trace is not published.
Validate ==
    /\ stage = "validate"
    /\ mismatches' = OverviewMismatches(loaded, bundle, paired, report)
    /\ stage' = IF mismatches' = {} THEN "validated" ELSE "refused_validate"
    /\ UNCHANGED <<input, marker, paired, pairs, bundle, kpis, windows, resources, report>>

Next ==
    \/ Load \/ Trace \/ RequestFacingLatency \/ PipelineLatency \/ StageWindows \/ Throughput
    \/ Transfer \/ Resources \/ Report \/ Validate
Spec == Init /\ [][Next]_vars

------------------------------------------------------------------------------
(* Properties.                                                               *)

\* What a sampled metric was in each unit of time of a window: the values of the
\* available samples whose own interval holds that unit.
SpeaksFor(stream, i, t) ==
    /\ stream[i].interval # None /\ stream[i].interval = Delta(stream, i)
    /\ stream[i - 1].ts <= t /\ t < stream[i].ts /\ stream[i].available
Known(stream, window) ==
    \A t \in window.start..(window.end - 1) : \E i \in Later(stream) : SpeaksFor(stream, i, t)
ValueAt(stream, t) == stream[CHOOSE i \in Later(stream) : SpeaksFor(stream, i, t)].value
MeanOverInstants(stream, window) ==
    Mean([t \in window.start..(window.end - 1) |-> ValueAt(stream, t)])
MayDescribe(summary, stream, window) ==
    /\ window.valid /\ summary.clock.aligned /\ stream[1].host \in window.hosts
    /\ Increasing(stream)
InOrder(s) == AtMost(s.min, s.p50) /\ AtMost(s.p50, s.p95) /\ AtMost(s.p95, s.max)
Between(mean, s) == mean # None => AtMost(s.min, mean) /\ AtMost(mean, s.max)

\* The mean of a utilization or a power over a stage is the mean over every moment of
\* that stage: it is there exactly when each moment was sampled, and a moment that was
\* not is never filled from a neighbour; its order statistics are in order, and the
\* mean between them (docs/usage.md:486-492).
StageMeansAreExact ==
    \A s \in resources :
       /\ s.statistics.min # None =>
             /\ InOrder(s.statistics) /\ Between(s.statistics.mean, s.statistics)
             /\ Between(s.statistics.weighted, s.statistics)
       /\ s.stage # None /\ s.key[1] \in IntervalNames =>
             LET stream == InFileOrder(StreamOf(loaded, s.key))
                 window == CHOOSE w \in windows : w.stage = s.stage
             IN  IF ~MayDescribe(s, stream, window) THEN s.statistics.mean = None
                 ELSE /\ (s.statistics.mean # None) <=> Known(stream, window)
                      /\ s.statistics.mean # None =>
                            s.statistics.mean = MeanOverInstants(stream, window)

\* A mean over several requests, or over several intervals of one, stands on all of
\* them: the sum over every marker of the run, or over every request the client
\* measured, divided by the requests, and never the mean of those that happen to be
\* known.  (What the client measured without naming a request counts for none:
\* calculation/latency.py:136-152.)
MarkerTime(events, name) == SumFunction([e \in Named(events, name) |-> e.ts])
ClientMeasured(metrics) == {m \in ByClient(Of(metrics, Latency("e2e"))) : m.request # None}
MeansHideNothing ==
    /\ kpis.pipeline # None =>
          \A stem \in PairedStems :
             LET kpi == kpis.pipeline[Latency(stem)]
             IN  kpi.available =>
                    kpi.value.n * Cardinality(Correlations(loaded))
                      = kpi.value.d * (MarkerTime(loaded.events, LastMarker(stem))
                                         - MarkerTime(loaded.events, FirstMarker(stem)))
    /\ kpis.client # None /\ kpis.client[Latency("e2e")].available =>
          LET mean == kpis.client[Latency("e2e")].value
              sum == SumOf(ClientMeasured(loaded.metrics))
          IN  mean.n * (Cardinality(MeasuredIds(loaded.metrics)) * sum.d) = mean.d * sum.n
    /\ kpis.transfer # None =>
          \A name \in ObservabilityNames :
             kpis.transfer[name].available =>
                \A m \in Observed(loaded, name, kpis.transfer[name].scope.request) : m.available

\* The report, the plan and the trace tell one story in three ways: the KPIs add up
\* marker pairs, the plan pairs them anew, the trace is read back.  For a run whose
\* markers are all on the canonical clock with their uncertainty known, they agree,
\* however many requests, steps and concurrent lanes it has.
OnOneClock == ClockOf(loaded, Markers(loaded)).aligned
                 /\ \A e \in Markers(loaded) : e.method # None /\ e.uncertainty # None
ReportsReconcile == stage = "refused_validate" => ~OnOneClock
=============================================================================
