---------------------------- MODULE OverviewReport ----------------------------
(***************************************************************************)
(* The report and its last check (overview/report.py, overview/validation.py,    *)
(* overview/loader.py): the KPIs next to what the run says of itself, and the      *)
(* durations of the KPIs against the slices of the trace that shows the same        *)
(* run.  bundle is the trace beside the run:                                      *)
(*   [run, compact (its report left the rows out), rows (a bag of slices), counts].  *)
(* A slice row is <<stage, lane, ts, dur>>.                                        *)
(***************************************************************************)
EXTENDS OverviewResources, TracePairs

J == INSTANCE MarkerJoin

------------------------------------------------------------------------------
(* What the run says of itself.                                                *)

\* An option of a command may be given once; both commands must agree on it.
OptionRefused(values) == Len(values) > 1 \/ \E i \in DOMAIN values : values[i] < 0
Option(values) == IF values = <<>> THEN None ELSE values[1]
SharedOptionRefused(commands) ==
    LET given == {role \in DOMAIN commands : Option(commands[role]) # None}
    IN  \/ \E role \in DOMAIN commands : OptionRefused(commands[role])
        \/ given # {} /\ (Cardinality(given) # 2
                          \/ Cardinality({Option(commands[role]) : role \in given}) # 1)
SharedOption(commands) ==
    LET given == {Option(commands[role]) : role \in DOMAIN commands} \ {None}
    IN  IF given = {} THEN None ELSE CHOOSE value \in given : TRUE

\* The one KPI of that name the client's side has.
ClientValue(kpis, name) ==
    IF name \in DOMAIN kpis.throughput /\ kpis.throughput[name].available
      THEN kpis.throughput[name].value.n ELSE None
RequestCount(loaded, kpis) ==
    IF ClientValue(kpis, "request.count") # None THEN ClientValue(kpis, "request.count")
    ELSE loaded.workload.requests
WorkloadRefused(loaded, kpis) ==
    \/ /\ loaded.provenance.measured # None /\ RequestCount(loaded, kpis) # None
       /\ loaded.provenance.measured # RequestCount(loaded, kpis)
    \/ loaded.provenance.measured # None /\ loaded.provenance.measured < 0
    \/ SharedOptionRefused(loaded.provenance.commands)
Workload(loaded, kpis) ==
    [requests |-> RequestCount(loaded, kpis),
     tokens |-> [name \in TokenNames |-> ClientValue(kpis, name)],
     concurrency |-> loaded.workload.concurrency,
     maxModelLen |-> LET shared == SharedOption(loaded.provenance.commands)
                     IN  IF shared \in {None, 0} THEN loaded.workload.maxModelLen ELSE shared]

\* A model is named by the last part of its path; the path stays private.
ModelRefused(model) ==
    model.path = <<>> \/ model.path[Len(model.path)] \in {"", ".", ".."}
SafeModels(loaded) ==
    {[role |-> m.role, name |-> m.path[Len(m.path)], dtype |-> m.dtype] : m \in loaded.models}

NativeProfiles(loaded) ==
    {[profiler |-> e.profiler, alignment |-> "unaligned",
      structure |-> IF e.profiler = "npu_rbln" THEN "deferred" ELSE "not_applicable"] :
       e \in loaded.envelopes}

\* Aligned is said with method, offset and uncertainty at hand only.
Alignment(loaded) ==
    LET uncertainty == IF loaded.uncertainty = None THEN None
                       ELSE IF loaded.uncertainty < 0 THEN None ELSE loaded.uncertainty
    IN  [status |-> IF None \in {loaded.method, loaded.offset, uncertainty} THEN "not_available"
                    ELSE "aligned",
         method |-> loaded.method, offset |-> loaded.offset, uncertainty |-> uncertainty]

SoleInteger(loaded, name) ==
    LET found == Of(loaded.metrics, name)
    IN  IF Cardinality(found) # 1 THEN 0
        ELSE IF MetricValue(Selected(found)) = None THEN 0 ELSE MetricValue(Selected(found)).n
Limitations(loaded) ==
    {"one request", "diagnostic captures"}
    \cup {"native events are unaligned" : e \in loaded.envelopes}
    \cup {"RBLN events are apart" : e \in {x \in loaded.envelopes : x.profiler = "npu_rbln"}}
DataQuality(loaded, marker) ==
    LET resources == Sampled(loaded)
    IN  [status |-> loaded.status, markers |-> Len(loaded.lines), verdict |-> marker.status,
         missing |-> Cardinality(marker.missing), duplicates |-> Cardinality(marker.duplicates),
         pairing |-> Cardinality(marker.pairing), ordering |-> Cardinality(marker.ordering),
         joined |-> SoleInteger(loaded, "hybrid.joined_requests"),
         unjoined |-> SoleInteger(loaded, "hybrid.unjoined_requests"),
         method |-> IF \E m \in Of(loaded.metrics, Latency("e2e")) : m.joined = "correlation_id"
                      THEN "correlation_id"
                    ELSE "not_available",
         alignment |-> Alignment(loaded), samples |-> Cardinality(resources),
         available |-> Cardinality({m \in resources : m.available}),
         limitations |-> Limitations(loaded)]

ReportRefused(loaded, bundle, kpis) ==
    \/ loaded.id # bundle.run \/ WorkloadRefused(loaded, kpis)
    \/ \E m \in loaded.models : ModelRefused(m)
BuildOverviewReport(loaded, bundle, kpis, resources, marker) ==
    [run |-> loaded.id, workload |-> Workload(loaded, kpis), models |-> SafeModels(loaded),
     hardware |-> loaded.hardware, kpis |-> kpis, resources |-> resources,
     quality |-> DataQuality(loaded, marker), trace |-> bundle.counts, natives |-> NativeProfiles(loaded)]

------------------------------------------------------------------------------
(* The phases of the trace: planned from the events, read back from the trace.    *)

ReconciledStems == DerivedStems \cup {"sampling"}
TrackOfStem(stem) ==
    CASE stem = "e2e" -> "request" [] stem = "prefill" -> "gpu_prefill"
      [] stem = "decode" -> "npu_decode" [] OTHER -> stem
RowOf(item) == <<base_track_key(item.spec.track), item.spec.track[3], item.spec.ts, item.spec.dur>>

\* Bags of slices, and the durations of one stage among them.
PlannedRows(paired) == [row \in {RowOf(item) : item \in paired} |->
                           Cardinality({item \in paired : RowOf(item) = row})]
RowsOfStem(rows, stem) == {row \in DOMAIN rows : row[1] = TrackOfStem(stem)}
Durations(rows, stem) ==
    [dur \in {row[4] : row \in RowsOfStem(rows, stem)} |->
        SumFunction([row \in {r \in RowsOfStem(rows, stem) : r[4] = dur} |-> rows[row]])]
DurationOf(rows, stem) == SumFunction([row \in RowsOfStem(rows, stem) |-> rows[row] * row[4]])
CountOfRows(rows, stem) == SumFunction([row \in RowsOfStem(rows, stem) |-> rows[row]])

\* Every lane of a stage is a track of its own; what the planned tracks show is read back.
LaneTrack(row) == <<row[1], row[2]>>
OnTracks(rows, tracks) == Restrict(rows, {row \in DOMAIN rows : LaneTrack(row) \in tracks})
ActualRowsOfFirstLane(bundle, planned) ==   \* mutant: the one track named like the stage
    OnTracks(bundle.rows, {LaneTrack(row) : row \in {r \in DOMAIN planned : r[2] = 0}})
ActualRows(bundle, planned) == OnTracks(bundle.rows, {LaneTrack(row) : row \in DOMAIN planned})

PhaseRow(bundle, planned, stem) ==
    LET shown == IF bundle.compact THEN planned ELSE ActualRows(bundle, planned)
    IN  [count |-> CountOfRows(planned, stem), planned |-> DurationOf(planned, stem),
         shown |-> DurationOf(shown, stem), matched |-> Durations(shown, stem) = Durations(planned, stem)]

------------------------------------------------------------------------------
(* The trace beside a run is planned from it anew, read back, and accepted when    *)
(* the fresh reading agrees with the plan and with the stored validation.          *)

MatchingBundle(shown, loaded, paired) ==
    [run |-> shown.run, compact |-> shown.compact, rows |-> PlannedRows(paired),
     counts |-> [steps |-> Cardinality({item \in paired : item.spec.note.step # None}),
                 kpis |-> shown.kpis, flows |-> Cardinality(DrawnFlows(paired)),
                 counters |-> shown.kpis + Cardinality({m \in Sampled(loaded) : m.value # None}),
                 dangling |-> 0, errors |-> 0]]

------------------------------------------------------------------------------
(* The verdict: the KPIs, the plan and the trace say the same.                    *)

ExpectedDuration(rows, kpi, stem) ==
    IF kpi.method # AcrossRequests THEN Whole(rows[stem].planned)
    ELSE IF rows["e2e"].count = 0 THEN None ELSE Over(rows[stem].planned, rows["e2e"].count)
PhaseMismatches(rows, kpis) ==
    {stem \in ReconciledStems :
       ~rows[stem].matched
         \/ kpis.pipeline[Latency(stem)].value # ExpectedDuration(rows, kpis.pipeline[Latency(stem)], stem)}
StepCount(paired) ==
    Cardinality(OfStage(paired, "npu_decode_step")) + Cardinality(OfStage(paired, "sampling"))
AvailableResources(loaded) == Cardinality({m \in Sampled(loaded) : m.available})
CountMismatches(loaded, bundle, paired) ==
    LET counts == bundle.counts
        expected == [steps |-> StepCount(paired),
                     counters |-> AvailableResources(loaded) + counts.kpis,
                     flows |-> Cardinality(DrawnFlows(paired)), dangling |-> 0, errors |-> 0]
    IN  {name \in DOMAIN expected : counts[name] # expected[name]}
OverviewMismatches(loaded, bundle, paired, report) ==
    PhaseMismatches([stem \in ReconciledStems |-> PhaseRow(bundle, PlannedRows(paired), stem)],
                    report.kpis)
    \cup CountMismatches(loaded, bundle, paired)
=============================================================================
