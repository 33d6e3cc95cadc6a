-------------------------- MODULE TimelineEvidence --------------------------
(***************************************************************************)
(* What a run of one request shows beside its markers                          *)
(* (perfetto/timeline_summary.py, trace_attributes.py): the client's measured    *)
(* interval and tokens taken to the canonical clock, the report's values, the    *)
(* counts of its markers, and the attributes of the trace.  A measured row is    *)
(* [request, start, end, tokens (None or a sequence), output]; a value of the     *)
(* report is [section, name, available, value, reason, count, sources].          *)
(***************************************************************************)
EXTENDS LoadedRun

------------------------------------------------------------------------------
(* The client's row of the one request.                                        *)

Increasing(seq) == \A i \in 2..Len(seq) : seq[i - 1] < seq[i]
RequestsSeen(run) ==
    {e.request : e \in {x \in EventsSeen(run) : x.name \in {"request_received", "response_done"}}}
MeasuredRows(run) == {row \in run.sources["gpu"].measured : row.request \in RequestsSeen(run)}

TokensRefused(row) ==
    /\ row.tokens # None
    /\ \/ row.tokens = <<>> \/ ~Increasing(row.tokens) \/ row.output # Len(row.tokens)
       \/ row.tokens[1] < 0 \/ row.tokens[1] < row.start \/ row.tokens[Len(row.tokens)] > row.end
HostClocks(source) == {c \in source.clocks : c.monotonic}
ClientTransforms(run) ==
    {t \in run.transforms : /\ t.role = "gpu"
                            /\ t.original \in {c.id : c \in HostClocks(run.sources["gpu"])}}

\* The transform was measured for an interval, and holds only there.
OutsideTransform(row, transform) ==
    \/ row.start < transform.from
    \/ transform.to # None /\ row.end > transform.to
MeasuredRefused(run) ==
    /\ run.sources["gpu"].measured # None
    /\ \/ Cardinality(RequestsSeen(run)) # 1 \/ None \in RequestsSeen(run)
       \/ Cardinality(MeasuredRows(run)) # 1
       \/ Cardinality(HostClocks(run.sources["gpu"])) # 1
       \/ Cardinality(ClientTransforms(run)) # 1
       \/ \E row \in MeasuredRows(run) :
             \/ row.start > row.end \/ TokensRefused(row)
             \/ \E t \in ClientTransforms(run) :
                   \/ t.uncertainty < 0 \/ OutsideTransform(row, t) \/ row.start + t.offset < 0

WindowOf(row, transform) ==
    [start |-> row.start + transform.offset, end |-> row.end + transform.offset,
     request |-> row.request]
TokensOfRow(row, transform) ==
    IF row.tokens = None THEN {}
      ELSE {[index |-> i - 1, ts |-> row.tokens[i] + transform.offset, request |-> row.request] :
              i \in DOMAIN row.tokens}

Evidence(window, tokens) == [window |-> window, tokens |-> tokens]
measured_request_evidence(run) ==
    IF run.sources["gpu"].measured = None THEN Evidence(None, {})
      ELSE LET row == CHOOSE r \in MeasuredRows(run) : TRUE
               t == CHOOSE x \in ClientTransforms(run) : TRUE
           IN  Evidence(WindowOf(row, t), TokensOfRow(row, t))

------------------------------------------------------------------------------
(* The values of the report, each once, a value or a reason.                   *)

KpisRefused(kpis) ==
    \/ Cardinality({<<k.section, k.name>> : k \in kpis}) # Cardinality(kpis)
    \/ \E k \in kpis : IF k.available THEN k.value = None \/ k.reason # None
                                      ELSE k.value # None \/ k.reason = None

\* What the trace says of the quality of its own input.
CorrelationsOf(run, names) ==
    {e.correlation : e \in {x \in EventsSeen(run) : x.name \in names}}
RequestMarkers ==
    {"request_received", "prefill_start", "kv_export_start", "kv_transfer_start",
     "kv_transform_start", "decode_loop_start", "response_done"}
QualityRefused(run) ==
    \/ J!ValidateMarkerGroups(run.events).status # "valid"
    \/ CorrelationsOf(run, RequestMarkers) = {} \/ None \in CorrelationsOf(run, RequestMarkers)
    \/ run.offset = None \/ run.uncertainty = None \/ run.uncertainty < 0
data_quality_annotations(run, kpis) ==
    [markers |-> Len(run.events), joined |-> Cardinality(CorrelationsOf(run, RequestMarkers)),
     offset |-> run.offset, uncertainty |-> run.uncertainty,
     unavailable |-> {<<k.name, k.reason>> : k \in {x \in kpis : ~x.available}},
     profilers |-> {e.profiler : e \in native_envelopes(run)}]

------------------------------------------------------------------------------
(* The attributes: fields of the trace's own metadata.  A value is given with    *)
(* its count; what is not available says why and stands under no number.          *)

Field(base, field, value) == <<base, field, value>>
KpiFields(base, kpi) ==
    {Field(base, "sample_count", kpi.count)}
    \cup (IF kpi.available THEN {Field(base, "value", kpi.value)}
            ELSE {Field(base, "value", "not_available"), Field(base, "reason", kpi.reason)})

\* A device is named by its place among those of its type.
Alias(device, devices) ==
    <<device[1], Cardinality({d \in devices : d[1] = device[1] /\ d[2] < device[2]})>>

\* The aggregate of one stage, or of the whole capture; a stage without one says so.
AggregatesOf(summaries, stage, name, device) ==
    {a \in summaries : a.stage = stage /\ a.name = name /\ a.device = device}
ResourceFields(base, found) ==
    IF found = {}
      THEN {Field(base, "value", "not_available"), Field(base, "sample_count", 0),
            Field(base, "reason", "no canonical stage-window resource aggregate")}
      ELSE UNION {KpiFields(base, a) : a \in found}

\* The fate of the servers' shutdown, as the coordinator classified it.
ShutdownFields(run) ==
    IF run.shutdown.integrity = "invalid"
      THEN {Field(<<"source", "run">>, "shutdown_integrity", "invalid"), Field(<<"source", "run">>, "demo_only", run.shutdown.demo)}
      ELSE IF run.shutdown.stderr = "fatal"
        THEN {Field(<<"source", "run">>, "shutdown_integrity", "invalid"), Field(<<"source", "run">>, "demo_only", TRUE)}
        ELSE {Field(<<"source", "run">>, "shutdown_integrity", "not_available"), Field(<<"source", "run">>, "demo_only", FALSE)}

\* The end-to-end time of the client and that of the pipeline are two records;
\* only an old run has one for both.
E2eOf(kpis, section) == {k \in kpis : k.section = section /\ k.name = "latency.e2e"}
E2eRecords(run, kpi, window) ==
    {m \in run.latencies : m.name = "latency.e2e" /\ m.window = window /\ m.sources = kpi.sources}
ProvenanceRefused(run, kpis) ==
    /\ Cardinality({m \in run.latencies : m.name = "latency.e2e"}) # 1
    /\ \/ \E k \in E2eOf(kpis, "request_facing_latency") :
             {m.value : m \in E2eRecords(run, k, "measured")} # {k.value}
       \/ \E k \in E2eOf(kpis, "pipeline_latency") :
             {m.value : m \in E2eRecords(run, k, "request")} # {k.value}

AttributesRefused(run, kpis, summaries) ==
    \/ ProvenanceRefused(run, kpis)
    \/ {d[1] : d \in run.hardware} # {"gpu", "npu"}
    \/ run.shutdown.integrity \notin {None, "valid", "invalid"}
    \/ \E a, b \in summaries : a # b /\ a.stage = b.stage /\ a.name = b.name /\ a.device = b.device
build_performance_trace_attributes(run, kpis, summaries) ==
    ShutdownFields(run) \cup UNION {KpiFields(<<k.section, k.name>>, k) : k \in kpis}
    \cup UNION {ResourceFields(<<place[1], place[2], Alias(place[3], run.hardware)>>,
                               AggregatesOf(summaries, place[1], place[2], place[3])) :
                  place \in {"prefill", "transfer", "decode", None}
                            \X {"utilization.mean", "utilization.max"} \X run.hardware}

\* Every key is written once.
attributes_valid(written) == \A f, g \in written : f[1] = g[1] /\ f[2] = g[2] => f = g

------------------------------------------------------------------------------

ContextRefused(run, kpis, summaries) ==
    \/ KpisRefused(kpis) \/ MeasuredRefused(run) \/ QualityRefused(run)
    \/ AttributesRefused(run, kpis, summaries)
ContextOf(evidence, kpis, quality, attributes) ==
    [tokens |-> evidence.tokens, window |-> evidence.window, kpis |-> kpis,
     quality |-> quality, attributes |-> attributes]
build_timeline_summary_context(run, kpis, summaries) ==
    ContextOf(measured_request_evidence(run), kpis, data_quality_annotations(run, kpis),
              build_performance_trace_attributes(run, kpis, summaries))
=============================================================================
