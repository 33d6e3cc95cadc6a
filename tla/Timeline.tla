------------------------------ MODULE Timeline ------------------------------
(***************************************************************************)
(* The conversion of a run (perfetto/converter.py): the run is loaded and       *)
(* planned before anything is written; the trace is written to a staging          *)
(* directory, read back and compared with its plan; the request-focused trace     *)
(* and the trace of the NPU's profiler likewise; then the directory is     *)
(* published (how, and what becomes of an input that changes meanwhile, is in       *)
(* Publication).  A step that refuses ends the conversion.                          *)
(***************************************************************************)
EXTENDS NativeRbln

CONSTANTS Inputs,      \* the runs to convert, with the report calculated of each
          Configs      \* [native, focused]: what the caller asks for

\* What the schema and the readers of the captures have seen to: identities,
\* integer times, no value in a sample that was not available.  A row of a capture
\* is one event of it; Kineto's device events name no process.
EventTyped(event) == event.id # None /\ event.ts \in Int /\ event.dur \in Int
SampleTyped(metric) == ~metric.available => metric.value = None
MeasuredTyped(row) ==
    row.start \in Int /\ row.end \in Int /\ row.tokens \in Seq(Int) \cup {None}
RowTyped(capture, row) ==
    /\ row.ts \in Int \cup {None} /\ row.dur \in Int \cup {None}
    /\ capture.source = "kineto" /\ row.kind = "device" => row.process = None
CaptureTyped(capture) ==
    /\ capture.source \in {"kineto", "nsys"} /\ capture.transform \in Int
    /\ \A times \in {capture.bases, capture.offsets} :
          IsFiniteSet(times) /\ times # {} /\ times \subseteq Int
    /\ IsFiniteSet(capture.rows) /\ \A row \in capture.rows : RowTyped(capture, row)
    /\ \A a, b \in capture.rows : a.place = b.place => a = b
SourceTyped(source) ==
    /\ source.capture # None /\ source.capture.source # "rbln" => CaptureTyped(source.capture)
    /\ source.alignment # None => \A side \in {1, 2} : source.alignment.interval[side] \in Int
    /\ source.measured # None
         => IsFiniteSet(source.measured) /\ \A row \in source.measured : MeasuredTyped(row)
RunTyped(run) ==
    /\ run.events \in Seq(EventsSeen(run)) /\ \A e \in EventsSeen(run) : EventTyped(e)
    /\ IsFiniteSet(run.metrics) /\ \A m \in run.metrics : SampleTyped(m)
    /\ IsFiniteSet(run.transforms) /\ \A t \in run.transforms : t.offset \in Int
    /\ \A role \in Roles : SourceTyped(run.sources[role])
ASSUME InputsAssumption == \A i \in Inputs : RunTyped(i.run)

VARIABLES input,       \* [run, kpis, summaries]
          config,
          stage,       \* the step to take next, "published", or the step that failed
          context, plan, native, trace, focused, focusedTrace,
          staged,      \* the files in the staging directory
          published    \* the files in the output directory
vars == <<input, config, stage, context, plan, native, trace, focused, focusedTrace,
          staged, published>>

NoPlan == [tracks |-> {}, slices |-> {}, instants |-> {}, counters |-> {}, flows |-> {},
           grouped |-> FALSE, gaps |-> {}, window |-> None, presentation |-> FALSE]
NoTrace == TraceOf(NoPlan)

Init ==
    /\ input \in Inputs /\ config \in Configs
    /\ stage = "load" /\ context = None /\ plan = NoPlan /\ native = NoDetails
    /\ trace = NoTrace /\ focused = NoPlan /\ focusedTrace = NoTrace
    /\ staged = {} /\ published = {}

\* The conversion ends, and its staging directory goes with it.
Fail(ending) ==
    /\ stage' = ending /\ staged' = {}
    /\ UNCHANGED <<input, config, context, plan, native, trace, focused, focusedTrace, published>>

OneRequest(run) == Cardinality(CorrelationsOf(run, {"request_received"})) = 1
Load ==
    /\ stage = "load"
    /\ IF \/ load_hybrid_run_refused(input.run)
          \/ OneRequest(input.run) /\ ContextRefused(input.run, input.kpis, input.summaries)
         THEN Fail("failed_load")
         ELSE /\ stage' = "plan"
              /\ context' = IF OneRequest(input.run)
                    THEN build_timeline_summary_context(input.run, input.kpis, input.summaries) ELSE None
              /\ UNCHANGED <<input, config, plan, native, trace, focused, focusedTrace, staged,
                             published>>

Plan ==
    /\ stage = "plan"
    /\ IF PlanRefused(EventsSeen(input.run), input.run.metrics, native_envelopes(input.run), context)
         THEN Fail("failed_plan")
         ELSE /\ stage' = IF config.native THEN "details" ELSE "write"
              /\ plan' = build_trace_plan(EventsSeen(input.run), input.run.metrics,
                                      native_envelopes(input.run), context)
              /\ UNCHANGED <<input, config, context, native, trace, focused, focusedTrace, staged,
                             published>>

\* The one capture of the run, None without.
CaptureOf(run) ==
    LET roles == {r \in Roles : run.sources[r].capture # None}
    IN  IF roles = {} THEN None ELSE run.sources[CHOOSE r \in roles : TRUE].capture
IsRbln(capture) == capture # None /\ capture.source = "rbln"
CaptureOfRunRefused(capture) ==
    capture # None /\ IF capture.source = "rbln" THEN RblnRefused(capture.rows)
                                                  ELSE CaptureRefused(capture)
Details ==
    /\ stage = "details"
    /\ IF CaptureOfRunRefused(CaptureOf(input.run)) THEN Fail("failed_details")
         ELSE /\ stage' = "write"
              /\ native' = build_native_detail_plan(CaptureOf(input.run))
              /\ plan' = augment_trace_plan(plan, native')
              /\ UNCHANGED <<input, config, context, trace, focused, focusedTrace, staged,
                             published>>

Write ==
    /\ stage = "write"
    /\ IF WriteRefused(plan) THEN Fail("failed_write")
         ELSE /\ stage' = "validate" /\ trace' = TraceOf(plan)
              /\ staged' = staged \cup {"trace.pftrace"}
              /\ UNCHANGED <<input, config, context, plan, native, focused, focusedTrace, published>>

\* The attributes are part of the trace; a flat one has none.
Attributes == IF context = None THEN {} ELSE context.attributes
Validate ==
    /\ stage = "validate"
    /\ IF \/ ~validate_trace(plan, trace)
          \/ config.native /\ ~native_validation_metadata(plan, native, FALSE)
          \/ ~attributes_valid(Attributes)
         THEN Fail("failed_validate")
         ELSE /\ stage' = IF config.focused THEN "focus" ELSE "separate"
              /\ staged' = staged \cup {"trace_validation.json", "trace_attributes_validation.json"}
              /\ UNCHANGED <<input, config, context, plan, native, trace, focused, focusedTrace,
                             published>>

Focus ==
    /\ stage = "focus"
    /\ IF FocusRefused(plan) \/ WriteRefused(request_focused_plan(plan)) THEN Fail("failed_focus")
         ELSE /\ stage' = "validate_focused"
              /\ focused' = request_focused_plan(plan) /\ focusedTrace' = TraceOf(focused')
              /\ staged' = staged \cup {"trace.request-focused.pftrace"}
              /\ UNCHANGED <<input, config, context, plan, native, trace, published>>

ValidateFocused ==
    /\ stage = "validate_focused"
    /\ IF \/ ~validate_trace(focused, focusedTrace)
          \/ config.native /\ ~native_validation_metadata(focused, native, TRUE)
         THEN Fail("failed_validate_focused")
         ELSE /\ stage' = "separate"
              /\ staged' = staged \cup {"trace.request-focused.validation.json"}
              /\ UNCHANGED <<input, config, context, plan, native, trace, focused, focusedTrace,
                             published>>

\* The capture is copied as it is, and the copy counted by the trace processor.
SeparateOf(run) ==
    IF IsRbln(CaptureOf(run)) THEN separate_traces(CaptureOf(run).rows) ELSE {}
Separate ==
    /\ stage = "separate"
    /\ IF \E view \in SeparateOf(input.run) : config.native
                                    /\ ~NativeTraceAgrees(view, CaptureOf(input.run).rows)
         THEN Fail("failed_separate")
         ELSE /\ stage' = "publish"
              /\ staged' = staged \cup
                    (IF config.native /\ SeparateOf(input.run) # {}
                       THEN {"trace.rbln-native.pftrace", "trace.rbln-native.validation.json"} ELSE {})
              /\ UNCHANGED <<input, config, context, plan, native, trace, focused, focusedTrace,
                             published>>

\* What the manifest of the output must list.
required_artifacts(separate) ==
    {"conversion_manifest.json", "trace.pftrace", "trace_validation.json",
     "trace_attributes_validation.json"}
    \cup (IF config.focused
            THEN {"trace.request-focused.pftrace", "trace.request-focused.validation.json"} ELSE {})
    \cup (IF separate THEN {"trace.rbln-native.pftrace", "trace.rbln-native.validation.json"} ELSE {})

Publish ==
    /\ stage = "publish"
    /\ IF ~(required_artifacts(config.native /\ SeparateOf(input.run) # {})
              \subseteq staged \cup {"conversion_manifest.json"})
         THEN Fail("failed_publish")
         ELSE /\ stage' = "published"
              /\ published' = staged \cup {"conversion_manifest.json"} /\ staged' = {}
              /\ UNCHANGED <<input, config, context, plan, native, trace, focused, focusedTrace>>

Next ==
    \/ Load \/ Plan \/ Details \/ Write \/ Validate \/ Focus \/ ValidateFocused \/ Separate \/ Publish
Spec == Init /\ [][Next]_vars

------------------------------------------------------------------------------
(* Properties.                                                                *)

\* A trace the writer accepted is read back by the trace processor as it was
\* planned, and it, its native events and the focused trace keep the contract:
\* no conversion fails once its trace is written.
WrittenTraceValidates == stage \notin {"failed_validate", "failed_validate_focused"}

\* Where a published trace shows an event: at the ends of slices, as instants.
SliceEndsOf(rows, event) ==
    {<<"first", r>> : r \in {x \in rows : x.note.first = event.id}}
    \cup {<<"last", r>> : r \in {x \in rows : x.note.last = event.id}}
InstantsOf(instants, event) == {i \in instants : i.note.first = event.id}

\* The markers of a pair end a slice; so does a span, which is no boundary.  A
\* boundary is an instant, of a token only while no token was measured, and so
\* is every other event.
IsSpan(event) ==
    event.type = "span" /\ event.name \notin BOUNDARY_EVENT_NAMES \cup PAIR_EVENT_NAMES
DueAsSlice(event) == event.name \in PAIR_EVENT_NAMES \/ IsSpan(event)
DueAsInstant(event) ==
    IF event.name \in BOUNDARY_EVENT_NAMES
      THEN event.name \in {"request_received", "response_done"} \/ TokensOf(context) = {}
      ELSE event.name \notin PAIR_EVENT_NAMES /\ ~IsSpan(event)
ShownOnce(event) ==
    /\ Cardinality(SliceEndsOf(SliceRows(trace), event)) = (IF DueAsSlice(event) THEN 1 ELSE 0)
    /\ Cardinality(InstantsOf(trace.instants, event)) = (IF DueAsInstant(event) THEN 1 ELSE 0)
ShownAs(token) ==
    {i \in trace.instants : i.track = BoundaryEvents /\ i.name = <<"output_token", token.index>>}
SampleOf(metric) ==
    CounterSpec(counter_track_key(metric), metric.ts, metric.value, metric.interval, metric.role)
\* The published trace shows every event of the run, once for each part it has
\* in it, every measured token once and then no marker of a token beside it, and
\* a sample of a resource exactly when it was available.
EveryRecordIsShown ==
    stage = "published" =>
        /\ \A e \in EventsSeen(input.run) : ShownOnce(e)
        /\ \A t \in TokensOf(context) : Cardinality(ShownAs(t)) = 1
        /\ \A m \in input.run.metrics : m.resource => (SampleOf(m) \in trace.counters <=> m.available)

\* The focused trace shows the whole request: each stage of it, exactly the native
\* slices that share time with the client's interval, of whatever length, and no
\* flow that has lost an end.  Time is counted in halves: between two ticks is one.
Shares(spec, window) ==
    \E t \in (2 * window.start)..(2 * window.end) : 2 * spec.ts < t /\ t < 2 * SliceEnd(spec)
ShownFocused(spec) == ExpectedSlice(spec) \in SliceRows(focusedTrace)
FocusKeepsTheRequest ==
    stage = "published" /\ config.focused =>
        /\ \A s \in plan.slices :
              Family(s.track) = "stage" /\ base_track_key(s.track) \in PipelineNames \cup DetailNames
                => ShownFocused(s)
        /\ \A s \in plan.slices : IsNative(s) => (Shares(s, plan.window) <=> ShownFocused(s))
        /\ Dangling(focusedTrace) = {}

\* A flow between native events joins one call to the one activity of the same
\* process that carries its correlation.
NativeFlowsKeepTheirProcess ==
    \A f \in native.flows : \A a, b \in CaptureOf(input.run).rows :
        /\ a.place = f.source /\ b.place = f.destination
        => a.correlation = b.correlation /\ (a.process = b.process \/ b.process = None)

\* What the trace shows of the native captures is all of the request and nothing
\* that belongs to another process.
NativeRowsAreTrue == FocusKeepsTheRequest /\ NativeFlowsKeepTheirProcess
=============================================================================
