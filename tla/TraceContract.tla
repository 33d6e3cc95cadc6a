--------------------------- MODULE TraceContract ----------------------------
(***************************************************************************)
(* The validation of a written trace (perfetto/validation.py): the rows the    *)
(* trace processor reads back are exactly those the plan expects, and the plan  *)
(* itself keeps the contract of the timeline: one summary root, its groups,     *)
(* boundaries, steps and, in a request-focused plan, the samples of its window.  *)
(***************************************************************************)
EXTENDS TraceWriter

RequestResources == TrackKey("summary", "request_resources", 0)

------------------------------------------------------------------------------
(* Rows: what each query is to return.                                        *)

ExpectedSlice(spec) ==
    [track |-> spec.track, name |-> spec.name, ts |-> spec.ts, dur |-> spec.dur,
     note |-> spec.note]
ExpectedFlow(flow) ==
    [id |-> flow.id, source |-> flow.correlation, destination |-> flow.correlation]
UnderRoot(plan, specs) == {s \in specs : IsUnder(plan, s.track, Root)}
HierarchyRow(track) ==
    [key |-> track.key, parent |-> track.parent, ordering |-> track.ordering, rank |-> track.rank]

BaseRowsDiffer(plan, trace) ==
    \/ SliceRows(trace) # {ExpectedSlice(s) : s \in plan.slices}
    \/ trace.instants # plan.instants \/ trace.counters # plan.counters
    \/ KeysOf(trace.tracks) # KeysOf(plan.tracks)
    \/ FlowRows(trace) # {ExpectedFlow(f) : f \in plan.flows}
    \/ Dangling(trace) # {}
TimelineRowsDiffer(plan, trace) ==
    \/ {HierarchyRow(t) : t \in trace.tracks} # {HierarchyRow(t) : t \in plan.tracks}
    \/ {ExpectedSlice(s) : s \in UnderRoot(plan, plan.slices)}
         # {row \in SliceRows(trace) : IsUnder(plan, row.track, Root)}

------------------------------------------------------------------------------
(* The plan's own contract.                                                   *)

\* Every declared flow leaves one end and reaches one, and nothing else does.
EndsLeaving(slices, id) ==
    Cardinality({s \in slices : id \in s.beginFlows}) + Cardinality({s \in slices : id \in s.endFlows})
EndsReached(slices, id) ==
    Cardinality({s \in slices : id \in s.beginTerminating})
      + Cardinality({s \in slices : id \in s.endTerminating})
FlowIds(slices) ==
    UNION {s.beginFlows \cup s.endFlows \cup s.beginTerminating \cup s.endTerminating : s \in slices}
FlowEndpointsDiffer(plan) ==
    \/ FlowIds(plan.slices) # {f.id : f \in plan.flows}
    \/ \E f \in plan.flows : EndsLeaving(plan.slices, f.id) # 1 \/ EndsReached(plan.slices, f.id) # 1
    \/ Cardinality({f.id : f \in plan.flows}) # Cardinality(plan.flows)

\* A capture's envelope tells whether its native events are shown.
EmittedProfilers(plan) == {t.key[2] : t \in {u \in plan.tracks : Family(u.key) = "native"}}
EnvelopesDiffer(plan) ==
    \E s \in plan.slices : /\ s.track = Profiler
                           /\ s.note.emitted # (s.note.profiler \in EmittedProfilers(plan))
MetadataDiffers(plan) ==
    Cardinality({i \in plan.instants : i.name[1] = "clock_metadata"}) # (IF plan.grouped THEN 0 ELSE 1)

SummaryTracks(plan) == {t \in plan.tracks : Family(t.key) \in {"summary", "request_resources"}}
RequiredGroups(plan) ==
    {<<Boundaries, Root>>, <<BoundaryEvents, Boundaries>>, <<Pipeline, Root>>, <<DecodeDetails, Root>>}
    \cup (IF \E t \in plan.tracks : t.key = Profiler \/ Family(t.key) = "native"
            THEN {<<NativeDetails, Root>>} ELSE {})
    \cup (IF RequestResources \in KeysOf(plan.tracks) THEN {<<RequestResources, Root>>} ELSE {})
GroupsDiffer(plan) ==
    \/ {t.key : t \in {u \in SummaryTracks(plan) : u.parent = None}} # {Root}
    \/ \E t \in SummaryTracks(plan) : ~IsUnder(plan, t.key, Root)
    \/ \E group \in RequiredGroups(plan) :
          ~\E t \in plan.tracks : t.key = group[1] /\ t.parent = group[2]
    \/ \E t \in plan.tracks : /\ Family(t.key) = "stage"
                              /\ base_track_key(t.key) \in PipelineNames \cup DetailNames
                              /\ t.parent # ParentOf(base_track_key(t.key))

BoundariesDiffer(plan) ==
    \E kind \in {"request_received", "response_done"} :
        1 # Cardinality({i \in plan.instants : i.track = BoundaryEvents /\ i.name[1] = kind})

\* The steps of a correlation, and the steps its samples belong to.
ShownSteps(plan, stage) ==
    {s \in plan.slices : Family(s.track) = "stage" /\ base_track_key(s.track) = stage}
StepIds(specs) == {<<s.note.correlation, s.note.step>> : s \in specs}
StepsDiffer(steps, samples) ==
    \/ Cardinality(StepIds(steps)) # Cardinality(steps)
    \/ \E id \in StepIds(steps) : \E k \in 0..id[2] : <<id[1], k>> \notin StepIds(steps)
    \/ ~(StepIds(samples) \subseteq StepIds(steps))

WindowDiffers(window) == window = None \/ window.start < 0 \/ window.end < window.start
OutsideWindow(c, window) ==
    \/ c.role \notin {"baseline", "background", "final"}
    \/ c.role = "baseline" /\ c.ts > window.start
    \/ c.role = "final" /\ c.ts < window.end
    \/ c.role = "background"
         /\ \/ c.interval = None \/ c.interval < 0
            \/ c.ts < window.start \/ c.ts - c.interval >= window.end
SamplesDiffer(counters, window) ==
    \/ Cardinality({<<c.track, c.ts>> : c \in counters}) # Cardinality(counters)
    \/ \E c \in counters : OutsideWindow(c, window)
    \/ \E b, c \in counters : b # c /\ b.track = c.track /\ b.role = c.role /\ b.role # "background"
PresentationDiffers(plan) ==
    \/ \E s \in plan.slices : s.track \in {StageKey("request"), Profiler}
    \/ \E t \in plan.tracks : Family(t.key) = "telemetry"
    \/ WindowDiffers(plan.window)
    \/ plan.counters # {} /\ RequestResources \notin KeysOf(plan.tracks)
    \/ \E c \in plan.counters : ~IsUnder(plan, c.track, RequestResources)
    \/ SamplesDiffer(plan.counters, plan.window)

TimelineContractBroken(plan) ==
    \/ GroupsDiffer(plan) \/ BoundariesDiffer(plan)
    \/ StepsDiffer(ShownSteps(plan, "npu_decode_step"), ShownSteps(plan, "sampling"))
    \/ plan.presentation /\ PresentationDiffers(plan)
    \/ ~plan.presentation
         /\ 1 # Cardinality({s \in plan.slices : s.track = StageKey("request")})
    \/ \E gap \in plan.gaps : gap.end < gap.start

plan_contract_broken(plan) ==
    \/ EnvelopesDiffer(plan) \/ FlowEndpointsDiffer(plan) \/ MetadataDiffers(plan)
    \/ plan.grouped /\ TimelineContractBroken(plan)

validate_trace(plan, trace) ==
    /\ ~plan_contract_broken(plan)
    /\ ~BaseRowsDiffer(plan, trace)
    /\ plan.grouped => ~TimelineRowsDiffer(plan, trace)
=============================================================================
