---------------------------- MODULE TracePlanner ----------------------------
(***************************************************************************)
(* The plan of a run (perfetto/planner.py): the paired slices, the envelopes  *)
(* of the native profilers, the boundary instants, the unpaired events, the   *)
(* resource counters, and the tracks they are shown on.  A run with a          *)
(* timeline summary is grouped under it; without one the plan is the legacy    *)
(* flat one.  The context is None or                                          *)
(* [tokens, window, kpis]: the evidence timeline_summary.py found.             *)
(***************************************************************************)
EXTENDS TracePairs

CONSTANT RESOURCE_TRACK_ORDER   \* the catalog's order of the resource metrics

Root == TrackKey("summary", "root", 0)
Boundaries == TrackKey("summary", "boundaries", 0)
BoundaryEvents == TrackKey("summary", "boundaries.events", 0)
Pipeline == TrackKey("summary", "pipeline", 0)
DecodeDetails == TrackKey("summary", "decode_details", 0)
NativeDetails == TrackKey("summary", "native_details", 0)
Resources == TrackKey("telemetry", "resources", 0)
Profiler == StageKey("profiler")
ClockMetadata == StageKey("clock_metadata")
PhaseKey(phase) == TrackKey("phase", phase, 0)

BOUNDARY_EVENT_NAMES ==
    {"request_received", "first_token_emitted", "token_emitted", "response_done"}

------------------------------------------------------------------------------
(* Tracks.                                                                   *)

PipelineNames == {s.track : s \in PipelineStages}
DetailNames == {s.track : s \in DetailStages}
RankOf(name) == (CHOOSE s \in PipelineStages \cup DetailStages : s.track = name).rank

track_sibling_order_rank(name, lane) ==
    CASE name \in PipelineNames -> RankOf(name) + lane * Cardinality(PipelineStages)
      [] name \in DetailNames -> RankOf(name) + lane * Cardinality(DetailStages)
      [] name = "profiler" -> lane
      [] OTHER -> (IF name = "request" THEN 1 ELSE 2) + lane

processing_group_tracks(include_native) ==
    {TrackSpec(Root, "group", None, "explicit", None),
     TrackSpec(Boundaries, "group", Root, "explicit", 0),
     TrackSpec(BoundaryEvents, "slice", Boundaries, None, 0),
     TrackSpec(Pipeline, "group", Root, "explicit", 1),
     TrackSpec(DecodeDetails, "group", Root, "explicit", 2)}
    \cup (IF include_native
            THEN {TrackSpec(NativeDetails, "group", Root, "explicit", 3)} ELSE {})

ParentOf(name) ==
    CASE name \in PipelineNames -> Pipeline
      [] name \in DetailNames -> DecodeDetails
      [] name = "profiler" -> NativeDetails
      [] OTHER -> Boundaries

\* A lane of a stage or of a phase; a flat plan orders nothing.
SliceTrack(key, grouped) ==
    IF grouped
      THEN TrackSpec(key, "slice", ParentOf(base_track_key(key)), None,
                     IF Family(key) = "phase" THEN 2
                       ELSE track_sibling_order_rank(base_track_key(key), key[3]))
      ELSE TrackSpec(key, "slice", None, None, None)

------------------------------------------------------------------------------
(* Counters: the available gauges of resource metrics, one track for each      *)
(* metric of each device.  A device is None (the host) or <<type, index>>.     *)

counter_track_key(metric) == TrackKey("counter", metric.name, metric.device)
ResourceMetrics(metrics) == {m \in metrics : m.resource}
Available(metrics) == {m \in ResourceMetrics(metrics) : m.available}
CountersRefused(metrics) ==
    \/ \E m \in ResourceMetrics(metrics) : m.clock # CanonicalClock \/ ~m.gauge
    \/ \E m \in Available(metrics) : m.value = None
resource_counters(metrics) ==
    {CounterSpec(counter_track_key(m), m.ts, m.value, m.interval, m.role) :
       m \in Available(metrics)}

ResourceGroup(device) ==
    IF device = None THEN TrackKey("telemetry", "cpu_system", 0)
                     ELSE TrackKey("telemetry", device[1], device[2])
GroupRank(device) ==
    IF device = None THEN 0 ELSE (IF device[1] = "gpu" THEN 100 ELSE 200) + device[2]

\* The place of a counter's track among those of its device.
RankInGroup(key, keys) ==
    Cardinality({other \in keys : /\ other[3] = key[3]
                                  /\ RESOURCE_TRACK_ORDER[other[2]] < RESOURCE_TRACK_ORDER[key[2]]})

group_resource_tracks(keys) ==
    {TrackSpec(Resources, "group", None, "explicit", None)}
    \cup {TrackSpec(ResourceGroup(key[3]), "group", Resources, "explicit", GroupRank(key[3])) :
            key \in keys}
    \cup {TrackSpec(key, "counter", ResourceGroup(key[3]), None, RankInGroup(key, keys)) :
            key \in keys}
CounterTracks(keys, grouped) ==
    IF grouped THEN group_resource_tracks(keys)
               ELSE {TrackSpec(key, "counter", None, None, None) : key \in keys}

------------------------------------------------------------------------------
(* Slices of the native envelopes, instants, and events left unpaired.        *)

EnvelopesRefused(envelopes) ==
    \E e \in envelopes : e.ts < 0 \/ e.dur < 0 \/ e.uncertainty < 0 \/ ~e.partial
native_slices(envelopes) ==
    {SliceSpec(Profiler, <<e.profiler, 0>>, e.ts, e.dur, Note(None, None, None, None, e.profiler)) :
       e \in envelopes}

boundary_instant(event, grouped) ==
    InstantSpec(IF grouped THEN BoundaryEvents
                  ELSE IF event.phase = "response" THEN StageKey("response") ELSE PhaseKey(event.phase),
                <<event.name, IF event.token = None THEN 0 ELSE event.token>>, event.ts,
                Note(Correlated(correlation_of(event)), event.id, None, None, None))
token_output_instant(token) ==
    InstantSpec(BoundaryEvents, <<"output_token", token.index>>, token.ts,
                Note(Correlated(token.request), None, None, token.index, None))

\* The measured tokens stand for the server's token markers.
ShownBoundaries(events, tokens) ==
    {e \in events : /\ e.name \in BOUNDARY_EVENT_NAMES
                    /\ tokens # {} => e.name \in {"request_received", "response_done"}}
InstantsWithBoth(events, tokens, grouped) ==    \* mutant: every token is shown twice
    {boundary_instant(e, grouped) : e \in {x \in events : x.name \in BOUNDARY_EVENT_NAMES}}
    \cup {token_output_instant(t) : t \in tokens}
BoundaryInstants(events, tokens, grouped) ==
    {boundary_instant(e, grouped) : e \in ShownBoundaries(events, tokens)}
    \cup {token_output_instant(t) : t \in tokens}
Unpaired(events) ==
    {e \in events : e.name \notin BOUNDARY_EVENT_NAMES \cup PAIR_EVENT_NAMES}
Remaining(event) == Note(Correlated(correlation_of(event)), event.id, None, None, None)
UnpairedSlices(events) ==
    {SliceSpec(PhaseKey(e.phase), <<e.name, 0>>, e.ts, e.dur, Remaining(e)) :
       e \in {x \in Unpaired(events) : x.type = "span"}}
UnpairedInstants(events) ==
    {InstantSpec(PhaseKey(e.phase), <<e.name, 0>>, e.ts, Remaining(e)) :
       e \in {x \in Unpaired(events) : x.type # "span"}}

\* Time of the request that no marker accounts for.
RequestPairs(paired) == OfStage(paired, "request")
Gap(from, to) == [start |-> from.ts, end |-> to.ts, after |-> from.name, before |-> to.name]
LatestDetail(paired) ==
    LET details == OfStage(paired, "npu_decode_step") \cup OfStage(paired, "sampling")
    IN  CHOOSE item \in details :
           \A other \in details : \/ other.end.ts < item.end.ts
                                  \/ other.end.ts = item.end.ts /\ other.end.id <= item.end.id
unclassified_gaps(paired, request) ==
    {Gap(request.start, p.start) :
       p \in {q \in OfStage(paired, "gpu_prefill") :
                 /\ Cardinality(OfStage(paired, "gpu_prefill")) = 1
                 /\ q.start.ts > request.start.ts}}
    \cup (IF OfStage(paired, "npu_decode_step") \cup OfStage(paired, "sampling") = {} THEN {}
          ELSE {Gap(e, request.end) : e \in {d \in {LatestDetail(paired).end} : d.ts < request.end.ts}})

------------------------------------------------------------------------------
(* The plan.                                                                  *)

TokensOf(context) == IF context = None THEN {} ELSE context.tokens

PlanRefused(events, metrics, envelopes, context) ==
    \/ \E e \in events : e.clock # CanonicalClock
    \/ \E e \in Unpaired(events) \cup ShownBoundaries(events, TokensOf(context)) :
          correlation_of(e) = None
    \/ PairingRefused(events)
    \/ DecodeDetailsRefused(pair_slices(events))
    \/ context # None /\ Cardinality(RequestPairs(pair_slices(events))) # 1
    \/ FlowsRefused(pair_slices(events))
    \/ EnvelopesRefused(envelopes) \/ CountersRefused(metrics)
    \/ \E e \in Unpaired(events) : e.type = "span" /\ e.dur < 0
    \/ events = {} /\ Available(metrics) = {} /\ envelopes = {}

LegacyInstant(times) ==
    InstantSpec(ClockMetadata, <<"clock_metadata", 0>>,
                CHOOSE t \in times : \A u \in times : t <= u, Note(None, None, None, None, None))

UsedTracks(slices, instants) == {x.track : x \in slices} \cup {x.track : x \in instants}
PlanTracks(used, counters, grouped, include_native) ==
    {SliceTrack(key, grouped) : key \in {k \in used : Family(k) \in {"stage", "phase"}}}
    \cup CounterTracks({c.track : c \in counters}, grouped)
    \cup (IF grouped THEN processing_group_tracks(include_native) ELSE {})

\* The plan of given parts, under the summary or flat.
Planned(slices, instants, counters, flows, context, native, gaps) ==
    TracePlan(PlanTracks(UsedTracks(slices, instants), counters, context # None, native),
              slices, instants, counters, flows, context # None, gaps,
              IF context = None THEN None ELSE context.window)

\* Every slice is on its lane with its flows; the rest needs no place.
AllSlices(paired, drawn, events, envelopes) ==
    {WithFlows(item, drawn).spec : item \in assign_concurrent_lanes(paired)}
    \cup native_slices(envelopes) \cup UnpairedSlices(events)
AllInstants(events, counters, envelopes, context) ==
    BoundaryInstants(events, TokensOf(context), context # None)
    \cup UnpairedInstants(events)
    \cup (IF context # None THEN {}
            ELSE {LegacyInstant({e.ts : e \in events} \cup {c.ts : c \in counters}
                                \cup {e.ts : e \in envelopes})})

PlanOf(paired, drawn, events, counters, envelopes, context) ==
    Planned(AllSlices(paired, drawn, events, envelopes),
            AllInstants(events, counters, envelopes, context), counters,
            {f.spec : f \in drawn}, context, envelopes # {},
            IF context = None THEN {}
              ELSE UNION {unclassified_gaps(paired, r) : r \in RequestPairs(paired)})

build_trace_plan(events, metrics, envelopes, context) ==
    LET paired == pair_slices(events)
    IN  PlanOf(paired, DrawnFlows(paired), events, resource_counters(metrics), envelopes, context)
=============================================================================
