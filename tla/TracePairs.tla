----------------------------- MODULE TracePairs -----------------------------
(***************************************************************************)
(* How the events of a run become slices and flows (perfetto/planner.py):    *)
(* start and end markers are paired by what the stage identifies them with,   *)
(* overlapping slices of a stage get lanes, and the slices of one            *)
(* correlation are linked by flows.  Events are sets of records; an          *)
(* attribute the code reads and does not find is None.                       *)
(***************************************************************************)
EXTENDS TraceModel, Integers, Sequences, FiniteSets

CONSTANTS CanonicalClock,   \* the clock domain every record is to be on
          BracketNames      \* other names that end in _start or _end

Stage(track, first, last, phase, endPhase, discriminator, rank) ==
    [track |-> track, first |-> first, last |-> last, phase |-> phase, endPhase |-> endPhase,
     discriminator |-> discriminator, rank |-> rank]
Bracketed(track, first, last, phase, discriminator, rank) ==
    Stage(track, first, last, phase, phase, discriminator, rank)

PipelineStages ==
    {Bracketed("gpu_prefill", "prefill_start", "prefill_end", "prefill", "request", 0),
     Bracketed("kv_export", "kv_export_start", "kv_export_end", "kv_export", "request", 1),
     Bracketed("kv_handoff", "kv_handoff_start", "kv_handoff_end", "kv_transfer", "transfer", 2),
     Bracketed("kv_transfer_setup", "kv_transfer_setup_start", "kv_transfer_setup_end",
               "kv_transfer", "transfer", 3),
     Bracketed("kv_transfer", "kv_transfer_start", "kv_transfer_end", "kv_transfer", "transfer", 4),
     Bracketed("kv_transfer_wait", "kv_transfer_wait_start", "kv_transfer_wait_end",
               "kv_transfer", "transfer", 5),
     Bracketed("kv_transform", "kv_transform_start", "kv_transform_end", "kv_transform", "request", 6),
     Bracketed("kv_device_sync", "kv_device_sync_start", "kv_device_sync_end",
               "kv_transfer", "transfer", 7),
     Bracketed("decode_schedule_wait", "decode_schedule_wait_start", "decode_schedule_wait_end",
               "decode", "transfer", 8),
     Bracketed("npu_decode", "decode_loop_start", "decode_loop_end", "decode", "request", 9)}
DetailStages ==
    {Bracketed("npu_decode_step", "decode_step_start", "decode_step_end", "decode", "step", 0),
     Bracketed("sampling", "sampling_start", "sampling_end", "sampling", "step", 1)}
Stages ==
    {Stage("request", "request_received", "response_done", "request", "response", "request", None)}
    \cup PipelineStages \cup DetailStages
PAIR_EVENT_NAMES == {s.first : s \in Stages} \cup {s.last : s \in Stages}

correlation_of(event) == IF event.correlation # None THEN event.correlation ELSE event.request
original_of(event) == IF event.original # None THEN event.original ELSE event.ts
pair_key(stage, event) ==
    <<correlation_of(event), CASE stage.discriminator = "step" -> event.step
                               [] stage.discriminator = "transfer" -> event.transfer
                               [] OTHER -> 0>>
Named(events, name) == {e \in events : e.name = name}
Keys(stage, events) == {pair_key(stage, e) : e \in events}

\* Two events of one key on the same side.
DuplicateKey(stage, events) == Cardinality(Keys(stage, events)) # Cardinality(events)

UnusableMarker(stage, event, phase) ==
    \/ event.type # "instant" \/ event.phase # phase \/ event.clock # CanonicalClock
    \/ None \in {pair_key(stage, event)[1], pair_key(stage, event)[2]}

Pairs(stage, starts, ends) ==
    {pair \in starts \X ends : pair_key(stage, pair[1]) = pair_key(stage, pair[2])}

\* A pair keeps its request; only the handoff goes from one request to another,
\* and then both name the remote one.
SameRequest(stage, start, end) ==
    /\ None \notin {start.request, end.request}
    /\ \/ start.request = end.request
       \/ stage.track = "kv_handoff" /\ start.suffix # None /\ start.suffix = end.suffix

ReadsInOrder(start, end) == original_of(end) >= original_of(start)

StageRefused(stage, starts, ends) ==
    \/ \E e \in starts : UnusableMarker(stage, e, stage.phase)
    \/ \E e \in ends : UnusableMarker(stage, e, stage.endPhase)
    \/ DuplicateKey(stage, starts) \/ DuplicateKey(stage, ends)
    \/ Keys(stage, starts) # Keys(stage, ends)
    \/ \E pair \in Pairs(stage, starts, ends) :
          \/ pair[2].ts < pair[1].ts
          \/ ~SameRequest(stage, pair[1], pair[2])
          \/ ~ReadsInOrder(pair[1], pair[2])

PairingRefused(events) ==
    \/ \E e \in events : e.name \in BracketNames /\ e.type = "instant"
    \/ \E s \in Stages : StageRefused(s, Named(events, s.first), Named(events, s.last))

\* One paired slice; its name carries the step of the steps.
PairedSlice(stage, start, end) ==
    [stage |-> stage.track, correlation |-> correlation_of(start), start |-> start, end |-> end,
     spec |-> SliceSpec(StageKey(stage.track),
                        <<stage.track, IF stage.discriminator = "step" THEN start.step ELSE 0>>,
                        start.ts, end.ts - start.ts,
                        Note(Correlated(correlation_of(start)), start.id, end.id,
                             IF stage.discriminator = "step" THEN start.step ELSE None, None))]

pair_slices(events) ==
    UNION {{PairedSlice(s, pair[1], pair[2]) :
               pair \in Pairs(s, Named(events, s.first), Named(events, s.last))} : s \in Stages}

OfStage(paired, stage) == {item \in paired : item.stage = stage}

------------------------------------------------------------------------------
(* Lanes: in order of start, then of end, a slice takes the first lane that   *)
(* the slice last put there has left.  Two points at one instant do not       *)
(* share a lane.                                                            *)

Earlier(a, b) ==
    \/ a.spec.ts < b.spec.ts
    \/ a.spec.ts = b.spec.ts /\ SliceEnd(a.spec) < SliceEnd(b.spec)
    \/ a.spec.ts = b.spec.ts /\ SliceEnd(a.spec) = SliceEnd(b.spec) /\ a.start.id < b.start.id

LaneIsFree(previous, item) ==
    /\ item.spec.ts >= SliceEnd(previous.spec)
    /\ ~(previous.spec.dur = 0 /\ item.spec.dur = 0 /\ previous.spec.ts = item.spec.ts)

Lanes(rows) ==
    LET lane[item \in rows] ==
            LET before == {other \in rows : Earlier(other, item)}
                on(k) == {other \in before : lane[other] = k}
                free(k) == \A last \in on(k) :
                              (\A other \in on(k) : ~Earlier(last, other)) => LaneIsFree(last, item)
            IN  CHOOSE k \in 0..Cardinality(before) :
                    free(k) /\ \A j \in 0..(k - 1) : ~free(j)
    IN  lane

OnLanes(rows, lanes) ==
    {[item EXCEPT !.spec.track = lane_track_key(StageKey(item.stage), lanes[item])] :
       item \in rows}
assign_concurrent_lanes(paired) ==
    UNION {OnLanes(rows, Lanes(rows)) : rows \in {OfStage(paired, s.track) : s \in Stages}}

\* The steps of a correlation are counted from zero without a gap, and a token
\* is sampled once its step has ended.
DecodeDetailsRefused(paired) ==
    \/ \E item \in OfStage(paired, "npu_decode_step") : \E k \in 0..item.start.step :
          \A other \in OfStage(paired, "npu_decode_step") :
             other.correlation # item.correlation \/ other.start.step # k
    \/ \E item \in OfStage(paired, "sampling") :
          \A step \in OfStage(paired, "npu_decode_step") :
             \/ step.correlation # item.correlation
             \/ step.start.step # item.start.step
             \/ item.start.ts < step.end.ts

------------------------------------------------------------------------------
(* Flows follow one correlation through the stages; which stages a run        *)
(* measured decides between the long and the short links.                    *)

Link(kind, from, fromEnd, to) == [kind |-> kind, from |-> from, fromEnd |-> fromEnd, to |-> to]

Links(hasHandoff, hasWait) ==
    {Link("request_to_prefill", "request", "begin", "gpu_prefill"),
     Link("prefill_to_kv_export", "gpu_prefill", "end", "kv_export"),
     Link("transfer_to_transform", "kv_transfer", "end", "kv_transform")}
    \cup (IF hasHandoff
            THEN {Link("kv_export_to_handoff", "kv_export", "end", "kv_handoff"),
                  Link("handoff_to_setup", "kv_handoff", "end", "kv_transfer_setup"),
                  Link("setup_to_transfer", "kv_transfer_setup", "end", "kv_transfer")}
            ELSE {Link("kv_export_to_transfer", "kv_export", "end", "kv_transfer")})
    \cup (IF hasWait
            THEN {Link("transform_to_wait", "kv_transform", "end", "decode_schedule_wait"),
                  Link("wait_to_decode", "decode_schedule_wait", "begin", "npu_decode")}
            ELSE {Link("transform_to_decode", "kv_transform", "end", "npu_decode")})

\* Every stage a link may look up; more than one slice there is ambiguous.
FlowStages(items) ==
    (IF OfStage(items, "kv_handoff") = {} THEN {} ELSE {"kv_transfer_setup"})
    \cup {"kv_handoff", "decode_schedule_wait", "request", "gpu_prefill", "kv_export",
          "kv_transfer", "kv_transform", "npu_decode"}

Measured(items, stage) == OfStage(items, stage) # {}
LinksOf(items) ==
    Links(Measured(items, "kv_handoff") /\ Measured(items, "kv_transfer_setup"),
          Measured(items, "decode_schedule_wait"))
EndEvent(item, side) == IF side = "begin" THEN item.start ELSE item.end

\* A link is drawn on evidence: both ends name the correlation, and where both
\* are on the remote request or on a transfer, they name the same one.
Evident(link, source, destination) ==
    /\ source.correlation # None /\ destination.correlation # None
    /\ link.kind \in {"kv_export_to_handoff", "handoff_to_setup"}
         => (source.suffix = None <=> destination.suffix = None)
EvidenceRefused(link, source, destination) ==
    \/ link.kind = "kv_export_to_transfer"
         /\ (source.suffix = None \/ source.suffix # destination.suffix)
    \/ link.kind \in {"kv_export_to_handoff", "handoff_to_setup"}
         /\ source.suffix # destination.suffix
    \/ link.kind = "setup_to_transfer" /\ source.transfer # destination.transfer

\* The evident links between the slices of one correlation.
Drawn(items, links) ==
    UNION {{[link |-> link, source |-> EndEvent(ends[1], link.fromEnd),
             destination |-> ends[2].start] :
                ends \in {e \in OfStage(items, link.from) \X OfStage(items, link.to) :
                             Evident(link, EndEvent(e[1], link.fromEnd), e[2].start)}} :
             link \in links}

FlowsRefused(paired) ==
    \E c \in {item.correlation : item \in paired} :
        LET items == {item \in paired : item.correlation = c}
        IN  \/ \E stage \in FlowStages(items) : Cardinality(OfStage(items, stage)) > 1
            \/ \E d \in Drawn(items, LinksOf(items)) :
                  \/ EvidenceRefused(d.link, d.source, d.destination)
                  \/ {d.source.correlation, d.destination.correlation} # {c}

FlowId(kind, correlation) == <<kind, correlation, 0>>

DrawnFlows(paired) ==
    UNION {LET items == {item \in paired : item.correlation = c}
           IN  {[id |-> FlowId(d.link.kind, c), side |-> d.link.fromEnd,
                 spec |-> FlowSpec(FlowId(d.link.kind, c), d.source.id, d.destination.id,
                                   Correlated(c))] :
                  d \in Drawn(items, LinksOf(items))} :
             c \in {item.correlation : item \in paired}}

\* A slice's ends carry the ids of the flows drawn from and to them.
WithFlows(item, drawn) ==
    [item EXCEPT
        !.spec.beginFlows =
            {f.id : f \in {g \in drawn : g.side = "begin" /\ g.spec.source = item.start.id}},
        !.spec.endFlows =
            {f.id : f \in {g \in drawn : g.side = "end" /\ g.spec.source = item.end.id}},
        !.spec.beginTerminating =
            {f.id : f \in {g \in drawn : g.spec.destination = item.start.id}}]
=============================================================================
