--------------------------- MODULE NativeDetails ----------------------------
(***************************************************************************)
(* The events of a native profiler in the plan (perfetto/native_details.py,    *)
(* native_kineto.py, native_nsys.py).  A capture is                            *)
(*   [profiler, source, bases, rows, offsets, transform, bracket]:              *)
(* the source is "kineto", "nsys" or "rbln"; offsets are the differences of     *)
(* the recorded unix and monotonic samples, the bracket the interval of the     *)
(* host's clock the capture lies in.  A row is                                  *)
(*   [place, phase, category, kind, lane, artifact, process, correlation, ts,    *)
(*    dur], ts and dur in the profiler's own time, kind the endpoint kind.       *)
(***************************************************************************)
EXTENDS FocusedTrace

NativeKey(profiler, place) == TrackKey("native", profiler, place)
NativeRoot(profiler) == NativeKey(profiler, <<>>)
CategoryKey(profiler, row) == NativeKey(profiler, <<row.category>>)
LeafKey(profiler, row) == NativeKey(profiler, <<row.category, row.lane>>)

------------------------------------------------------------------------------
(* The clock bridge: the middle of the sampled offsets takes unix time to the   *)
(* host's clock, the host's transform from there to the canonical one.          *)

Least(S) == CHOOSE x \in S : \A y \in S : x <= y
Greatest(S) == CHOOSE x \in S : \A y \in S : y <= x
clock_offset(capture) == (Least(capture.offsets) + Greatest(capture.offsets)) \div 2

unix_to_canonical(capture, unix) == unix - clock_offset(capture) + capture.transform
ValidInterval(capture) ==
    [first |-> capture.bracket.first + capture.transform,
     last |-> capture.bracket.last + capture.transform]
OnCanonicalClock(capture, row) == unix_to_canonical(capture, Least(capture.bases) + row.ts)

------------------------------------------------------------------------------
(* Rows to slices and instants.  Kineto's flow markers are counted only, a      *)
(* complete event of no length is an instant; an NVTX range of none is dropped.  *)

Emitted(capture) ==
    IF capture.source = "kineto" THEN {r \in capture.rows : r.phase \in {"X", "i"}}
      ELSE {r \in capture.rows : r.kind = "annotation" => r.dur # None /\ r.dur > 0}
InstantRows(capture) ==
    {r \in Emitted(capture) : capture.source = "kineto" /\ (r.phase = "i" \/ r.dur = 0)}
SliceRowsOf(capture) == Emitted(capture) \ InstantRows(capture)

NativeNote(profiler) == Note(None, None, None, None, profiler)
NativeSlice(capture, row) ==
    [row |-> row,
     spec |-> SliceSpec(LeafKey(capture.profiler, row), <<capture.profiler, row.place>>,
                        OnCanonicalClock(capture, row), row.dur, NativeNote(capture.profiler))]
NativeInstant(capture, row) ==
    InstantSpec(LeafKey(capture.profiler, row), <<capture.profiler, row.place>>,
                OnCanonicalClock(capture, row), NativeNote(capture.profiler))

\* Which process a correlation is counted in: the one process that calls the
\* device in an artifact, or the row's own when there are several; a device
\* row has none of its own.  Nsight names the process of both sides.
HostProcesses(capture, artifact) ==
    {r.process : r \in {q \in capture.rows : /\ q.artifact = artifact /\ q.kind = "host_api"
                                             /\ q.correlation # None}}
ScopeByArtifactOnly(capture, row) == <<row.artifact, None>>    \* mutant: processes are mixed
Scope(capture, row) ==
    IF capture.source = "nsys" THEN <<0, row.process>>
      ELSE IF Cardinality(HostProcesses(capture, row.artifact)) = 1
        THEN <<row.artifact, CHOOSE p \in HostProcesses(capture, row.artifact) : TRUE>>
        ELSE <<row.artifact, IF row.kind = "host_api" THEN row.process ELSE None>>

\* A row takes part in flows when its correlation counts, and for Nsight when
\* its process is known.
Linked(capture, row) ==
    /\ row.correlation # None /\ row.correlation > 0
    /\ capture.source = "nsys" => row.process # None
CorrelationKey(capture, row) == <<"native", Scope(capture, row), row.correlation>>
LinkedRows(capture, kind, key) ==
    {r \in SliceRowsOf(capture) : /\ r.kind = kind /\ Linked(capture, r)
                                  /\ CorrelationKey(capture, r) = key}

\* One call and one device activity that share a key are a flow.
FlowKeys(capture) ==
    {key \in {CorrelationKey(capture, r) : r \in {q \in SliceRowsOf(capture) : Linked(capture, q)}} :
       /\ Cardinality(LinkedRows(capture, "host_api", key)) = 1
       /\ Cardinality(LinkedRows(capture, "device", key)) = 1}
AttachFlow(capture, item, keys) ==
    IF ~Linked(capture, item.row) \/ CorrelationKey(capture, item.row) \notin keys
        \/ item.row.kind \notin {"host_api", "device"}
      THEN item.spec
      ELSE [item.spec EXCEPT
              !.note.correlation = CorrelationKey(capture, item.row),
              !.beginFlows = IF item.row.kind = "host_api"
                               THEN {CorrelationKey(capture, item.row)} ELSE {},
              !.beginTerminating = IF item.row.kind = "device"
                                     THEN {CorrelationKey(capture, item.row)} ELSE {}]
attach_explicit_flows(capture, keys) ==
    {AttachFlow(capture, NativeSlice(capture, r), keys) : r \in SliceRowsOf(capture)}

------------------------------------------------------------------------------
(* What a capture gives, or why it does not.                                   *)

Spans(capture, slices, instants) ==
    {[first |-> s.ts, last |-> SliceEnd(s)] : s \in slices}
    \cup {[first |-> i.ts, last |-> i.ts] : i \in instants}
OutsideBracket(valid, spans) ==
    \/ spans = {}
    \/ \E s \in spans : s.first < valid.first \/ s.last > valid.last

RowRefused(capture, row) ==
    \/ row.ts = None \/ (capture.source = "kineto" /\ row.ts < 0)
    \/ row.phase = "X" /\ (row.dur = None \/ row.dur < 0)
    \/ capture.source = "nsys" /\ (row.dur = None \/ row.dur <= 0)
    \/ capture.profiler = "npu_vllm" /\ row.kind \in {"host_api", "device"}
CaptureRefused(capture) ==
    \/ Cardinality(capture.bases) # 1
    \/ \E r \in Emitted(capture) : \/ RowRefused(capture, r) \/ OnCanonicalClock(capture, r) < 0
    \/ OutsideBracket(ValidInterval(capture),
                      Spans(capture, {NativeSlice(capture, r).spec : r \in SliceRowsOf(capture)},
                            {NativeInstant(capture, r) : r \in InstantRows(capture)}))

NativeTracks(profiler, rows) ==
    {TrackSpec(NativeRoot(profiler), "group", Root, "explicit", 5)}
    \cup {TrackSpec(CategoryKey(profiler, r), "group", NativeRoot(profiler), "lexicographic",
                    r.category) : r \in rows}
    \cup {TrackSpec(LeafKey(profiler, r), "slice", CategoryKey(profiler, r), None, None) :
            r \in rows}
NativeFlow(capture, key) ==
    FlowSpec(key, (CHOOSE r \in LinkedRows(capture, "host_api", key) : TRUE).place,
             (CHOOSE r \in LinkedRows(capture, "device", key) : TRUE).place, key)

DetailsOf(capture, keys) ==
    [tracks |-> NativeTracks(capture.profiler, Emitted(capture)),
     slices |-> attach_explicit_flows(capture, keys),
     instants |-> {NativeInstant(capture, r) : r \in InstantRows(capture)},
     flows |-> {NativeFlow(capture, key) : key \in keys},
     profilers |-> {capture.profiler}]
NoDetails == [tracks |-> {}, slices |-> {}, instants |-> {}, flows |-> {}, profilers |-> {}]

\* A capture of the NPU's own profiler is published apart, on its own clock.
build_native_detail_plan(capture) ==
    IF capture = None \/ capture.source = "rbln" THEN NoDetails
      ELSE DetailsOf(capture, FlowKeys(capture))

------------------------------------------------------------------------------
(* The plan with its native details: the envelope says they are shown, their    *)
(* root moves behind it.                                                       *)

Tell(spec, profilers) ==
    IF spec.track = Profiler
      THEN [spec EXCEPT !.note.emitted = spec.note.profiler \in profilers] ELSE spec
UnderDetails(track, grouped) ==
    IF track.parent # Root THEN track
      ELSE [track EXCEPT !.parent = IF grouped THEN NativeDetails ELSE None,
                         !.rank = IF grouped THEN 1 ELSE None]
augment_trace_plan(plan, native) ==
    [plan EXCEPT
        !.tracks = @ \cup {UnderDetails(t, NativeDetails \in KeysOf(plan.tracks)) : t \in native.tracks},
        !.slices = {Tell(s, native.profilers) : s \in @} \cup native.slices,
        !.instants = @ \cup native.instants,
        !.flows = @ \cup native.flows]
=============================================================================
