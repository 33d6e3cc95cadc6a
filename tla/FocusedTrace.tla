---------------------------- MODULE FocusedTrace ----------------------------
(***************************************************************************)
(* The request-focused plan (perfetto/native_details.py): the processing of    *)
(* one request with the resource samples of its client window, cut out of the   *)
(* full plan, and the check that the native events of a plan are those the      *)
(* native details gave it.                                                     *)
(***************************************************************************)
EXTENDS TraceContract

FocusedGroup(key) ==
    TrackKey("request_resources", key[2], key[3])

------------------------------------------------------------------------------
(* Resource samples: the last baseline before the request, the background       *)
(* samples whose interval meets it, the first final one after it; one of those   *)
(* of one instant.                                                              *)

LatestBaseline(stream, start) ==
    LET before == {c \in stream : c.role = "baseline" /\ c.ts <= start}
    IN  IF before = {} THEN {} ELSE {CHOOSE c \in before : \A d \in before : d.ts <= c.ts}
FirstFinal(stream, end) ==
    LET after == {c \in stream : c.role = "final" /\ c.ts >= end}
    IN  IF after = {} THEN {} ELSE {CHOOSE c \in after : \A d \in after : c.ts <= d.ts}
Background(stream, start, end) ==
    {c \in stream : /\ c.role = "background" /\ c.interval # None
                    /\ c.ts >= start /\ c.ts - c.interval < end}

Streams(counters) == {{c \in counters : c.track = key} : key \in {c.track : c \in counters}}
request_window_counters(counters, window) ==
    UNION {LatestBaseline(s, window.start) \cup Background(s, window.start, window.end)
           \cup FirstFinal(s, window.end) : s \in Streams(counters)}

CountersConflict(selected) ==
    \E c, d \in selected : c # d /\ c.track = d.track /\ c.ts = d.ts
FocusRefused(plan) ==
    \/ WindowDiffers(plan.window)
    \/ \E c \in plan.counters : c.interval # None /\ c.interval < 0
    \/ CountersConflict(request_window_counters(plan.counters, plan.window))

\* The groups of the kept samples move under the summary's root.
RequestResourceTracks(plan, counters) ==
    IF counters = {} THEN {} ELSE
    LET groups == {TrackOf(plan, c.track).parent : c \in counters}
    IN  {TrackSpec(RequestResources, "group", Root, "explicit", 3)}
        \cup {[TrackOf(plan, g) EXCEPT !.key = FocusedGroup(g), !.parent = RequestResources] :
                g \in groups}
        \cup {[TrackOf(plan, c.track) EXCEPT !.parent = FocusedGroup(TrackOf(plan, c.track).parent)] :
                c \in counters}

------------------------------------------------------------------------------
(* The cut.                                                                   *)

Overlaps(spec, window) == spec.ts < window.end /\ SliceEnd(spec) > window.start
Within(spec, window) == window.start <= spec.ts /\ spec.ts < window.end
IsNative(spec) == Family(spec.track) = "native"

FocusedSlices(plan) ==
    {s \in plan.slices : /\ s.track \notin {StageKey("request"), Profiler}
                         /\ IsNative(s) => Overlaps(s, plan.window)}
FocusedInstants(plan) ==
    {i \in plan.instants : i.track = BoundaryEvents \/ (IsNative(i) /\ Within(i, plan.window))}

EndsOf(slices, id) == EndsLeaving(slices, id) + EndsReached(slices, id)
WholeFlows(flows, slices) == {f.id : f \in {g \in flows : EndsOf(slices, g.id) = 2}}
KeepFlows(spec, kept) ==
    [spec EXCEPT !.beginFlows = @ \cap kept, !.endFlows = @ \cap kept,
                 !.beginTerminating = @ \cap kept, !.endTerminating = @ \cap kept]

KeptTracks(plan, used) ==
    {t \in plan.tracks : \E key \in used : IsUnder(plan, key, t.key)}
FocusedTracks(kept, counters) ==
    IF counters = {} THEN kept
      ELSE {[t EXCEPT !.rank = IF t.key = NativeDetails THEN 4 ELSE @] : t \in kept}

Focused(plan, slices, instants, counters, kept) ==
    [plan EXCEPT
        !.tracks = FocusedTracks(KeptTracks(plan, UsedTracks(slices, instants)), counters)
                   \cup RequestResourceTracks(plan, counters),
        !.slices = {KeepFlows(s, kept) : s \in slices},
        !.instants = instants, !.counters = counters,
        !.flows = {f \in plan.flows : f.id \in kept}, !.presentation = TRUE]
request_focused_plan(plan) ==
    Focused(plan, FocusedSlices(plan), FocusedInstants(plan),
            request_window_counters(plan.counters, plan.window),
            WholeFlows(plan.flows, FocusedSlices(plan)))

------------------------------------------------------------------------------
(* The native events a plan is to hold.  The details are                       *)
(* [tracks, slices, instants, flows].                                          *)

ExpectedSlices(native, window, subset) ==
    {s \in native.slices : subset => Overlaps(s, window)}
ExpectedInstants(native, window, subset) ==
    {i \in native.instants : subset => Within(i, window)}
ExpectedTracks(native, used) ==
    LET up[k \in KeysOf(native.tracks)] ==
            LET parent == TrackOf(native, k).parent
            IN  {k} \cup (IF parent \in KeysOf(native.tracks) THEN up[parent] ELSE {})
    IN  UNION {up[k] : k \in used}

NativeEvents(specs) == {s \in specs : IsNative(s)}
Identity(specs) == {ExpectedSlice(s) : s \in specs}
NativeKeys(tracks) == {key \in KeysOf(tracks) : Family(key) = "native"}

NativeFlowsAgree(plan, native, slices) ==
    {f.id : f \in plan.flows} \cap {f.id : f \in native.flows} = WholeFlows(native.flows, slices)
NativeAgrees(plan, native, slices, instants) ==
    /\ Identity(NativeEvents(plan.slices)) = Identity(slices)
    /\ NativeEvents(plan.instants) = instants
    /\ NativeKeys(plan.tracks) = ExpectedTracks(native, UsedTracks(slices, instants))
    /\ NativeFlowsAgree(plan, native, slices)
    /\ \A s \in NativeEvents(plan.slices) : s.dur > 0
native_validation_metadata(plan, native, subset) ==
    NativeAgrees(plan, native, ExpectedSlices(native, plan.window, subset),
                 ExpectedInstants(native, plan.window, subset))
=============================================================================
