----------------------------- MODULE TraceModel -----------------------------
(***************************************************************************)
(* The parts of a trace plan (perfetto/model.py).  A track's key is the      *)
(* family its prefix tells ("stage", "phase", "summary", "telemetry",        *)
(* "counter", "native", ...), a name, and a number: the lane of a stage, the *)
(* index of a device, the identity of a leaf.  A slice carries what its      *)
(* annotations tell apart: who it belongs to, which records it stands for,   *)
(* and the ids of the flows that leave or reach either of its ends.          *)
(***************************************************************************)
LOCAL INSTANCE Integers

CONSTANT None

TrackKey(family, name, number) == <<family, name, number>>
StageKey(stage) == TrackKey("stage", stage, 0)
Family(key) == key[1]

\* One semantic track has a lane for each slice that runs beside another.
lane_track_key(key, lane) == [key EXCEPT ![3] = lane]
base_track_key(key) == key[2]

TrackSpec(key, kind, parent, ordering, rank) ==
    [key |-> key, kind |-> kind, parent |-> parent, ordering |-> ordering, rank |-> rank]

\* What an annotation of the plan says, None where it says nothing.
Note(correlation, first, last, step, profiler) ==
    [correlation |-> correlation, first |-> first, last |-> last, step |-> step,
     profiler |-> profiler, emitted |-> FALSE]
Correlated(correlation) == <<"hybrid", correlation, 0>>

SliceSpec(track, name, ts, dur, note) ==
    [track |-> track, name |-> name, ts |-> ts, dur |-> dur, note |-> note,
     beginFlows |-> {}, endFlows |-> {}, beginTerminating |-> {}, endTerminating |-> {}]
SliceEnd(spec) == spec.ts + spec.dur

InstantSpec(track, name, ts, note) == [track |-> track, name |-> name, ts |-> ts, note |-> note]

CounterSpec(track, ts, value, interval, role) ==
    [track |-> track, ts |-> ts, value |-> value, interval |-> interval, role |-> role]

FlowSpec(id, source, destination, correlation) ==
    [id |-> id, source |-> source, destination |-> destination, correlation |-> correlation]

TracePlan(tracks, slices, instants, counters, flows, grouped, gaps, window) ==
    [tracks |-> tracks, slices |-> slices, instants |-> instants, counters |-> counters,
     flows |-> flows, grouped |-> grouped, gaps |-> gaps, window |-> window,
     presentation |-> FALSE]

TrackOf(plan, key) == CHOOSE track \in plan.tracks : track.key = key
IsUnder(plan, key, root) ==
    LET up[k \in {track.key : track \in plan.tracks}] ==
            \/ k = root
            \/ LET parent == TrackOf(plan, k).parent IN parent # None /\ up[parent]
    IN  up[key]
=============================================================================
