---------------------------- MODULE MCHybridMerge ----------------------------
(* Small sources for HybridMerge: a whole request seen by both devices with   *)
(* one thing changed, groups of a few events with every identifier, and       *)
(* bundles with one flaw.                                                     *)
EXTENDS HybridMerge

MCProbes(ahead) ==
    {Refused} \cup {C!RemoteProbe(5, out, ahead, 1, in) : out \in {0, 1, 4}, in \in {0, 1, 4}}

\* An event with everything a row may leave out left out.
Event(id, name, clock, ts) ==
    [id |-> <<id>>, name |-> name, clock |-> clock, ts |-> ts, request |-> "r", transfer |-> None,
     correlation |-> None, version |-> None, step |-> None, bytes |-> None, observed |-> None,
     uncertainty |-> 0, run |-> "run", host |-> "h", device |-> None]
Stepped(e) == IF e.name \in J!IterationNames THEN [e EXCEPT !.step = 0] ELSE e

MetricRow(clock, ts) ==
    [id |-> "m", name |-> "power", clock |-> clock, ts |-> ts, request |-> None,
     uncertainty |-> 0, run |-> "run", host |-> "h", device |-> None]

Clock(id) == [id |-> id, host |-> "h", monotonic |-> TRUE]
Metadata(role) ==
    [contract |-> "truthful_runtime_metadata_v1", shared |-> "model", described |-> "model",
     role |-> role, direction |-> "gpu_to_npu",
     transfer |-> IF role = "gpu" THEN "kv_producer" ELSE "kv_consumer",
     topology |-> IF role = "gpu" THEN "gpu_only" ELSE "npu_only"]

Bundle(role, clock, events) ==
    [SourceBundle(role, clock, events, <<MetricRow(clock, 9)>>, Metadata(role), "succeeded")
        EXCEPT !.fake = TRUE]

\* The whole contract: the GPU's markers at 1..5, the NPU's from 6 + gap on.
WholeGpu == [i \in 1..5 |-> Event(i, J!MARKER_ORDER[i], "mono", i)]
WholeNpu(clock, gap, ahead) ==
    [i \in 1..11 |-> Stepped(Event(i, J!MARKER_ORDER[i + 5], clock, i + 5 + gap + ahead))]

Scenario(g, n, method, ahead) ==
    [gpu |-> g, npu |-> n, method |-> method, ahead |-> ahead, torn |-> FALSE]
Same(gpuEvents, npuEvents) ==
    Scenario(Bundle("gpu", "mono", gpuEvents), Bundle("npu", "mono", npuEvents),
             "same_clock_domain", 0)

\* Two clocks: the NPU is ahead, and starts close to the GPU's end.
TwoClocks ==
    {Scenario(Bundle("gpu", "mono", WholeGpu),
              Bundle("npu", "npu-mono", WholeNpu("npu-mono", gap, ahead)), "fake", ahead) :
        gap \in {-2, -1, 0}, ahead \in {-1, 2}}

\* One marker of the whole request left out, repeated, or moved.
Change(events, i, kind) ==
    CASE kind = "drop" -> SelectSeq(events, LAMBDA e : e.id # <<i>>)
      [] kind = "repeat" -> Append(events, [events[i] EXCEPT !.id = <<99>>, !.ts = events[Len(events)].ts])
      [] kind = "late" -> Append(SelectSeq(events, LAMBDA e : e.id # <<i>>),
                                 [events[i] EXCEPT !.ts = events[Len(events)].ts + 1])
      [] kind = "step" -> [events EXCEPT ![i].step = 2]
      [] kind = "clash" -> [events EXCEPT ![i].id = <<1>>]
Kinds == {"drop", "repeat", "late", "step", "clash"}
OneChange ==
    {Same(Change(WholeGpu, i, kind), WholeNpu("mono", 0, 0)) : i \in 1..5, kind \in Kinds}
    \cup {Same(WholeGpu, Change(WholeNpu("mono", 0, 0), i, kind)) : i \in 1..11, kind \in Kinds}

\* Groups by request, transfer and correlation: two events on each side.
Loose(id, name, request, transfer, correlation) ==
    [Event(id, name, "mono", 1) EXCEPT !.request = request, !.transfer = transfer,
                                       !.correlation = correlation]
Ids == {"x", "y", None}
Identifiers ==
    {Same(<<Loose(1, "request_received", "a", t1, c1), Loose(2, "prefill_start", "b", t2, c2)>>,
          <<Loose(1, "kv_transfer_end", p, t3, c3), Loose(2, "response_done", "q", t4, c3)>>) :
        t1 \in Ids, t2 \in {"x", None}, t3 \in Ids, t4 \in Ids, p \in {"a", "p", None},
        c1 \in {"c", None}, c2 \in {"c", None}, c3 \in {"c", None}}

\* One flaw in a bundle, or a source that is not what it should be.
Good == Bundle("npu", "mono", WholeNpu("mono", 0, 0))
SoundArtifact ==
    [host |-> None, inside |-> TRUE, exists |-> TRUE, size |-> 1, recordedSize |-> 1,
     digest |-> "d", recordedDigest |-> "d"]
FlawedNpu ==
    {[Good EXCEPT !.files = @ \ {"metrics"}], [Good EXCEPT !.typed = FALSE],
     [Good EXCEPT !.clocks = <<>>], [Good EXCEPT !.deviceTypes = {}],
     [Good EXCEPT !.events[1].run = "other"], [Good EXCEPT !.events[1].clock = "other"],
     [Good EXCEPT !.devices = {<<"h", "gpu">>}], [Good EXCEPT !.status = "partial"],
     [Good EXCEPT !.status = "failed"], [Good EXCEPT !.status = "running"],
     [Good EXCEPT !.fake = FALSE],
     [Good EXCEPT !.metadata.shared = "other"], [Good EXCEPT !.metadata.contract = None],
     [Good EXCEPT !.artifacts = {[SoundArtifact EXCEPT !.digest = "e"]}],
     [Good EXCEPT !.artifacts = {SoundArtifact}, !.mode = "detailed_profile"],
     [Good EXCEPT !.clocks = <<Clock("mono"), [Clock("wall") EXCEPT !.monotonic = FALSE]>>,
                  !.metrics = <<MetricRow("wall", 9)>>]}
Flawed ==
    {Scenario(Bundle("gpu", "mono", WholeGpu), n, "same_clock_domain", 0) : n \in FlawedNpu}

\* The markers of observability 1.1.0, all there or one of them changed.
Versioned(e) == [e EXCEPT !.version = "1.1.0", !.transfer = "x"]
WaitMarkers(w) ==
    <<Event(21, "kv_handoff_start", "mono", 5), Event(22, "kv_handoff_end", "mono", 6),
      Event(23, "kv_transfer_setup_start", "mono", 6), Event(24, "kv_transfer_setup_end", "mono", 6),
      Event(25, "kv_transfer_wait_start", "mono", w), Event(26, "kv_transfer_wait_end", "mono", 7),
      Event(27, "decode_schedule_wait_start", "mono", 9), Event(28, "decode_schedule_wait_end", "mono", 10)>>
ByTime(events) == SortSeq(events, LAMBDA a, b : a.ts < b.ts \/ (a.ts = b.ts /\ a.id[1] < b.id[1]))
ObservedNpu(w) == LET rows == WholeNpu("mono", 0, 0) \o WaitMarkers(w)
                  IN  ByTime([i \in DOMAIN rows |-> Versioned(rows[i])])
Polled(events) == [i \in DOMAIN events |->
    IF events[i].name = "kv_transfer_end" THEN [events[i] EXCEPT !.observed = "done_on_first_poll"]
    ELSE events[i]]
Without(events, names) == SelectSeq(events, LAMBDA e : e.name \notin names)
Waits == {"kv_transfer_wait_start", "kv_transfer_wait_end"}
Observed ==
    {Same(WholeGpu, events) : events \in
        {ObservedNpu(6), ObservedNpu(5), Polled(Without(ObservedNpu(6), Waits)),
         Without(ObservedNpu(6), Waits), Without(ObservedNpu(6), {"kv_handoff_end"}),
         Without(ObservedNpu(6), {"kv_transfer_end"})}}

\* Marker files: the proxy's and those of two workers, with the rows of a
\* warm-up between; then one line torn, changed or left out.
Row(name, ts, pid, request) ==
    [fields |-> M!RequiredFields \cup {"correlation_id"}, schema |-> "1.0.0", name |-> name,
     phase |-> M!CANONICAL_MARKER_PHASES[name], ts |-> ts, pid |-> pid, tid |-> 1,
     host |-> "h", clock |-> "mono", request |-> request, correlation |-> "r",
     transfer |-> None, version |-> None, attributes |-> {}, segments |-> {},
     step |-> IF name \in J!IterationNames THEN 0 ELSE None, bytes |-> None,
     observed |-> None]
WarmUp(row) == [row EXCEPT !.request = "w", !.correlation = "w"]
ProxyLines == <<WarmUp(Row("request_received", 0, 1, "w"))>>
              \o [i \in 1..5 |-> Row(J!MARKER_ORDER[i], i, 1, "r")]
EvenOdd(file) ==
    LET base == IF file = 1 THEN 4 ELSE 5
    IN  [k \in 1..(IF file = 1 THEN 6 ELSE 5) |->
            Row(J!MARKER_ORDER[base + 2 * k], base + 2 * k, file + 1, "engine-r")]
BadLines(row) ==
    {Torn, [row EXCEPT !.host = "other"], [row EXCEPT !.segments = {"prompt"}],
     [row EXCEPT !.fields = @ \ {"phase"}], [row EXCEPT !.correlation = "w"], row}
FakeSources(sources, torn) ==
    [gpu |-> [sources["gpu"] EXCEPT !.fake = TRUE],
     npu |-> [sources["npu"] EXCEPT !.fake = TRUE],
     method |-> "same_clock_domain", ahead |-> 0, torn |-> torn]
Written(proxy, workers) ==
    FakeSources(WriteSources(proxy, workers, {"r"}, <<MetricRow("mono", 9)>>,
                             [role \in {"gpu", "npu"} |-> Metadata(role)], FALSE),
                \E file \in {proxy} \cup RangeOf(workers) : Torn \in RangeOf(file))
FromMarkers ==
    {Written([ProxyLines EXCEPT ![6] = line], <<EvenOdd(1), EvenOdd(2)>>) : line \in BadLines(ProxyLines[6])}
    \cup {Written(ProxyLines, <<EvenOdd(1), [EvenOdd(2) EXCEPT ![5] = line]>>) :
              line \in BadLines(EvenOdd(2)[5])}
    \cup {Written(ProxyLines, <<EvenOdd(1), EvenOdd(2), <<>>>>)}

\* The place of a line stands for the digest of its identity.
MCDigestLess(a, b) == a[1] < b[1] \/ (a[1] = b[1] /\ a[2] > b[2])

\* A transfer that says how many bytes it moved.
Counted(events) == [i \in DOMAIN events |->
    IF events[i].name \in {"kv_transfer_start", "kv_transfer_end"} THEN [events[i] EXCEPT !.bytes = 8]
    ELSE events[i]]

MCScenarios ==
    FromMarkers \cup TwoClocks \cup Observed \cup OneChange \cup Identifiers \cup Flawed
        \cup {Same(WholeGpu, WholeNpu("mono", 0, 0)), Same(WholeGpu, Counted(WholeNpu("mono", 0, 0)))}
==============================================================================
