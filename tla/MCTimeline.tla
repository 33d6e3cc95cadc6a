----------------------------- MODULE MCTimeline -----------------------------
(* Small runs for Timeline: one request seen by both devices, with one thing   *)
(* changed: its clocks, its transfers, what the client measured, its samples,   *)
(* its native capture, a flaw of its records; and a run of two requests.        *)
EXTENDS Timeline

MCClock == "canon"
MCBracketNames == {"bracket_start"}
MCOrder == [utilization |-> 0, power |-> 1]

\* Any injective number of the keys that carry slices.
Numbers ==
    [request |-> 1, gpu_prefill |-> 2, kv_export |-> 3, kv_transfer |-> 4, kv_transform |-> 5,
     npu_decode |-> 6, npu_decode_step |-> 7, sampling |-> 8, kv_handoff |-> 9,
     kv_transfer_setup |-> 10, kv_transfer_wait |-> 11, kv_device_sync |-> 12,
     decode_schedule_wait |-> 13, profiler |-> 14]
MCUuid(key) ==
    CASE Family(key) = "stage" -> 2 * (Numbers[key[2]] + 20 * key[3])
      [] Family(key) = "native" -> 201 + 10 * key[3][1] + key[3][2]
      [] OTHER -> 1

PhaseOf(name) ==
    IF name = "request_received" THEN "request" ELSE IF name = "response_done" THEN "response"
      ELSE (CHOOSE s \in PipelineStages \cup DetailStages : name \in {s.first, s.last}).phase
IsStep(name) == name \in J!IterationNames

Event(id, name, ts, correlation) ==
    [id |-> id, name |-> name, type |-> "instant", phase |-> PhaseOf(name), clock |-> MCClock,
     ts |-> ts, dur |-> 0, request |-> correlation, correlation |-> correlation,
     transfer |-> <<"t", correlation>>, version |-> None, step |-> IF IsStep(name) THEN 0 ELSE None,
     bytes |-> None, observed |-> "done_on_first_poll", uncertainty |-> 0, suffix |-> "s",
     original |-> None, token |-> None, host |-> "h", device |-> None, parent |-> None]

\* The contract's markers, one unit apart.
Whole(first, start, correlation) ==
    [i \in 1..16 |-> Event(first + i, J!MARKER_ORDER[i], start + i, correlation)]
Base == Whole(0, 0, "c")

\* The clocks the events were read on: the NPU's is ahead of the GPU's, or behind.
NpuNames == {J!MARKER_ORDER[i] : i \in 6..16}
WithOriginals(events, ahead) ==
    [i \in DOMAIN events |->
        [events[i] EXCEPT !.original =
            20 + events[i].ts + (IF events[i].name \in NpuNames THEN ahead ELSE 0)]]

\* Markers of observability 1.1.0, between the others.
Observed(events) ==
    [i \in 1..Len(events) |-> [events[i] EXCEPT !.version = "1.1.0", !.ts = 10 * events[i].ts]]
    \o <<[Event(31, "kv_handoff_start", 51, "c") EXCEPT !.version = "1.1.0"],
         [Event(32, "kv_handoff_end", 54, "c") EXCEPT !.version = "1.1.0"],
         [Event(33, "kv_transfer_setup_start", 55, "c") EXCEPT !.version = "1.1.0"],
         [Event(34, "kv_transfer_setup_end", 58, "c") EXCEPT !.version = "1.1.0"],
         [Event(35, "decode_schedule_wait_start", 92, "c") EXCEPT !.version = "1.1.0"],
         [Event(36, "decode_schedule_wait_end", 98, "c") EXCEPT !.version = "1.1.0"]>>
Waiting(events) ==
    Observed(events) \o <<[Event(37, "kv_transfer_wait_start", 62, "c") EXCEPT !.version = "1.1.0"],
                          [Event(38, "kv_transfer_wait_end", 66, "c") EXCEPT !.version = "1.1.0"]>>

Stretched(events) == [i \in DOMAIN events |-> [events[i] EXCEPT !.ts = 10 * events[i].ts]]
SecondStep(id, name, ts) == [Event(id, name, ts, "c") EXCEPT !.step = 1]
TwoSteps(events) ==
    Stretched(events)
    \o <<SecondStep(51, "decode_step_start", 140), SecondStep(52, "decode_step_end", 143),
         SecondStep(53, "sampling_start", 144), SecondStep(54, "sampling_end", 146)>>

Token(id, index, ts) ==
    [Event(id, "request_received", ts, "c")
        EXCEPT !.name = "token_emitted", !.phase = "decode", !.token = index]
TokenOf(correlation, id, index, ts) ==
    [Token(id, index, ts) EXCEPT !.request = correlation, !.correlation = correlation]
Span(id, ts, dur) ==
    [Event(id, "decode_loop_start", ts, "c") EXCEPT !.name = "kernel", !.type = "span", !.dur = dur]

------------------------------------------------------------------------------
(* The records around the events.                                             *)

Clock(id) == [id |-> id, monotonic |-> TRUE]
HybridClock(id, role, original, source) ==
    [id |-> id, role |-> role, host |-> "h", monotonic |-> TRUE, original |-> original,
     source |-> source]
Transform(role, offset) ==
    [id |-> role, source |-> role \o ":mono", target |-> MCClock, role |-> role, original |-> "mono",
     offset |-> offset, uncertainty |-> 1, from |-> 0, to |-> None]

Artifact(path, digest, clock) == [path |-> path, digest |-> digest, clock |-> clock, host |-> "h"]
WithDescriptor(source) == [source EXCEPT !.descriptor = DescriptorOf(source)]
Source(role) ==
    WithDescriptor(
       [id |-> role \o "-run", status |-> "succeeded", mode |-> role, detailed |-> FALSE,
        devices |-> {role}, clocks |-> {Clock("mono")}, hosts |-> {"h"},
        artifacts |-> {Artifact("events", "d1", "mono")},
        files |-> [p \in {"manifest.json", "events"} |-> IF p = "events" THEN "d1" ELSE "d0"],
        descriptor |-> None, alignment |-> None, detail |-> None, measured |-> None, capture |-> None])

Closeout ==
    [roots |-> CLOSEOUT_ROOT_IDS, mismatches |-> {}, deferred |-> None, stored |-> 3, count |-> 3,
     digest |-> "closed", recovered |-> TRUE, run |-> "run"]
Latency(window, sources, value) ==
    [name |-> "latency.e2e", window |-> window, sources |-> sources, value |-> value]
RunOf(events) ==
    [id |-> "run", status |-> "succeeded", mode |-> "hybrid", detailed |-> FALSE,
     profilers |-> "not_applicable", canonical |-> MCClock,
     clocks |-> {HybridClock(MCClock, "canonical", "mono", None),
                 HybridClock("gpu:mono", "source", "mono", "gpu"),
                 HybridClock("npu:mono", "source", "mono", "npu")},
     hosts |-> {"h"}, devices |-> {<<"h", <<"gpu", 0>>>>, <<"h", <<"npu", 0>>>>},
     transforms |-> {Transform("gpu", -20), Transform("npu", -20)},
     events |-> events, metrics |-> {}, artifacts |-> {Artifact("events", "d1", MCClock)},
     files |-> [p \in {"events"} |-> "d1"],
     sources |-> [role \in Roles |-> Source(role)], named |-> [role \in Roles |-> role \o "-run"],
     closeout |-> Closeout, offset |-> 0, uncertainty |-> 1,
     latencies |-> {Latency("measured", {"a"}, 9), Latency("request", {"b"}, 8)},
     hardware |-> {<<"gpu", 0>>, <<"npu", 0>>},
     shutdown |-> [integrity |-> None, demo |-> FALSE, stderr |-> None]]

Value(section, name, value, sources) ==
    [section |-> section, name |-> name, available |-> value # None, value |-> value,
     reason |-> IF value = None THEN "no samples" ELSE None,
     count |-> IF value = None THEN 0 ELSE 1, sources |-> sources]
MCKpis ==
    {Value("request_facing_latency", "latency.e2e", 9, {"a"}),
     Value("pipeline_latency", "latency.e2e", 8, {"b"}),
     Value("throughput", "tokens", None, {})}
MCSummaries ==
    {[stage |-> "decode", name |-> "utilization.mean", device |-> <<"npu", 0>>, available |-> TRUE,
      value |-> 5, reason |-> None, count |-> 2]}
In(run) == [run |-> run, kpis |-> MCKpis, summaries |-> MCSummaries]

------------------------------------------------------------------------------
(* What the client measured, and samples.                                      *)

Seen(run, rows) == [run EXCEPT !.sources["gpu"].measured = rows]
Row(start, end, tokens) ==
    [request |-> "c", start |-> start, end |-> end, tokens |-> tokens,
     output |-> IF tokens = None THEN 0 ELSE Len(tokens)]
Client == {Row(21, 36, <<32, 35>>)}

Sample(name, device, ts, value, role) ==
    [name |-> name, resource |-> TRUE, clock |-> MCClock, gauge |-> TRUE,
     available |-> value # None, value |-> value, ts |-> ts,
     interval |-> IF role = "background" THEN 3 ELSE None, role |-> role, device |-> device,
     host |-> "h"]
MCMetrics ==
    {Sample("power", <<"gpu", 0>>, 0, 5, "baseline"), Sample("power", <<"gpu", 0>>, 7, 6, "background"),
     Sample("power", <<"gpu", 0>>, 17, 7, "background"), Sample("power", <<"gpu", 0>>, 20, 8, "background"),
     Sample("power", <<"gpu", 0>>, 18, 8, "final"), Sample("power", <<"gpu", 0>>, 8, None, "background"),
     Sample("utilization", None, 9, 3, "background"), Sample("utilization", <<"npu", 0>>, 9, 4, "background"),
     [Sample("power", <<"gpu", 0>>, 12, 9, "background") EXCEPT !.resource = FALSE]}
Sampled(run, metrics) == [run EXCEPT !.metrics = metrics]

------------------------------------------------------------------------------
(* Native captures of a detailed run, between 2 and 16 of the canonical clock.   *)

NativeRow(place, phase, kind, process, correlation, ts, dur) ==
    [place |-> place, phase |-> phase, category |-> IF kind = "device" THEN 1 ELSE 0, kind |-> kind,
     lane |-> IF kind = "device" THEN place % 2 ELSE 0, artifact |-> 0, process |-> process,
     correlation |-> correlation, ts |-> ts + 11, dur |-> dur]
Capture(profiler, source, rows) ==
    [profiler |-> profiler, source |-> source, bases |-> {1010}, rows |-> rows,
     offsets |-> {1000, 1002}, transform |-> -20, bracket |-> [first |-> 22, last |-> 36]]
Anchor(before) == [before |-> before, after |-> before + 1, ok |-> TRUE]
Alignment(profiler, role) ==
    [profiler |-> profiler, role |-> role, canonical |-> "mono", native |-> "native", partial |-> TRUE,
     start |-> Anchor(22), stop |-> Anchor(35), interval |-> <<22, 36>>, uncertainty |-> 1]
Profiled(run, role, capture) ==
    LET source == [run.sources[role] EXCEPT
            !.detailed = TRUE, !.clocks = @ \cup {[Clock("native") EXCEPT !.monotonic = FALSE]},
            !.artifacts = @ \cup {Artifact("native", "d2", "native")},
            !.files = [p \in {"manifest.json", "events", "native"} |->
                         CASE p = "events" -> "d1" [] p = "native" -> "d2" [] OTHER -> "d0"],
            !.alignment = Alignment(capture.profiler, role),
            !.detail = [kind |-> capture.profiler,
                        files |-> {[path |-> "native", digest |-> "d2", size |-> 1]}],
            !.capture = capture]
    IN  [run EXCEPT !.detailed = TRUE, !.profilers = "partial", !.sources[role] = WithDescriptor(source)]

KinetoRows ==
    {NativeRow(1, "X", "host_api", 1, 5, 3, 2), NativeRow(2, "X", "device", None, 5, 6, 3),
     NativeRow(3, "i", "annotation", 1, None, 4, None), NativeRow(4, "X", "annotation", 1, None, 5, 0),
     NativeRow(5, "s", "annotation", 1, 5, 4, None)}
NsysRows(process) ==
    {NativeRow(1, "X", "host_api", 1, 5, 3, 2), NativeRow(2, "X", "device", process, 5, 6, 3),
     NativeRow(3, "X", "annotation", 1, None, 5, 0)}
Packet(kind, track, ts, flows, terminating) ==
    [kind |-> kind, track |-> track, ts |-> ts, flows |-> flows, terminating |-> terminating]
Pb(shard, packets) ==
    [digest |-> <<"pb", shard>>, stem |-> "decode", shard |-> shard, packets |-> packets,
     described |-> {1, 2}, snapshots |-> 0]
Work == <<Packet("begin", 1, 1, {7}, {}), Packet("end", 1, 2, {}, {})>>
Rest == <<Packet("begin", 2, 3, {}, {}), Packet("instant", 2, 4, {8}, {}), Packet("end", 2, 5, {}, {8})>>
All == <<Packet("begin", 1, 1, {7}, {}), Packet("end", 1, 2, {}, {}),
         Packet("begin", 2, 3, {}, {}), Packet("instant", 2, 4, {8}, {}), Packet("end", 2, 5, {}, {8})>>

Captured ==
    {Profiled(RunOf(Base), "gpu", Capture("gpu_torch", "kineto", KinetoRows)),
     Profiled(RunOf(Base), "gpu", Capture("gpu_torch", "kineto",
                                          {NativeRow(1, "X", "host_api", 1, 5, 1, 9)})),
     Profiled(RunOf(Base), "npu", Capture("npu_rbln", "rbln", {Pb(None, All), Pb(0, Work), Pb(1, Rest)})),
     Profiled(RunOf(Base), "npu", Capture("npu_rbln", "rbln", {Pb(None, Work), Pb(0, Rest)}))}
    \cup {Profiled(RunOf(Base), "gpu", Capture("gpu_nsys", "nsys", NsysRows(p))) : p \in {1, 2}}
    \cup {Seen(Profiled(RunOf(Base), "gpu", Capture("gpu_torch", "kineto", KinetoRows)),
                   {Row(start, end, None)}) : start \in {21, 24, 28}, end \in {29, 36}}
    \cup {Seen(Profiled(RunOf(Base), "gpu", Capture("gpu_torch", "kineto", KinetoRows)),
                {Row(instant, instant, None)}) : instant \in {26, 28, 30}}

------------------------------------------------------------------------------
(* Runs with one flaw, which the loader or the planner is to refuse, and runs   *)
(* that are odd but whole.                                                      *)

Changed(field, value) == [RunOf(Base) EXCEPT ![field] = value]
Flawed ==
    {Changed("status", "failed"), Changed("canonical", "other"), Changed("hosts", {}),
     Changed("profilers", "partial"), Changed("files", [p \in {"events"} |-> "d2"]),
     Changed("named", [role \in Roles |-> "gpu-run"]), Changed("uncertainty", -1),
     Changed("transforms", {}),
     [RunOf(Base) EXCEPT !.sources["npu"].artifacts = {}],
     [RunOf(Base) EXCEPT !.closeout.mismatches = {<<"gpu", "events", "changed">>}],
     [RunOf(Base) EXCEPT !.latencies = {Latency("measured", {"a"}, 9), Latency("request", {"b"}, 9)}],
     RunOf(SubSeq(Base, 1, 15)),
     Seen(RunOf(Base), {Row(21, 36, <<35, 32>>)}), Seen(RunOf(Base), {}),
     Seen(Changed("transforms", {[Transform("gpu", -20) EXCEPT !.to = 30], Transform("npu", -20)}), Client)}
Odd ==
    {RunOf(Base \o Whole(16, 7, "d")), RunOf(Base \o Whole(16, 15, "d")), RunOf(TwoSteps(Base)),
     RunOf(Base \o Whole(16, 16, "d")),
     [RunOf(Base) EXCEPT !.closeout.mismatches = {Deferred}, !.closeout.deferred = "contract"],
     RunOf([Base EXCEPT ![9].ts = 8]),
     RunOf(WithOriginals(Base, 0)), RunOf(Observed(Base)), RunOf(Waiting(Base)),
     RunOf(Base \o <<Token(41, 0, 12), Token(42, 1, 15)>>),
     Seen(RunOf(Base \o <<Token(41, 0, 12), Token(42, 1, 15)>>), Client),
     RunOf(Base \o <<Span(41, 3, 2)>>),
     RunOf(Base \o <<[Token(41, 0, 12) EXCEPT !.type = "span", !.dur = 2]>>),
     RunOf(Base \o Whole(16, 16, "d") \o <<Token(41, 0, 12), TokenOf("d", 42, 0, 28)>>),
     Seen(Sampled(RunOf(Base), MCMetrics), Client),
     Sampled(RunOf(Base), MCMetrics),
     Sampled(RunOf(Base \o Whole(16, 7, "d")), MCMetrics)}

MCInputs == {In(run) : run \in Captured \cup Flawed \cup Odd \cup {RunOf(WithOriginals(Base, 9))}}
MCConfigs == [native : BOOLEAN, focused : BOOLEAN]
=============================================================================
