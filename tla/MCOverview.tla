----------------------------- MODULE MCOverview -----------------------------
(* Small runs for Overview: one request or two, with one thing changed: its     *)
(* steps, the client's rows, its rates, its transfer, its sampled resources,      *)
(* what the run says of itself, or the trace beside it.                          *)
EXTENDS Overview

MCClock == "canon"
MCBracketNames == {"bracket_start"}
MCResourceNames == {"util", "memory"}
MCIntervalNames == {"util"}

PhaseOf(name) ==
    IF name = "request_received" THEN "request" ELSE IF name = "response_done" THEN "response"
      ELSE (CHOOSE s \in PipelineStages \cup DetailStages : name \in {s.first, s.last}).phase
Event(id, name, ts, correlation) ==
    [id |-> id, name |-> name, type |-> "instant", phase |-> PhaseOf(name), clock |-> MCClock,
     ts |-> ts, request |-> correlation, correlation |-> correlation,
     transfer |-> <<"t", correlation>>, version |-> None,
     step |-> IF name \in J!IterationNames THEN 0 ELSE None,
     bytes |-> IF name \in {"kv_transfer_start", "kv_transfer_end"} THEN 4 ELSE None,
     observed |-> "done_on_first_poll", uncertainty |-> 1, suffix |-> "s", original |-> None,
     hash |-> "d1", method |-> "m", host |-> "h"]
Marks(first, start, correlation) ==
    [i \in 1..16 |-> Event(first + i, J!MARKER_ORDER[i], start + i, correlation)]
Base == Marks(0, 0, "c")
\* A second request, that takes longer.
Both == Base \o [Marks(16, 7, "d") EXCEPT ![16].ts = 30]

Stretched(events) == [i \in DOMAIN events |-> [events[i] EXCEPT !.ts = 10 * events[i].ts]]
Second1(id, name, ts) == [Event(id, name, ts, "c") EXCEPT !.step = 1]
TwoSteps ==
    Stretched(Base)
    \o <<Second1(51, "decode_step_start", 141), Second1(52, "decode_step_end", 143),
         Second1(53, "sampling_start", 144), Second1(54, "sampling_end", 146)>>
Unaligned(events, correlation) ==
    [i \in DOMAIN events |-> IF events[i].correlation # correlation THEN events[i]
                             ELSE [events[i] EXCEPT !.method = None, !.uncertainty = None]]

------------------------------------------------------------------------------
(* Metrics.                                                                    *)

Metric(name, request, value) ==
    [name |-> name, request |-> request, host |-> "h", device |-> None, phase |-> None,
     window |-> None, measured |-> TRUE, joined |-> None, conforms |-> TRUE,
     available |-> value # None, value |-> value, reason |-> None, interval |-> None,
     ts |-> 0, place |-> 0, clock |-> MCClock, method |-> "m", uncertainty |-> 1,
     sources |-> {<<name, request, 1>>, <<name, request, 2>>}]
Joined(stem, request, value) == [Metric(Latency(stem), request, value) EXCEPT !.joined = "correlation_id"]
ClientOf(request) ==
    {Metric("latency.e2e", request, Whole(17)), Metric("latency.ttft", request, Whole(9)),
     Metric("latency.tpot", request, Over(5, 2)),
     Joined("e2e", request, Whole(IF request = "c" THEN 15 ELSE 22))}
TokensOf(request) ==
    {Metric("request.input_tokens", request, Whole(2)),
     Metric("request.output_tokens", request, Whole(3)),
     Metric("request.total_tokens", request, Whole(5))}
Timed(name, value) == [Metric(name, None, value) EXCEPT !.interval = 20]
WindowOf(requests) ==
    LET n == Cardinality(requests)
    IN  {Timed("request.count", Whole(n)), Timed("throughput.requests", Over(n, 2)),
         Timed("throughput.input_tokens", Whole(n)),
         Timed("throughput.output_tokens", Over(3 * n, 2)),
         Timed("throughput.total_tokens", Over(5 * n, 2))}
MetricsOf(requests) ==
    UNION {ClientOf(r) \cup TokensOf(r) : r \in requests} \cup WindowOf(requests)

Changed(metrics, name, field, value) ==
    {m \in metrics : m.name # name}
    \cup {CASE field = "value" -> [m EXCEPT !.value = value, !.available = value # None]
            [] field = "conforms" -> [m EXCEPT !.conforms = value]
            [] OTHER -> [m EXCEPT !.interval = value] : m \in Of(metrics, name)}
Without(metrics, name) == {m \in metrics : m.name # name}
Handoffs(values) ==
    {[Metric("transfer.handoff_duration", r, values[r][i]) EXCEPT !.joined = "correlation_id", !.place = i] :
       r \in DOMAIN values, i \in 1..2}

------------------------------------------------------------------------------
(* Runs.                                                                       *)

Command(serving, offline) == [gpu |-> serving, npu |-> offline]
RunOf(events, requests) ==
    [id |-> "run", status |-> "succeeded", events |-> {events[i] : i \in DOMAIN events},
     lines |-> events, metrics |-> MetricsOf(requests), canonical |-> MCClock, offset |-> 0,
     uncertainty |-> 1, method |-> "m", raw |-> None,
     provenance |-> [measured |-> None, commands |-> Command(<<>>, <<>>)],
     workload |-> [requests |-> 1, concurrency |-> 1, maxModelLen |-> 8],
     models |-> {[role |-> "gpu", path |-> <<"models", "m">>, dtype |-> "bf16"]},
     hardware |-> {"gpu", "npu"}, envelopes |-> {}]
One == RunOf(Base, {"c"})
Two == RunOf(Both, {"c", "d"})
Shown == [run |-> "run", compact |-> FALSE, kpis |-> 2]
In(run) == [loaded |-> run, shown |-> Shown]
With(metrics) == [One EXCEPT !.metrics = @ \cup metrics]

Shapes ==
    {[loaded |-> run, shown |-> [Shown EXCEPT !.compact = compact]] :
       run \in {One, Two, [RunOf(TwoSteps, {"c"}) EXCEPT !.metrics = WindowOf({"c"}) \cup TokensOf("c")]},
       compact \in BOOLEAN}
Clocks ==
    {In(RunOf([i \in DOMAIN Base |-> [Base[i] EXCEPT !.method = None]], {"c"})),
     In(RunOf([i \in DOMAIN Both |-> [Both[i] EXCEPT !.uncertainty = -1]], {"c", "d"})),
     In(RunOf(Unaligned(Both, "d"), {"c", "d"})),
     In([One EXCEPT !.offset = None])}
Unplanned ==
    {In(RunOf(SubSeq(Base, 1, 15), {"c"})), In(RunOf([Base EXCEPT ![7].suffix = "x"], {"c"})),
     In(RunOf([Base EXCEPT ![6].suffix = None], {"c"})),
     In(RunOf(Base \o <<Event(41, "kv_transfer_start", 20, "c")>>, {"c"})),
     [loaded |-> One, shown |-> [Shown EXCEPT !.run = "other"]]}

------------------------------------------------------------------------------
(* What the client saw.                                                        *)

Row(request, e2e, hash) ==
    [request |-> request, hash |-> hash, start |-> 0, end |-> 17, e2e |-> Whole(e2e),
     ttft |-> Whole(9), tpot |-> Over(5, 2)]
Rows(rows) == [One EXCEPT !.raw = [intact |-> TRUE, rows |-> rows]]
Clients ==
    {In(Rows({Row("c", 17, "d1")})), In(Rows({Row("c", 17, "d2")})), In(Rows({Row("c", 16, "d1")})),
     In(Rows({})), In([One EXCEPT !.raw = [intact |-> FALSE, rows |-> {}]]),
     In([One EXCEPT !.metrics = Changed(@, "latency.ttft", "value", None)]),
     In([One EXCEPT !.metrics = Without(@, "latency.tpot")]),
     In([One EXCEPT !.metrics = Without(@, "latency.e2e")]),
     In([One EXCEPT !.metrics = @ \cup {Metric("latency.e2e", None, Whole(4))}]),
     In([One EXCEPT !.metrics = Changed(@, "latency.e2e", "conforms", FALSE)]),
     In([One EXCEPT !.metrics = Without(@, "latency.e2e") \cup {Joined("e2e", "c", Whole(14))}]),
     In([Two EXCEPT !.metrics =
            {m \in @ : m.name # "latency.ttft" \/ m.request = "c"}]),
     In([Two EXCEPT !.metrics = @ \cup {Metric("latency.e2e", None, Whole(4))}])}

------------------------------------------------------------------------------
(* Counts, rates and the transfer.                                             *)

Rates ==
    {In([One EXCEPT !.metrics = Without(@, "throughput.requests")]),
     In([One EXCEPT !.metrics = @ \ (WindowOf({"c"}) \cup TokensOf("c"))]),
     In([One EXCEPT !.metrics = Changed(@, "request.total_tokens", "value", Whole(6))]),
     In([One EXCEPT !.metrics = Changed(@, "request.count", "interval", 10)]),
     In([One EXCEPT !.metrics = Changed(@, "throughput.requests", "value", Whole(1))]),
     In([Two EXCEPT !.metrics = @ \ TokensOf("d")]),
     In([Two EXCEPT !.metrics = @ \ {Metric("request.total_tokens", "d", Whole(5))}]),
     In([Two EXCEPT !.metrics = Changed(@, "request.count", "value", Whole(1))])}
Bytes(first, last) == RunOf([Base EXCEPT ![6].bytes = first, ![7].bytes = last], {"c"})
Transfers ==
    {In(Bytes(None, 4)), In(Bytes(4, 5)), In(Bytes(0, 0)), In(RunOf([Base EXCEPT ![7].ts = 6], {"c"}))}
    \cup {In(With(Handoffs("c" :> <<a, Whole(3)>>))) : a \in {None, Whole(0), Whole(2)}}
    \cup {In([Two EXCEPT !.metrics = @ \cup Handoffs([r \in {"c", "d"} |-> <<a, Whole(3)>>])]) :
            a \in {None, Whole(2)}}
    \cup {In(With({[m EXCEPT !.uncertainty = -1] : m \in Handoffs("c" :> <<None, None>>)}))}

------------------------------------------------------------------------------
(* Sampled resources.                                                          *)

Sample(name, place, ts, interval, value) ==
    [Metric(name, None, value) EXCEPT !.measured = FALSE, !.place = place, !.ts = ts,
                                      !.interval = interval, !.sources = {place}]
Levels == [i \in 0..5 |-> ((3 * i) % 5) + 1]
Util(place, interval, value) == Sample("util", place, 3 * place, interval, value)
Utils(unknown, broken, dropped) ==
    {Util(i, IF i = broken THEN 2 ELSE 3, IF i = unknown THEN None ELSE Whole(Levels[i])) :
       i \in (1..5) \ {dropped}}
Memory(place, ts, value) == Sample("memory", place, ts, None, value)
Memories == {Memory(1, 2, Whole(5)), Memory(2, 5, Whole(7)), Memory(3, 9, Whole(6)), Memory(4, 12, None)}
Moved(samples, host) == {[m EXCEPT !.host = host] : m \in samples}

Sampling ==
    {In(With(Utils(unknown, broken, dropped) \cup Memories)) :
       unknown \in {0, 1, 3, 4}, broken \in {0, 4, 5}, dropped \in {0, 2, 5}}
    \cup {In(With(samples)) : samples \in
            {Moved(Utils(0, 0, 0), "k"), {Util(1, 3, Whole(1))},
             {[m EXCEPT !.phase = "decode"] : m \in Utils(0, 0, 0)},
             {[m EXCEPT !.phase = IF m.place = 1 THEN "decode" ELSE None] : m \in Utils(0, 0, 0)},
             {[m EXCEPT !.phase = IF m.place = 1 THEN None ELSE "decode"] : m \in Utils(0, 0, 0)},
             {[m EXCEPT !.method = None] : m \in Utils(0, 0, 0)},
             {[m EXCEPT !.place = 9 - @] : m \in Utils(0, 0, 0)},
             {Sample("util", i, 8 * i, 8, Whole(Levels[i])) : i \in 0..2},
             Utils(0, 0, 0) \cup {Sample("util", 7, 6, 3, Whole(2))},
             Utils(0, 0, 0) \cup {Sample("util", 7, 18, 3, Whole(101))}}}
    \cup {In([Two EXCEPT !.metrics = @ \cup Utils(0, 0, 0)])}

------------------------------------------------------------------------------
(* What the run says of itself.                                                *)

Said(field, value) == In([One EXCEPT ![field] = value])
Provenance(measured, serving, offline) ==
    Said("provenance", [measured |-> measured, commands |-> Command(serving, offline)])
Model(path) == [role |-> "npu", path |-> path, dtype |-> None]
Told ==
    {Provenance(1, <<4>>, <<4>>), Provenance(2, <<>>, <<>>), Provenance(None, <<4>>, <<>>),
     Provenance(None, <<4>>, <<5>>), Provenance(None, <<4, 4>>, <<4, 4>>),
     Said("models", {Model(<<"models", "..">>)}), Said("models", {Model(<<>>)}),
     Said("envelopes", {[profiler |-> "npu_rbln"], [profiler |-> "gpu_nsys"]})}

MCInputs ==
    Shapes \cup Clocks \cup Unplanned \cup Clients \cup Rates \cup Transfers \cup Sampling \cup Told
=============================================================================
