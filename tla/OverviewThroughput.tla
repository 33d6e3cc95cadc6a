-------------------------- MODULE OverviewThroughput --------------------------
(***************************************************************************)
(* Counts and rates of the measured window, and what is known of the KV        *)
(* transfer (overview/calculation/throughput_transfer.py).  Counts and rates    *)
(* are computed again from one another; whatever does not add up is refused,    *)
(* and what is missing stays missing.                                         *)
(***************************************************************************)
EXTENDS OverviewLatency

TokenNames == {"request.input_tokens", "request.output_tokens", "request.total_tokens"}
CountNames == TokenNames \cup {"request.count"}
RateNames ==
    {"throughput.requests", "throughput.input_tokens", "throughput.output_tokens",
     "throughput.total_tokens"}
WindowNames == CountNames \cup RateNames
CountOf(rate) ==
    CASE rate = "throughput.requests" -> "request.count"
      [] rate = "throughput.input_tokens" -> "request.input_tokens"
      [] rate = "throughput.output_tokens" -> "request.output_tokens"
      [] OTHER -> "request.total_tokens"

OfWindow(loaded, name) == {m \in Of(loaded.metrics, name) : m.measured}
SeveralRequests(loaded) == \E name \in WindowNames : Ambiguous(OfWindow(loaded, name))
AbsentNames(loaded) == {name \in WindowNames : OfWindow(loaded, name) = {}}

------------------------------------------------------------------------------
(* The counts: of one request the metrics themselves, of several the sums over   *)
(* requests that each have exactly one metric of every kind.                     *)

RowIds(loaded, name) == {m.request : m \in OfWindow(loaded, name)}
RowsRefused(loaded, name) ==
    \/ OfWindow(loaded, name) = {} \/ None \in RowIds(loaded, name)
    \/ Cardinality(RowIds(loaded, name)) # Cardinality(OfWindow(loaded, name))
RequestsDisagree(loaded) ==
    \E a, b \in TokenNames : RowIds(loaded, a) # RowIds(loaded, b)
SumOf(metrics) == Total([m \in metrics |-> m.value])
CountValue(loaded, name) ==
    IF name \in TokenNames THEN SumOf(OfWindow(loaded, name))
    ELSE Selected(OfWindow(loaded, name)).value

Unusable(loaded) ==
    \E name \in WindowNames : \E m \in OfWindow(loaded, name) :
       MetricRefused(m) \/ MetricValue(m) = None
CountsRefused(loaded) ==
    \/ Unusable(loaded)
    \/ Plus(CountValue(loaded, "request.input_tokens"), CountValue(loaded, "request.output_tokens"))
         # CountValue(loaded, "request.total_tokens")
    \/ /\ SeveralRequests(loaded)
       /\ \/ RequestsDisagree(loaded)
          \/ CountValue(loaded, "request.count")
               # Whole(Cardinality(RowIds(loaded, "request.input_tokens")))

------------------------------------------------------------------------------
(* One window: every rate is its count over the duration all of them name.        *)

Windowed(loaded) == UNION {OfWindow(loaded, name) : name \in RateNames \cup {"request.count"}}
Intervals(loaded) == {m.interval : m \in Windowed(loaded)}
MeasuredWindowRefused(loaded) ==
    \/ Cardinality(Intervals(loaded)) # 1 \/ None \in Intervals(loaded)
    \/ \E interval \in Intervals(loaded) : interval <= 0
MeasuredInterval(loaded) == CHOOSE interval \in Intervals(loaded) : TRUE
ExpectedRate(loaded, rate) ==
    LET count == CountValue(loaded, CountOf(rate))
    IN  Over(count.n * Second, count.d * MeasuredInterval(loaded))
RatesRefused(loaded) ==
    \E rate \in RateNames :
       Selected(OfWindow(loaded, rate)).value # ExpectedRate(loaded, rate)

ThroughputRefused(loaded) ==
    /\ AbsentNames(loaded) # WindowNames
    /\ \/ SeveralRequests(loaded)
            /\ \/ \E name \in RateNames \cup {"request.count"} :
                     Cardinality(OfWindow(loaded, name)) # 1
               \/ \E name \in TokenNames : RowsRefused(loaded, name)
       \/ ~SeveralRequests(loaded) /\ AbsentNames(loaded) # {}
       \/ \E name \in WindowNames : ClockRefused(OfWindow(loaded, name))
       \/ CountsRefused(loaded) \/ MeasuredWindowRefused(loaded) \/ RatesRefused(loaded)

WindowKpi(loaded, name) ==
    LET metrics == OfWindow(loaded, name)
    IN  Kpi(name, IF name \in CountNames THEN CountValue(loaded, name) ELSE ExpectedRate(loaded, name),
            None, "measured_window", Cardinality(metrics),
            Scope("client", IF SeveralRequests(loaded) THEN None ELSE Selected(metrics).request),
            ClockOf(loaded, metrics), UNION {m.sources : m \in metrics})
ThroughputAndTokens(loaded) ==
    [name \in WindowNames |->
        IF AbsentNames(loaded) = WindowNames
          THEN NormalizedMetricKpi(loaded, name, None, "client")
          ELSE WindowKpi(loaded, name)]

------------------------------------------------------------------------------
(* The transfer.  Its size is told by both of its markers, or not known; what is   *)
(* derived from a value that is not known, or divides by zero, is not known.       *)

ObservabilityNames ==
    {"transfer.handoff_duration", "transfer.setup_duration", "transfer.wait_duration",
     "transfer.device_sync_duration", "decode.schedule_wait_duration"}
DerivedRatio(numerator, denominator, scale) ==
    IF numerator = None \/ denominator = None THEN None
    ELSE IF denominator.n = 0 THEN None
    ELSE Over(numerator.n * scale * denominator.d, numerator.d * denominator.n)
RatioReason(numerator, denominator) ==
    IF numerator = None THEN "numerator is unavailable"
    ELSE IF denominator = None THEN "denominator is unavailable"
    ELSE IF denominator.n = 0 THEN "denominator is zero" ELSE None

HasTransfer(pairs) == "kv_transfer" \in DOMAIN pairs
TransferBytes(pairs) ==
    IF ~HasTransfer(pairs) THEN None
    ELSE LET pair == pairs["kv_transfer"]
         IN  IF None \in {pair.start.bytes, pair.end.bytes} THEN None ELSE Whole(pair.start.bytes)
BytesRefused(pairs) ==
    HasTransfer(pairs)
      /\ LET start == pairs["kv_transfer"].start
             end == pairs["kv_transfer"].end
         IN  \/ start.transfer = None \/ start.transfer # end.transfer
             \/ /\ None \notin {start.bytes, end.bytes}
                /\ start.bytes < 0 \/ start.bytes # end.bytes

\* The request the transfer is of, None for the means over several.
TransferRequest(pipeline, pairs) ==
    IF HasTransfer(pairs) THEN pairs["kv_transfer"].start.correlation
    ELSE pipeline[Latency("e2e")].scope.request

\* Intervals the runtime marked itself: their mean, when every one is known.
Observed(loaded, name, request) ==
    {m \in Of(loaded.metrics, name) : request = None \/ m.request = request}
ObservedMean(candidates) ==
    IF candidates = {} \/ \E m \in candidates : MetricValue(m) = None THEN None
    ELSE Part(SumOf(candidates), Cardinality(candidates))
ObservabilityKpi(loaded, name, request, clock) ==
    LET candidates == Observed(loaded, name, request)
        value == ObservedMean(candidates)
    IN  Kpi(name, value,
            IF value # None THEN None
              ELSE IF candidates = {} THEN "capability is absent" ELSE "interval is unavailable",
            IF request = None THEN AcrossRequests
              ELSE IF Cardinality(candidates) > 1 THEN "mean_across_explicit_intervals"
              ELSE "canonical_marker_pair",
            Cardinality({m \in candidates : MetricValue(m) # None}), Scope("pipeline", request),
            IF candidates = {} THEN clock ELSE ClockOf(loaded, candidates),
            UNION {m.sources : m \in candidates})

TransferKpi(name, value, reason, request, pipeline) ==
    LET latency == pipeline[Latency(IF name = "transfer.transform_duration" THEN "kv_transform"
                                    ELSE "kv_transfer")]
    IN  Kpi(name, value, reason, IF request = None THEN AcrossRequests ELSE "transfer",
            IF name \in {"transfer.duration", "transfer.transform_duration"} THEN latency.count
              ELSE IF value = None THEN 0 ELSE 1,
            Scope("pipeline", request), latency.clock, latency.sources)

TransferKpis(loaded, pipeline, pairs) ==
    LET request == TransferRequest(pipeline, pairs)
        bytes == TransferBytes(pairs)
        duration == pipeline[Latency("kv_transfer")]
        transform == pipeline[Latency("kv_transform")]
        e2e == pipeline[Latency("e2e")]
        kpi(name, value, reason) == TransferKpi(name, value, reason, request, pipeline)
        \* None without a pair or without a count.
        value == [name \in {"transfer.bytes", "transfer.duration", "transfer.effective_bandwidth",
                            "transfer.transform_duration", "transfer.e2e_share"} |->
                    CASE name = "transfer.bytes" ->
                           <<bytes, IF bytes = None THEN "no byte count" ELSE None>>
                      [] name = "transfer.duration" -> <<duration.value, duration.reason>>
                      [] name = "transfer.transform_duration" -> <<transform.value, transform.reason>>
                      [] name = "transfer.effective_bandwidth" ->
                           <<DerivedRatio(bytes, duration.value, Second),
                             RatioReason(bytes, duration.value)>>
                      [] OTHER -> <<DerivedRatio(duration.value, e2e.value, 1),
                                    RatioReason(duration.value, e2e.value)>>]
    IN  [name \in DOMAIN value \cup ObservabilityNames |->
            IF name \in ObservabilityNames THEN ObservabilityKpi(loaded, name, request, duration.clock)
            ELSE kpi(name, value[name][1], value[name][2])]

TransferRefused(loaded, pipeline, pairs, kpis) ==
    \/ BytesRefused(pairs)
    \/ \E name \in ObservabilityNames :
          LET candidates == Observed(loaded, name, TransferRequest(pipeline, pairs))
          IN  ClockRefused(candidates) \/ \E m \in candidates : MetricRefused(m)
    \/ \E name \in DOMAIN kpis : KpiRefused(kpis[name])
=============================================================================
