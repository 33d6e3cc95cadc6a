---------------------------- MODULE OverviewKpi ----------------------------
(***************************************************************************)
(* What one KPI of the Overview is (overview/calculation/kpi_records.py):    *)
(* a value or the reason there is none, how many records it stands on, whose  *)
(* clock they were read on, and which of them it names.  A metric of the run   *)
(* is                                                                        *)
(*   [name, request, host, device, phase, window, measured (it is of the      *)
(*    measured window), joined (by which identifier), conforms (its     *)
(*    unit, kind and scope are the catalog's), available, value, reason,       *)
(*    interval, ts, place (its line in the stream), clock, method,             *)
(*    uncertainty, sources]                                                   *)
(* and a value is a fraction in lowest terms, where the code has an int or a    *)
(* float.                                                                    *)
(***************************************************************************)
EXTENDS TraceModel, Integers, FiniteSets, FiniteSetsExt, Functions

CONSTANT Second     \* nanoseconds in a second, scaled down

------------------------------------------------------------------------------
(* Fractions.                                                                *)

Fraction == [n : Int, d : Nat \ {0}]
Over(n, d) ==
    LET common == Max({k \in 1..d : n % k = 0 /\ d % k = 0})
    IN  [n |-> n \div common, d |-> d \div common]
Whole(n) == [n |-> n, d |-> 1]
Plus(a, b) == Over(a.n * b.d + b.n * a.d, a.d * b.d)
Total(values) == FoldFunction(Plus, Whole(0), values)
Part(a, k) == Over(a.n, a.d * k)
AtMost(a, b) == a.n * b.d <= b.n * a.d
Mean(values) == Part(Total(values), Cardinality(DOMAIN values))

------------------------------------------------------------------------------
(* Clock evidence: records are aligned when they are all on the canonical      *)
(* clock, were brought there by one method, and say how far they may be off.    *)

UnknownClock == [domains |-> {}, aligned |-> FALSE, uncertainty |-> None, offset |-> None]
Methods(records) == {r.method : r \in records} \ {None}
Uncertainties(records) == {r.uncertainty : r \in records} \ {None}
ClockRefused(records) == \E u \in Uncertainties(records) : u < 0
ClockOf(loaded, records) ==
    LET aligned == /\ {r.clock : r \in records} = {loaded.canonical}
                   /\ Cardinality(Methods(records)) = 1 /\ Uncertainties(records) # {}
    IN  [domains |-> {r.clock : r \in records}, aligned |-> aligned,
         uncertainty |-> IF aligned THEN Max(Uncertainties(records)) ELSE None,
         offset |-> IF aligned THEN loaded.offset ELSE None]

------------------------------------------------------------------------------
(* A KPI, and the bounds its catalog entry puts on a value.                    *)

IntegerMetrics ==
    {"request.count", "request.input_tokens", "request.output_tokens", "request.total_tokens",
     "transfer.bytes"}
OutOfBounds(name, value) ==
    \/ value.n < 0
    \/ name = "transfer.e2e_share" /\ value.n > value.d
    \/ name \in IntegerMetrics /\ value.d # 1

Kpi(name, value, reason, method, count, scope, clock, sources) ==
    [name |-> name, available |-> value # None, value |-> value, reason |-> reason,
     method |-> method, count |-> count, scope |-> scope, clock |-> clock, sources |-> sources,
     warned |-> FALSE]
KpiRefused(kpi) ==
    \/ (kpi.value = None) # (kpi.reason # None)
    \/ kpi.value # None /\ OutOfBounds(kpi.name, kpi.value)

Scope(layer, request) == [layer |-> layer, request |-> request]

\* The code of a metric: its identity, its availability, its bounds.
MetricRefused(metric) ==
    \/ ~metric.conforms
    \/ metric.available # (metric.value # None)
    \/ metric.value # None /\ OutOfBounds(metric.name, metric.value)
MetricValue(metric) == IF metric.available THEN metric.value ELSE None

------------------------------------------------------------------------------
(* Selection: a KPI stands on one metric, and never guesses which.             *)

Of(metrics, name) == {m \in metrics : m.name = name}
OfRequest(metrics, request) == {m \in metrics : m.request = request}
ByPipeline(metrics) == {m \in metrics : m.joined # None}
ByClient(metrics) == {m \in metrics : m.joined = None}
Ambiguous(candidates) == Cardinality(candidates) > 1
Selected(candidates) == IF candidates = {} THEN None ELSE CHOOSE m \in candidates : TRUE

NormalizedMetricKpi(loaded, name, metric, layer) ==
    IF metric = None
      THEN Kpi(name, None, "not present", "single_normalized_metric", 0, Scope(layer, None),
               UnknownClock, {})
      ELSE LET value == MetricValue(metric)
           IN  Kpi(name, value,
                   IF value # None THEN None
                     ELSE IF metric.reason # None THEN metric.reason ELSE "unavailable",
                   "single_normalized_metric", IF value = None THEN 0 ELSE 1,
                   Scope(layer, metric.request), ClockOf(loaded, {metric}), metric.sources)

------------------------------------------------------------------------------
(* Several requests: the KPIs of each, by name, become means over all of them;  *)
(* where one has no value, the mean has none.                                   *)

AcrossRequests == "arithmetic_mean_across_measured_requests"
HaveValues(rows, name) == {id \in DOMAIN rows : rows[id][name].available}

AggregateOfAvailable(rows, name, layer, clock) ==   \* mutant: over those that have a value
    LET ids == HaveValues(rows, name)
    IN  Kpi(name, IF ids # {} THEN Mean([id \in ids |-> rows[id][name].value]) ELSE None,
            IF ids # {} THEN None ELSE "one or more unavailable", AcrossRequests,
            Cardinality(ids), Scope(layer, None), clock,
            UNION {rows[id][name].sources : id \in DOMAIN rows})
Aggregate(rows, name, layer, clock) ==
    LET ids == HaveValues(rows, name)
        all == ids = DOMAIN rows
    IN  Kpi(name, IF all THEN Mean([id \in ids |-> rows[id][name].value]) ELSE None,
            IF all THEN None ELSE "one or more unavailable", AcrossRequests,
            Cardinality(ids), Scope(layer, None), clock,
            UNION {rows[id][name].sources : id \in DOMAIN rows})

\* The clock is the first request's.
AggregateRefused(rows) == \E a, b \in DOMAIN rows : DOMAIN rows[a] # DOMAIN rows[b]
AggregateRequestKpis(rows, first) ==
    [name \in DOMAIN rows[first] |->
        Aggregate(rows, name, rows[first][name].scope.layer, rows[first][name].clock)]
=============================================================================
