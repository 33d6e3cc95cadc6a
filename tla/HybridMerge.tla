----------------------------- MODULE HybridMerge -----------------------------
(***************************************************************************)
(* The merge of one GPU and one NPU source run into a hybrid bundle          *)
(* (hybrid/bundle.py, with hybrid/validation.py and the metadata contract of *)
(* runtime_metadata.py): the sources are loaded and checked, the NPU clock   *)
(* is probed, both streams are put on the canonical clock and joined,        *)
(* durations are derived, and the bundle is written file by file, the        *)
(* manifest last.  A crash can end it between any two steps.                 *)
(*                                                                           *)
(* A source bundle as it lies on disk is a record                            *)
(*   [files, typed, run, mode, status, fake, hosts, devices, clocks, events, *)
(*    metrics, artifacts, metadata]                                          *)
(* whose clocks are [id, host, monotonic], whose records have run, host,     *)
(* clock, device (None or <<host, device>>) next to what is aligned, and     *)
(* whose artifacts compare what is on disk with what is recorded.            *)
(***************************************************************************)
EXTENDS Integers, Sequences, FiniteSets, TLC

CONSTANTS
    Refused, None,
    Scenarios,          \* [gpu, npu, method, ahead, torn]: sources, alignment, how far
                        \* the NPU clock is ahead of the canonical one, and whether a
                        \* marker file the sources were made from held a torn line
    ProbeCount, MinimumSamples, MaxUncertainty,
    AllowNonFake,       \* allow_non_fake_sources
    ProbeOutcomes(_),   \* what one probe of a clock ahead by this much may return
    Torn,               \* a marker line that cannot be parsed
    DigestLess(_, _)    \* the order of the digests of two marker identities

VARIABLES
    scenario, phase,
    outcomes,           \* probe results so far
    estimate, available,
    aligned,            \* the sorted aligned events (a set), as they will be written
    joins, derived,
    status,
    files,              \* the bundle's files on disk, by name
    summary             \* the status the summary on disk claims, or None

vars == <<scenario, phase, outcomes, estimate, available, aligned, joins, derived,
          status, files, summary>>

C == INSTANCE ClockSync
J == INSTANCE MarkerJoin
M == INSTANCE RuntimeMarkers

gpu == scenario.gpu
npu == scenario.npu
Canonical == "canonical"
RangeOf(s) == {s[i] : i \in DOMAIN s}

\* What was parsed without an error is a sequence of records with the fields
\* the merge reads.
TypedEvent(e) ==
    {"id", "ts", "clock", "request", "uncertainty"} \subseteq DOMAIN e /\ e.ts \in Int
TypedSource(source) ==
    source.typed => /\ source.events \in Seq(RangeOf(source.events))
                    /\ \A e \in RangeOf(source.events) : TypedEvent(e)
\* A clock both sources name is one clock.
ClockShared(s) ==
    \E c \in RangeOf(s.gpu.clocks), d \in RangeOf(s.npu.clocks) :
        c.monotonic /\ d.monotonic /\ c.host = d.host /\ c.id = d.id
\* A probe takes no negative time on its way out, at the target or back.
Delayed(probe, ahead) ==
    /\ {probe.t0, probe.t1, probe.t2, probe.t3} \subseteq Int
    /\ probe.t0 + ahead <= probe.t1
    /\ probe.t1 <= probe.t2
    /\ probe.t2 <= probe.t3 + ahead

ASSUME MergeAssumption ==
    /\ ProbeCount \in Nat /\ MinimumSamples \in 1..ProbeCount /\ MaxUncertainty \in Nat
    /\ None # "succeeded"
    /\ \A s \in Scenarios :
          /\ s.ahead \in Int
          /\ TypedSource(s.gpu) /\ TypedSource(s.npu)
          /\ ClockShared(s) => s.ahead = 0
          /\ s.torn => s.gpu.status = "failed"   \* as WriteSources has it
          /\ \A probe \in ProbeOutcomes(s.ahead) \ {Refused} : Delayed(probe, s.ahead)

------------------------------------------------------------------------------
(* The source bundles a run writes from its marker files *)

\* The events of the measured requests: the proxy's by request, those of the
\* NPU workers by correlation.  One bad line, or one request whose markers are
\* not all there in order, and there are none.
EventsOfRequests(proxied, worked, measured) ==
    LET onGpu == SelectSeq(proxied, LAMBDA e : e.request \in measured)
        onNpu == SelectSeq(worked, LAMBDA e : e.correlation \in measured)
        of(id) == SelectSeq(onGpu, LAMBDA e : e.request = id)
                  \o SelectSeq(onNpu, LAMBDA e : e.correlation = id)
    IN  IF proxied = Refused \/ worked = Refused THEN Refused
        ELSE IF \E id \in measured : J!ValidateMarkerOrder(of(id)).status # "valid" THEN Refused
        ELSE [gpu |-> onGpu, npu |-> onNpu]
MarkerEvents(proxy, workers, measured) ==
    EventsOfRequests(M!IngestRuntimeMarkerFiles(<<proxy>>, "h", "mono"),
                     M!IngestRuntimeMarkerFiles(workers, "h", "mono"), measured)

\* A source bundle with every file, one clock and one device.
SourceBundle(role, clock, events, metrics, metadata, result) ==
    [files |-> {"manifest", "clock", "events", "metrics", "artifacts"}, typed |-> TRUE,
     run |-> "run", mode |-> "monitor", status |-> result, fake |-> FALSE, hosts |-> {"h"},
     deviceTypes |-> {role}, devices |-> {<<"h", role>>},
     clocks |-> <<[id |-> clock, host |-> "h", monotonic |-> TRUE]>>,
     events |-> events, metrics |-> metrics, artifacts |-> {}, metadata |-> metadata]

\* When the markers are refused both bundles are still written, without events
\* and failed.
SourcesOf(found, metrics, metadata, errors) ==
    LET result == IF errors \/ found = Refused THEN "failed" ELSE "succeeded"
        events(role) == IF found = Refused THEN <<>>
                        ELSE [i \in DOMAIN found[role] |->
                                found[role][i] @@ [run |-> "run", host |-> "h",
                                                   device |-> <<"h", role>>]]
    IN  [role \in {"gpu", "npu"} |->
            SourceBundle(role, "mono", events(role), metrics, metadata[role], result)]
WriteSources(proxy, workers, measured, metrics, metadata, errors) ==
    SourcesOf(MarkerEvents(proxy, workers, measured), metrics, metadata, errors)

------------------------------------------------------------------------------
(* Loading a source bundle *)

RequiredSourceFiles == {"manifest", "clock", "events", "metrics", "artifacts"}

ArtifactSound(artifact, source) ==
    /\ artifact.host # None => artifact.host \in source.hosts
    /\ artifact.inside
    /\ artifact.exists
    /\ artifact.recordedSize # None => artifact.recordedSize = artifact.size
    /\ artifact.recordedDigest # None => artifact.recordedDigest = artifact.digest

RecordSound(record, source) ==
    /\ record.run = source.run
    /\ record.host \in source.hosts
    /\ record.clock \in {c.id : c \in RangeOf(source.clocks)}
    /\ record.device # None => record.device \in source.devices

LoadSourceBundle(source, deviceType) ==
    /\ RequiredSourceFiles \subseteq source.files
    /\ source.typed
    /\ source.clocks # <<>>
    /\ deviceType \in source.deviceTypes
    /\ \A c \in RangeOf(source.clocks) : c.host \in source.hosts
    /\ \A e \in RangeOf(source.events) : RecordSound(e, source)
    /\ \A m \in RangeOf(source.metrics) : RecordSound(m, source)
    /\ \A a \in source.artifacts : ArtifactSound(a, source)

\* The metadata contract: absent from both sources, or the same supported
\* contract with the same model, tokens and capacity, in the two roles.
MetadataMerges(g, n) ==
    \/ g.contract = None /\ n.contract = None
    \/ /\ g.contract = "truthful_runtime_metadata_v1"
       /\ n.contract = g.contract
       /\ g.shared = n.shared
       /\ g.role = "gpu" /\ g.transfer = "kv_producer" /\ g.topology = "gpu_only"
       /\ n.role = "npu" /\ n.transfer = "kv_consumer" /\ n.topology = "npu_only"
       /\ \A m \in {g, n} : m.direction = "gpu_to_npu" /\ m.described = m.shared

SourcesMerge ==
    /\ LoadSourceBundle(gpu, "gpu")
    /\ LoadSourceBundle(npu, "npu")
    /\ gpu.devices \cap npu.devices = {}
    /\ MetadataMerges(gpu.metadata, npu.metadata)

------------------------------------------------------------------------------
(* Clocks *)

\* The monotonic clocks the source's records use.
RecordClocks(source) ==
    LET used == {r.clock : r \in RangeOf(source.events) \cup RangeOf(source.metrics)}
    IN  {c \in RangeOf(source.clocks) : c.id \in used /\ c.monotonic}
RecordClockDomains(source) == {<<c.host, c.id>> : c \in RecordClocks(source)}

SameClockUsable ==
    RecordClockDomains(gpu) = RecordClockDomains(npu) /\ RecordClockDomains(gpu) # {}

TimestampTransforms(source, offset, uncertainty, method, usable) ==
    [clock \in {c.id : c \in RecordClocks(source)} |->
        [source |-> clock, target |-> Canonical, offset |-> offset,
         uncertainty |-> uncertainty, method |-> method, available |-> usable]]

GpuTransforms == TimestampTransforms(gpu, 0, 0, "same_clock_domain", TRUE)
NpuTransforms(e, usable) ==
    TimestampTransforms(npu, -e.offset, e.uncertainty, e.method, usable)

\* The clock records of the bundle: the canonical domain and each source
\* domain, all under their roles, a transform for each clock that records use.
CanonicalDomain == <<"canonical", Canonical>>
ClockDomains ==
    {CanonicalDomain} \cup {<<"gpu", c.id>> : c \in RangeOf(gpu.clocks)}
                \cup {<<"npu", c.id>> : c \in RangeOf(npu.clocks)}
ClockTransforms ==
    {[source |-> <<"gpu", c.id>>, target |-> CanonicalDomain, offset |-> 0, uncertainty |-> 0] :
        c \in RecordClocks(gpu)}
    \cup {[source |-> <<"npu", c.id>>, target |-> CanonicalDomain, offset |-> -estimate.offset,
           uncertainty |-> estimate.uncertainty] : c \in RecordClocks(npu)}

------------------------------------------------------------------------------
(* Derived metrics.  A duration that cannot be trusted has no value, never    *)
(* the value zero.                                                            *)

FirstRow(rows, name) ==
    IF J!Places(rows, name) = {} THEN None ELSE rows[J!FirstPlace(J!Places(rows, name))]

Span(start, end) ==
    IF start = None \/ end = None THEN None
    ELSE IF end.ts < start.ts THEN None ELSE end.ts - start.ts

\* A metric's value is value / over.
Metric(result, name, id, value, rows) ==
    [name |-> name, request |-> result.request, transfer |-> id, value |-> value,
     over |-> 1, sources |-> IF value = None THEN {} ELSE rows]

PhaseStages == {"prefill", "kv_export", "kv_transfer", "kv_transform", "decode_loop", "sampling"}
PhaseMetric(result, stage, accepted) ==
    LET start == FirstRow(result.events, IF stage = "e2e" THEN "request_received"
                                         ELSE stage \o "_start")
        end == FirstRow(result.events, IF stage = "e2e" THEN "response_done"
                                       ELSE stage \o "_end")
    IN  Metric(result, "latency." \o stage, None,
               IF accepted THEN Span(start, end) ELSE None, {start, end})

\* The transfer KPIs of a request, from the first markers of each name.
TransferMetrics(result, accepted) ==
    LET row(name) == FirstRow(result.events, name)
        start == row("kv_transfer_start")
        end == row("kv_transfer_end")
        duration == IF accepted THEN Span(start, end) ELSE None
        e2e == IF accepted THEN Span(row("request_received"), row("response_done")) ELSE None
        transform == IF accepted THEN Span(row("kv_transform_start"), row("kv_transform_end"))
                     ELSE None
        moved == IF duration # None /\ start.bytes # None /\ start.bytes = end.bytes
                   THEN start.bytes ELSE None
        bandwidth == IF moved # None /\ duration # 0 THEN moved ELSE None
        share == IF duration = None \/ e2e = None \/ e2e = 0 THEN None
                 ELSE IF duration > e2e THEN None ELSE duration
        metric(name, value) == Metric(result, name, None, value, {start, end})
        ratio(name, value, over) ==
            [metric(name, value) EXCEPT !.over = IF value = None THEN 1 ELSE over]
    IN  {metric("transfer.bytes", moved), metric("transfer.duration", duration),
         ratio("transfer.effective_bandwidth", bandwidth, duration),
         ratio("transfer.e2e_share", share, e2e),
         Metric(result, "transfer.transform_duration", None, transform,
                {row("kv_transform_start"), row("kv_transform_end")})}

\* The intervals of observability 1.1.0, one per transfer: measured on one
\* clock, zero only where the transfer was seen done on the first poll, and no
\* longer than the request.
ObservedValue(result, start, end, zero, accepted) ==
    LET rows == result.events
        e2e == Span(FirstRow(rows, "request_received"), FirstRow(rows, "response_done"))
        value == IF ~J!HasObservability(rows) \/ ~accepted THEN None
                 ELSE IF zero # None THEN 0
                 ELSE IF start = None \/ end = None THEN None
                 ELSE IF start.clock # end.clock THEN None ELSE Span(start, end)
    IN  IF value # None /\ e2e # None THEN (IF value > e2e THEN None ELSE value) ELSE value

RowById(rows, name, id) ==
    IF id = None \/ id \notin J!Transfers(rows, name) THEN None ELSE J!RowOfTransfer(rows, name, id)

IdsOf(rows, stage) ==
    (J!Transfers(rows, stage \o "_start") \cup J!Transfers(rows, stage \o "_end")) \ {None}
OrNone(ids) == IF ids = {} THEN {None} ELSE ids

ObservabilityMetrics(result, accepted) ==
    LET rows == result.events
        one(ids) == IF Cardinality(ids) = 1 THEN CHOOSE id \in ids : TRUE ELSE None
        done(id) == LET end == RowById(rows, "kv_transfer_end", id)
                    IN  IF end = None THEN None
                        ELSE IF end.observed = "done_on_first_poll" THEN end ELSE None
        sample(stage, id, zero) ==
            LET start == RowById(rows, stage \o "_start", id)
                end == RowById(rows, stage \o "_end", id)
            IN  Metric(result, "observed." \o stage, id,
                       ObservedValue(result, start, end, zero, accepted),
                       IF zero # None THEN {zero} ELSE {start, end})
        setups == IdsOf(rows, "kv_transfer_setup")
    IN  {sample(stage, one(IdsOf(rows, stage)), None) :
            stage \in {"kv_handoff", "decode_schedule_wait", "kv_device_sync"}}
        \cup {sample("kv_transfer_setup", id, None) : id \in OrNone(setups)}
        \cup {sample("kv_transfer_wait", id, done(id)) :
                id \in OrNone(setups \cup IdsOf(rows, "kv_transfer_wait"))}

JoinedResults(results) == {r \in results : r.status \in {"joined", "partial"}}

HybridMetrics(results, accepted) ==
    UNION {{PhaseMetric(r, stage, accepted) : stage \in PhaseStages \cup {"e2e"}}
           \cup TransferMetrics(r, accepted) \cup ObservabilityMetrics(r, accepted) :
             r \in {r \in JoinedResults(results) : r.request # None}}

------------------------------------------------------------------------------
(* The verdict on the merge *)

AlignmentAccepted == available /\ estimate.uncertainty <= MaxUncertainty

AnySource(value) == gpu.status = value \/ npu.status = value

ClassifyHybridStatus(results, usable, errors) ==
    IF errors \/ ~usable \/ AnySource("failed") THEN "failed"
    ELSE IF \/ JoinedResults(results) = {}
            \/ AnySource("partial")
            \/ estimate.uncertainty > MaxUncertainty
            \/ \E r \in results : r.status # "joined"
            \/ \E r \in results : \E issue \in r.ordering : issue.definite
         THEN "partial" ELSE "succeeded"

\* The last check before the records are written.
HybridRecordsOnClock ==   \* mutant: repeated identifiers are let pass
    \A e \in aligned : e.clock = Canonical
HybridRecordsValid ==
    \A e, f \in aligned : /\ e.clock = Canonical
                          /\ e.at # f.at => e.id # f.id

------------------------------------------------------------------------------
(* The steps of merge() *)

Init ==
    /\ scenario \in Scenarios
    /\ phase = "load"
    /\ outcomes = <<>>
    /\ estimate = C!SameClock /\ available = FALSE
    /\ aligned = {} /\ joins = {} /\ derived = {}
    /\ status = None
    /\ files = {} /\ summary = None

\* RunPaths.create refuses a root in which an earlier merge left anything.
Create == files = {} /\ files' = {"directories"}

LoadFails ==
    /\ phase = "load" /\ ~SourcesMerge
    /\ files = {} /\ files' = {"directories", "summary"}
    /\ summary' = "failed" /\ status' = "failed"
    /\ phase' = "returned"
    /\ UNCHANGED <<scenario, outcomes, estimate, available, aligned, joins, derived>>

RefuseRealSources ==
    /\ phase = "load" /\ SourcesMerge
    /\ ~AllowNonFake /\ ~(gpu.fake /\ npu.fake)
    /\ status' = "failed" /\ phase' = "returned"
    /\ UNCHANGED <<scenario, outcomes, estimate, available, aligned, joins, derived, files, summary>>

StartEstimate ==
    /\ phase = "load" /\ SourcesMerge
    /\ AllowNonFake \/ (gpu.fake /\ npu.fake)
    /\ Create
    /\ IF scenario.method = "same_clock_domain"
         THEN phase' = "align" /\ available' = SameClockUsable
         ELSE phase' = "probe" /\ UNCHANGED available
    /\ UNCHANGED <<scenario, outcomes, estimate, aligned, joins, derived, status, summary>>

CreateRefuses ==
    /\ phase = "load" /\ files # {}
    /\ SourcesMerge => AllowNonFake \/ (gpu.fake /\ npu.fake)
    /\ phase' = "raised"
    /\ UNCHANGED <<scenario, outcomes, estimate, available, aligned, joins, derived, status,
                   files, summary>>

Probe ==
    /\ phase = "probe" /\ Len(outcomes) < ProbeCount
    /\ \E outcome \in ProbeOutcomes(scenario.ahead) :
          /\ outcome # Refused => C!SampleAccepted(outcome)
          /\ outcomes' = Append(outcomes, outcome)
    /\ UNCHANGED <<scenario, phase, estimate, available, aligned, joins, derived, status,
                   files, summary>>

\* The samples are of no use once the estimate is made.
Estimate ==
    /\ phase = "probe" /\ Len(outcomes) = ProbeCount
    /\ LET found == C!ProbeClock(outcomes, MinimumSamples)
       IN  /\ available' = (found # Refused)
           /\ estimate' = IF found = Refused THEN C!SameClock ELSE found
    /\ outcomes' = <<>>
    /\ phase' = "align"
    /\ UNCHANGED <<scenario, aligned, joins, derived, status, files, summary>>

\* A record stream of one source; the place of a record tells two records with
\* one id apart.
Placed(role, records) == {[record |-> records[i], at |-> <<role, i>>] : i \in DOMAIN records}
WithPlace(role, records) ==
    {[id |-> p.record.id, clock |-> p.record.clock, ts |-> p.record.ts, at |-> p.at] :
        p \in Placed(role, records)}

Join(results, usable) ==
    /\ joins' = results
    /\ derived' = HybridMetrics(results, AlignmentAccepted)
    /\ status' = ClassifyHybridStatus(results, usable, ~usable)
    /\ available' = usable

\* The streams of both roles, each aligned or Refused.
AlignStreams(gpuEvents, npuEvents, metrics) ==
    LET eventsOK == gpuEvents # Refused /\ npuEvents # Refused
        ok == eventsOK /\ Refused \notin metrics
    IN  /\ aligned' = IF eventsOK THEN WithPlace("gpu", gpuEvents) \cup WithPlace("npu", npuEvents)
                      ELSE {}
        /\ Join(IF ok THEN J!JoinRequests(gpuEvents, npuEvents) ELSE {}, available /\ ok)

AlignAndJoin ==
    /\ phase = "align" /\ phase' = "describe"
    /\ LET npuWay == NpuTransforms(estimate, available)
       IN  AlignStreams(C!AlignEventStream(gpu.events, "gpu", GpuTransforms),
                        C!AlignEventStream(npu.events, "npu", npuWay),
                        {C!AlignMetricStream(gpu.metrics, "gpu", GpuTransforms),
                         C!AlignMetricStream(npu.metrics, "npu", npuWay)})
    /\ UNCHANGED <<scenario, outcomes, estimate, files, summary>>

\* The source descriptors, the alignment and the summary are written before
\* the records are validated.
WriteDescriptions ==
    \/ /\ phase = "describe" /\ phase' = "align_file"
       /\ files' = files \cup {"sources"} /\ UNCHANGED summary
    \/ /\ phase = "align_file" /\ phase' = "summarise"
       /\ files' = files \cup {"alignment"} /\ UNCHANGED summary
    \/ /\ phase = "summarise" /\ phase' = "validate"
       /\ files' = files \cup {"summary"} /\ summary' = status

Describe ==
    /\ WriteDescriptions
    /\ UNCHANGED <<scenario, outcomes, estimate, available, aligned, joins, derived, status>>

Validate ==
    /\ phase = "validate"
    /\ phase' = IF HybridRecordsValid THEN "write" ELSE "raised"
    /\ UNCHANGED <<scenario, outcomes, estimate, available, aligned, joins, derived, status,
                   files, summary>>

RecordFiles == <<"clock_domains", "sync_points", "transforms", "events", "metrics", "artifacts">>

WriteRecords ==
    /\ phase = "write"
    /\ \E i \in DOMAIN RecordFiles :
          /\ RecordFiles[i] \notin files
          /\ \A j \in DOMAIN RecordFiles : j < i => RecordFiles[j] \in files
          /\ files' = files \cup {RecordFiles[i]}
    /\ UNCHANGED <<scenario, phase, outcomes, estimate, available, aligned, joins, derived,
                   status, summary>>

WriteManifest ==
    /\ phase = "write" /\ RangeOf(RecordFiles) \subseteq files
    /\ files' = files \cup {"manifest"}
    /\ phase' = "returned"
    /\ UNCHANGED <<scenario, outcomes, estimate, available, aligned, joins, derived, status, summary>>

\* The process ends; a later merge of the same run starts over on what is there.
Running == phase \notin {"returned", "raised"}
CrashAndRerun ==
    /\ Running /\ phase # "load"
    /\ phase' = "load"
    /\ outcomes' = <<>> /\ estimate' = C!SameClock /\ available' = FALSE
    /\ aligned' = {} /\ joins' = {} /\ derived' = {} /\ status' = None
    /\ UNCHANGED <<scenario, files, summary>>

Next ==
    \/ LoadFails \/ RefuseRealSources \/ StartEstimate \/ CreateRefuses \/ Probe \/ Estimate
    \/ AlignAndJoin \/ Describe \/ Validate \/ WriteRecords \/ WriteManifest \/ CrashAndRerun

Spec == Init /\ [][Next]_vars

------------------------------------------------------------------------------
(* Properties.  scenario.ahead is how far the NPU clock really is ahead, so   *)
(* the true time of a record is known here, as it is not to the program.      *)

TypeOK ==
    /\ phase \in {"load", "probe", "align", "describe", "align_file", "summarise",
                  "validate", "write", "returned", "raised"}
    /\ Len(outcomes) <= ProbeCount
    /\ available \in BOOLEAN
    /\ status \in {None, "failed", "partial", "succeeded"}
    /\ summary \in {None, "failed", "partial", "succeeded"}

TrueTime(event) ==
    IF event.id[1] = "npu" THEN event.ts + estimate.offset - scenario.ahead ELSE event.ts

\* A definite violation is one: markers that happened in the contract's order
\* are at most called uncertain, whatever the delays of the probes were
\* (join.py:144).
DefiniteIsTrue ==
    \A r \in joins : \A issue \in r.ordering :
        issue.definite =>
            \E before, after \in RangeOf(r.events) :
                /\ issue.before = before.id /\ issue.after = after.id
                /\ TrueTime(before) >= TrueTime(after)

\* A derived duration across the two clocks is off by no more than the
\* recorded uncertainty, and by one for the rounding of the halved sum
\* (bundle.py:565).
Rounding == 1
DurationsAreHonest ==
    \A m \in {m \in derived : /\ Cardinality(m.sources) = 2 /\ m.over = 1
                               /\ m.name \notin {"transfer.bytes", "transfer.effective_bandwidth"}} :
        \E start, end \in m.sources :
            /\ end.ts - start.ts = m.value
            /\ C!Abs((TrueTime(end) - TrueTime(start)) - m.value) <= estimate.uncertainty + Rounding

\* No group of one source is joined to two of the other, and none is left out
\* of the results (join.py:623).
JoinsArePairs ==
    joins # {} =>
        \A side \in {"gpu", "npu"} :
            LET source == IF side = "gpu" THEN gpu ELSE npu
                of(r) == IF side = "gpu" THEN r.gpu ELSE r.npu
                keys == UNION {of(r) : r \in joins}
            IN  /\ \A key \in keys :
                      Cardinality({r \in joins : key \in of(r) /\ r.confidence > 0}) <= 1
                /\ \A e \in RangeOf(source.events) : e.request # None =>
                      <<"request", e.request>> \in keys

\* A merge that succeeded joined every event of both sources, neither known to
\* have failed and none of a marker file with a torn line, and the markers of
\* each request really happened in the contract's order up to the accepted
\* uncertainty (validation.py:198, runtime_markers.py:440).
SuccessIsTrue ==
    status = "succeeded" =>
        /\ ~scenario.torn
        /\ {gpu.status, npu.status} \cap {"failed", "partial"} = {}
        /\ \A e \in aligned : \E r \in joins :
              r.status = "joined" /\ \E f \in RangeOf(r.events) : f.id = e.id
        /\ \A r \in joins, name \in J!MarkerNames : J!Places(r.events, name) # {}
        /\ \A r \in joins : \A k \in 1..Len(J!MARKER_ORDER) - 1 :
              TrueTime(J!Representative(r.events, J!MARKER_ORDER[k]))
                - TrueTime(J!Representative(r.events, J!MARKER_ORDER[k + 1]))
                  <= MaxUncertainty + Rounding

\* The transform on record, read backwards, leads from a written event to the
\* event of the source it was made from.
TracedBack(e) ==
    LET role == e.at[1]
        original == (IF role = "gpu" THEN gpu ELSE npu).events[e.at[2]]
    IN  \E t \in ClockTransforms :
            /\ {t.source, t.target} \subseteq ClockDomains
            /\ t.source = <<role, original.clock>> /\ t.target = <<"canonical", e.clock>>
            /\ e.ts - t.offset = original.ts

\* A manifest on disk speaks for a whole bundle: every file is there, its
\* events are on the canonical clock with identifiers of their own, the clock
\* records say how they got there, and the summary says what the merge found
\* (bundle.py:295).
ManifestIsBacked ==
    "manifest" \in files =>
        /\ RangeOf(RecordFiles) \cup {"sources", "alignment", "summary"} \subseteq files
        /\ Running => phase = "load"
        /\ phase = "returned" => summary = status
        /\ \A e, f \in aligned : e.clock = Canonical /\ (e.at # f.at => e.id # f.id)
        /\ \A e \in aligned : TracedBack(e)
=============================================================================
