# TLA+ models of the heterogeneous vLLM profiler

This directory holds TLA+ specifications of `perfetto_hetero_profiler` and of the
evaluation tools beside it, the TLC configurations that check them on small
instances, and TLAPS proofs of what matters most. Paths below are relative to the
repository; `php/` stands for `src/perfetto_hetero_profiler/`.

## 1. The system

The profiler measures one LLM service that runs its prefill on GPUs and its decode
on NPUs. It starts the servers, drives requests through a proxy that performs the
two phases, samples the devices meanwhile, writes what it saw as JSON lines, aligns
and joins it, and publishes a bundle, a Perfetto trace and an HTML report. The
evaluation tools repeat such runs on a schedule and compare them. Everything is
files: a component reads the finished output of another, checks its identity
before and after, and publishes a directory of its own that must not exist yet.

| component | code | state | operations | what is hard | what makes it correct |
|---|---|---|---|---|---|
| Managed child process | `php/collectors/process.py` | the child, its process group, the output files | start, wait, stop, stop_leader_first | exits and forks between any two system calls, recycled ids | nothing of the group survives a stop, only the own group is signalled, the call returns |
| Telemetry | `php/collectors/telemetry.py`, `_Telemetry` in `php/hybrid/runner.py` | per device a thread with pending, active and completed tickets; boundaries; errors | request, wait, stop, the polling loop, close | a request during a poll, a poll that fails or hangs, stop against a running poll | a requested boundary is answered by the next poll, once; the final sample is the last |
| Collector lifecycle, monitored runs | `php/collectors/{base,run,monitor,command}.py` | CREATED .. FAILED, run manifest | prepare, start, sample, stop, finalize, run | a failure in each hook, stops in reverse order, a run that dies | prepared collectors are stopped, the status says what happened |
| Device adapters | `php/collectors/{gpu,npu}`, `system.py` | handles, previous timestamps | query, parse | partial and malformed answers | unavailable is never zero |
| Hybrid run | `php/hybrid/runner.py`, `runner_config.py` | owned servers, profilers, telemetry, errors, results on disk | preflight, start servers, warm up, measure, profile, drain, shut down, close out | every step may fail and everything owned must still be stopped; three results are written at different times | nothing owned outlives a run; a success has every part |
| Hybrid proxy | `php/hybrid/proxy.py` | handler threads, marker file | POST completions: prefill, then decode | concurrent handlers, a phase that fails after the markers began | markers of a request are complete and ordered, or end in an error |
| Runtime markers, join | `php/hybrid/{runtime_markers,join}.py` | marker streams | parse, order, pair, join by id | late, duplicated, torn and foreign markers | one GPU and one NPU group per joined request; a definite violation is one |
| Clock alignment | `php/hybrid/{clock_sync,alignment}.py` | offsets, uncertainties | measure, align | drift, asymmetric delays | `canonical = source + offset`, order only beyond the uncertainty |
| Hybrid bundle | `php/hybrid/{bundle,layout,validation,config,detailed_profile}.py` | the bundle directory, filled file by file, the manifest last | load and check the sources, estimate, align, join, derive, write | sources that are incomplete or of different runs, a death between two files, an existing target | a manifest is there only with all it speaks of; a success is true; a bundle is never overwritten |
| Servers and collections | `php/gpu`, `php/npu` | server process, readiness, collected observations | start, wait ready, run the workload, stop | readiness timeout, a server that dies | every request has one observation; the server is stopped |
| Timeline | `php/perfetto` | plan of tracks and lanes, packets, native details, staging directory | load, plan, attach native captures, focus on a request, write, validate, publish | overlapping intervals, repeated instants, windows, correlation ids of several processes, uncertain clocks | slices nest, no record is lost or shown twice, what is written reads back as planned, publication after validation |
| Overview | `php/overview` | KPI records, report bundle | load, calculate, render, publish | missing measurements, failed requests | a number is shown only when it was measured |
| Schema, support | `php/schema`, `php/support` | inventories and manifests of published directories, files being published | inventory, validate, publish, close out | two publishers, a crash in between, files that change under a publisher | a published directory is complete, belongs to one publisher and is never replaced; all products of a run speak of one run |
| Command line, metadata | `php/cli.py`, `php/commands`, `runtime_metadata.py` | none | parse, dispatch | - | - |
| Experiment | `tools/evaluation/{experiment,checkpoint,paths,environment,failure}.py` | `checkpoint.json`, attempt directories, closing files | new, resume, attempt, retry, validate, report | death at any step, resume after resume, a retry budget | the history stays sound, an experiment can always be resumed |
| All-mode overhead campaign | `tools/evaluation/all_mode_overhead.py` | campaign root: design, checkpoint, block directories, failures, products, report, manifest | run, resume, recover a postprocessing, report | death at any step of any invocation, a model or cache that changes meanwhile | no block is measured twice or lost, a success is whole, report and manifest are current |
| Waves, formal campaign | `tools/evaluation/{concurrent_wave,formal_campaign,formal_client,formal_metadata}.py` | barriers; blocks and sentinels on disk | wave, run, resume | a thread that does not reach the barrier, death between a block and its sentinel | a wave starts together, a block counts once |
| Schedule and statistics | `tools/evaluation/{schedule,statistics,accuracy}.py` | none | pure functions | boundaries, empty inputs | balanced schedules, defined results |
| Reports and comparison | the other files of `tools/evaluation` | none | render, validate shapes | - | - |

How they interact: the hybrid run owns managed processes, a telemetry coordinator
and a proxy thread of control in other processes; its sources go through the merge
into a bundle, the bundle into the timeline and the overview. The monitored runs
own a managed process and two collectors. The experiment calls the whole chain as
one attempt and keeps only its outcome; the overhead campaign calls it once per
block and keeps what it left on disk.

## 2. What is modelled, and how it corresponds to the code

Each module starts with the code it stands for, and `PROJECT.json` maps every
definition of weight to its lines; a helper of a line or two that it leaves out
falls under the lines of the definition that uses it. Three kinds of module: state machines of concurrent or
crashing programs, with a step per system call, write or lock; pipelines, whose
steps are the calls of the code and whose data are small runs; and modules of
operators that the pipelines call (no variables).

### Processes, threads and runs

| module | code | state and actions |
|---|---|---|
| `ManagedProcess` | `php/collectors/process.py` | `step` is the caller's step, every system call a step of its own (`poll`, `killpg`, `wait`, the probes of `_finish_remaining_group`); `leader`, `kids`, `foreign` are the operating system, which moves in between: the leader or a descendant exits, a descendant forks, the kernel recycles the group id. `report` is the `terminated`/`killed` pair of the result. |
| `Telemetry` | `php/collectors/telemetry.py`, `_Telemetry` of `php/hybrid/runner.py` | per worker the fields of `TelemetryWorker` (`pending`, `active`, `completed`, `generation`, `failed`, `complete`); the coordinator thread (`phase`, `turn`, `role`) requests, waits, stops, joins; the polling threads begin, query, publish, exit. Publishing under the condition variable is one step, the device query outside of the lock is not. |
| `HybridRun` | `php/hybrid/runner.py` | `HybridRunner.run` step by step: the body of the `try`, the `finally` block, what follows bare, the postprocessing with an `except` of its own. The servers, the strangers on their ports and their logs, markers and cache are the `world`, and move by themselves. `Fault` raises at any step, and where the exception goes depends on the region of the step (`Body`, `Finally`, `Bare`, `Postprocess`), as in the code. |
| `MonitorRun` | `php/collectors/{base,run,monitor}.py`, `php/schema/manifests.py` | the lifecycle of each collector (`state`, `_stop_completed`), the loop of `run_monitored_process`, the ExitStack (`cleanup`, `at` counts down) and the two manifests of `MonitorRunCollector.run`. Every hook may raise. |
| `Proxy` | `php/hybrid/proxy.py`, the client of `php/gpu/openai_client.py` | `point` is the step of the handler thread of each request; `lock`, `sequence` and `file` are the `MarkerWriter` that the handlers share, `number` the one a handler holds between drawing it and writing its line. Prefill and decode servers are what each knows of a request; either phase may be refused, fail or outlast the timeout. `client` reads until `[DONE]`. |
| `Wave` | `tools/evaluation/concurrent_wave.py`, `_wait_runtime_marker_completion` (EXTENDS `Proxy`) | a thread per request, the barrier (`gate`: closed, open, broken), and the `runner`, who judges the wave and then drains the completion markers. |

### From the sources to a bundle

| module | code | what it holds |
|---|---|---|
| `RuntimeMarkers` | `php/hybrid/runtime_markers.py` | operators: which rows of a marker file are accepted, their order, the events made of them; one torn line refuses the file. |
| `MarkerJoin` | `php/hybrid/join.py` | operators: the order contract of one request's markers, definite and uncertain violations, repeated and missing markers, the pairing of GPU and NPU groups. |
| `ClockSync` | `php/hybrid/{clock_sync,alignment}.py` | operators: probe samples, the estimate with its floor divisions, the alignment of a record stream. |
| `HybridMerge` | `php/hybrid/{bundle,validation}.py`, the metadata contract of `php/runtime_metadata.py` | the state machine of `HybridBundleMerger.merge`: load, probe (each probe succeeds with any delays or fails), estimate, align and join, describe, validate, write each record file, manifest last, with a crash after any step. |

### Publication

| module | code | what it holds |
|---|---|---|
| `DetachedManifest` | `php/perfetto/artifacts.py`, `php/schema/artifact_integrity.py` | operators: inventory, manifest, validation and the stored report about it. |
| `PublishedOnce` | what `php/support/publication.py` promises | the abstract specification: an output appears whole, in one step, of one writer, and stays. |
| `Publication` | `create_detached_recovery`, the outer part of `convert_perfetto`, `generate_overview`, `publish_bundle` | four publishers over one set of directories: read, look at the closeout and the trace, make a staging directory, write, inventory, validate, verify, look at the inputs again, rename without replacement, verify in place, clean up. Any of them may fail, die, be started early or be run again; files may be edited meanwhile. |

`Publication` implements `PublishedOnce` with `published` the writers of the files
of each output directory; `Rename` is the one step that is a `Publish`.

### The timeline

| module | code | what it holds |
|---|---|---|
| `TraceModel` | `php/perfetto/model.py` | tracks, slices, counters, flows, plans. |
| `TracePairs` | the first half of `php/perfetto/planner.py` | start and end markers to slices, lanes of slices that overlap, flows of one correlation. |
| `TracePlanner` | the rest of `planner.py` | tracks and their order, tokens, instants, counters, gaps, windows. |
| `TraceWriter` | `php/perfetto/writer.py` | what the writer refuses, its packet order, and, external, the trace processor that reads the packets back with a stack per track. |
| `TraceContract` | `php/perfetto/validation.py` | a trace against its plan. |
| `FocusedTrace` | `request_focused_plan` | what is cut, and which tracks and flows remain. |
| `NativeDetails` | `php/perfetto/native_{details,kineto,nsys}.py` | the clock bridge of a capture, its rows on the canonical clock, its flows. |
| `NativeRbln` | `php/perfetto/native_rbln.py` | the NPU profiler's own trace and shards. |
| `LoadedRun` | `php/perfetto/loader.py` | all checks of a merged run read back from disk. |
| `TimelineEvidence` | `php/perfetto/{timeline_summary,trace_attributes}.py` | the client's interval and tokens, the report's values, the attributes. |
| `Timeline` | `php/perfetto/converter.py` | the pipeline: load, plan, native details, write, validate, focus, validate, separate trace, publish. |

### The overview

| module | code | what it holds |
|---|---|---|
| `OverviewKpi` | `php/overview/calculation/kpi_records.py` | one KPI: value or reason, clock, evidence. |
| `OverviewLatency`, `OverviewThroughput` | `php/overview/calculation/{latency,throughput_transfer}.py` | the KPI families. |
| `OverviewResources` | `php/overview/resources.py` | summaries of sampled resources over the capture and each stage. |
| `OverviewReport` | `php/overview/{report,validation,loader}.py` | the report, the matching trace, the reconciliation. |
| `Overview` | `php/overview/generator.py` | the pipeline from a loaded run to a validated or refused report. |

### The evaluation

| module | code | state and actions |
|---|---|---|
| `Checkpoint` | `tools/evaluation/checkpoint.py` | operators: the record, `Terminal`, `SoundHistory` (what `__post_init__` demands), `MayReplace` (what `CheckpointStore.update` demands) and the update `with_attempt`. |
| `AttemptHistory` | what `checkpoint.py` and `experiment.py` promise together (EXTENDS `Checkpoint`) | the abstract specification: a log of attempts, `Begin` one or `End` the last. No runner, no crash. |
| `Experiment` | `tools/evaluation/experiment.py` (EXTENDS `Checkpoint`) | the files survive a crash: the checkpoint, the attempt directories, trial files, closing files, temporary files; the runner's locals do not. Every write is a step, `Crash` may strike at each step of `CrashSteps`, and `Resume` is what the operator does next. |
| `OverheadCampaign` | `tools/evaluation/all_mode_overhead.py` | the files of a campaign (`setup`, `ckpt`, `block`, `root`), the invocation under way, the model and cache it measures (`world`). Each exclusive evidence file of a block, each checkpoint, each derived product is a step; `Dies` may end any invocation, `WorldChanges` may move model or cache. |

`Experiment` implements `AttemptHistory` with `history <- ckpt` (`HistoryIsKept`):
`RecordRunning` is a `Begin`, `Finalize` and a `Resume` that finds an unfinished
attempt are an `End`, every other step, deaths included, leaves the log alone.

### How they compose

`HybridRun` contains a stop of a server (`StopOutcome`) and a telemetry boundary
(`Baseline`, `FinalBoundary`) as single steps, with all the outcomes that
`ManagedProcess` and `Telemetry` show to be possible: the `"missed"` outcome of a
stop (descendants survive) is the one that `OnlyMissedKillLeavesSurvivors` leaves.
`MonitorRun` takes the stop of its child as one step in the same way. `Experiment`
takes a hybrid run as one attempt with the outcomes of `AllOutcomes`; a block of
`OverheadCampaign` is one too. `Wave` is composed with `Proxy` itself: its threads
take the client's `Ask`, and `WaveImplementsProxy` says that it sees no other
behaviour of it. `HybridMerge` reads marker files through `RuntimeMarkers` and
joins with `MarkerJoin`; `Timeline` starts from a loaded run of the same shape, and
`Overview` plans that run anew with `TracePairs` to reconcile its report.
`Publication` is the outside of `Timeline` and `Overview`: what they write is one
step there, and when it may be written is what it is about.

Data is abstracted to what the properties tell apart. A telemetry answer is
records, nothing or an error; a marker file is a sequence of rows or of torn lines
where their content matters and a count where it does not; a digest is the content;
an error list is the set of kinds of messages in it. In the programs with threads
times are left out: a timeout is a step that is enabled while the awaited thing has
not happened. In the merge, the timeline and the overview times are small integers,
and values of the overview exact fractions where the code has floats.

`<Module>_proofs` holds the proofs (`Processes_proofs` those of `MonitorRun`,
`ManagedProcess`, `Proxy` and `Wave`), `MC<Module>` the inputs and constants of the
TLC runs. Definitions that a comment calls a mutant are not used by the
specification. Each is a plausible bug in the definition that follows it;
substituted for it, it makes TLC report the property paired with it in
`PROJECT.json`. They show that the property depends on the code.

## 3. The runs

| run | instance | what it asks | distinct states |
|---|---|---|---|
| `process` | 2 descendants, 3 calls, timeout, recycled group ids | what a returned call guarantees, where signals go, that it returns | 578 |
| `process_survivors` | 2 descendants, 1 call | *violated*: "the owned descendants are finished before returning" | - |
| `telemetry` | 2 devices, 2 background polls each | boundaries are answered by the next poll, once; nothing hangs | 673 thousand |
| `merge` | 1,408 scenarios: markers dropped, repeated, late, renumbered, torn, shared, clocks apart; 3 probes, 2 needed, delays 0, 1, 4; a crash anywhere | what is called a violation, a duration, a join, a success, a bundle | 62 thousand |
| `experiment` | 3 trials (2 pilots), 4 attempts, 2 crashes at any step, 1 damaged artifact | directories agree with records, `AttemptHistory` as a property | 116 thousand |
| `hybrid_run` | profiled, telemetry, 1 warmup and 1 request, 1 mishap, 2 interrupts, a fault at every step | what survives, whether results tell the truth and agree, that the run ends | 1.5 million |
| `monitor_run` | 2 collectors, 2 interrupts, timeout | release, status, the child; the deadline ends the run | 18 thousand |
| `wave` | 2 concurrent requests, 1 marker that cannot be written, a proxy that may die | barrier, drain, and that everything ends | 54 thousand |
| `publication` | a closeout, 2 rival converters, a report; 2 attempts each, 2 faults | published once, one run throughout, nothing left behind, the pipeline completes | 72 thousand |
| `timeline` | runs of 1 and 2 requests with captures of three profilers, with and without native details and focus | what is written reads back as planned, every record once, native rows of one process | 1106 |
| `overview` | 97 runs with gaps, missing markers, unusable rows, shifted clocks | means stand on all they cover, reports reconcile | 942 |
| `overhead_campaign` | 2 rounds, reference and 1 candidate, 2 deaths, 1 fault, 1 change of model or cache | blocks accounted for, success whole, report current | 2.2 million |

Why these bounds are enough to be interesting. Two descendants let one exit while
another forks; three calls let a call meet what the ones before it left. Two
devices make one worker's boundary wait for another's; two background polls put one
before and one during a boundary request. Three probes with one refused leave the
two that an estimate needs, and a third for the median; delays of 0, 1 and 4 make
asymmetries whose halves round. Three trials with four attempts are two pilots and
a formal trial with exactly one retry to spare, so the budget and the pilot gate
both bite; two crashes let the resume after a crash crash again. In the hybrid run
a mishap lets a server die under a run that suffers from another fault; two
interrupts let the second strike in the cleanup the first has caused. Two
collectors are what every monitored run of the code has. Two requests are two
handlers at one lock and two threads at one barrier; one failed write lets either
of them leave a gap in the numbers. Two rivals for one output are what
no-replacement is about; two faults put an edit and a restart into one behaviour.
The campaign's two rounds make a first run of a candidate that is shown and a
second that is not; two deaths hit an invocation and the one that picks it up, and
with the fault a recovery that itself dies.

The state machines `Timeline` and `Overview` are sequential: their state counts are
the inputs times the steps, and the weight is in the inputs. `MCTimeline` and
`MCOverview` list them by what they vary: overlapping and nested stages, markers at
one instant, zero durations, uncertain clocks, tokens measured and marked,
correlations shared by processes, captures that start before or end after the
client's interval, samples whose intervals gap, break or meet a stage at one end.

Some properties are defined or proved and not in a run, because what a run checks
implies them or comes close: `FormalsAfterPilots`, `RetriesAreRetryable`,
`OneAttemptAtATime` and `HistoryGrows` follow from `HistoryIsKept`, whose abstract
log cannot do otherwise; `OneTicket` and `BoundariesBracketRun` of `Telemetry`,
`MarkersArePrefix`, `WorkIsBracketed` and `NoneInFlight` of `Proxy` and `Wave` are
parts of, or lemmas for, what the runs check there; the type invariants are proved.

A bound is in a guard and named in the constants: `MaxCalls`, `MaxPolls`,
`MaxCrashes`, `MaxCorruptions`, `MaxMishaps`, `MaxInterrupts`, `MaxFaults`,
`MaxAttempts`, `MaxDeaths`, `MaxChanges`. `CHECK_DEADLOCK FALSE` is set because
every one of these programs stops.

### What the violation shows

`process_survivors`: when the leader exits after the grace period has expired and
before SIGKILL is sent, `_wait_out_grace` returns without finishing the group,
although its docstring says that it does. Descendants that ignored SIGTERM go on.

### What else the models show

These need no run of their own; where one is a hazard, `PROJECT.json` has it.

- `ManagedProcess`: with recycled ids, the id of an emptied group may be signalled
  after the leader was reaped (outside of it `VerifiedSignalsStayHome` holds);
  `term_already_sent=True` is passed although the leader may have exited before
  SIGTERM, so that descendants get SIGKILL first.
- `Experiment`: a death between `mkdir` of an attempt and its record stops every
  later resume with `FileExistsError`; the servers of a killed attempt make the
  resumed one fail as not idle, which is not retryable; the temporary file of an
  interrupted atomic write (`experiment.py:663`) is not excluded from the artifact
  manifest, and every later resume rejects it. This is why no liveness is claimed
  of the experiment.
- `HybridRun`: an exception in the cleanup and the writes between the two `try`
  statements (`runner.py:756-764`) leaves no `final_result.json`, where
  `docs/usage.md:236-238` sends the reader for it. In a profiled run, late
  markers skip `/stop_profile`, the profile metadata then raises
  (`runner.py:1088`), and no evidence of the requests is written, although a
  comment at line 1286 says that it must survive a marker failure.
- `HybridMerge`: the transfer metric (`bundle.py:550`) takes the first start and the
  first end of each name, which may be of different transfers when a request has
  several; no duration of such a request is claimed to be one transfer's. A repeated
  transfer the merge accepts makes the planner refuse the bundle (ambiguous flow
  endpoint), so that it can never be converted.
- `Timeline`: the planner compares original timestamps of two hosts (`planner.py:325`),
  so a run in order on the canonical clock is refused when the NPU host's own clock
  lags; by `docs/design.md:86` timestamps of different clock domains are compared
  only where there is a transform to justify it. Several
  correlations give a plan without a window, and a focused trace then fails. A pair
  of zero duration is planned and the writer refuses it. Two `phase:*` tracks may
  collide at one rank, which the writer refuses. `WrittenTraceValidates` is about
  traces the writer accepts.
- `Overview`: a KPI counts as aligned when one of its records carries method and
  uncertainty; observability means weigh transfers and not requests; runs of several
  requests have no stage windows; a client latency that names no request counts for
  none when another names one (`calculation/latency.py:136-152`), so the client's mean
  stands on the requests it names; the normalized pipeline metrics are found only
  where request and correlation id are equal.
- `Publication`: records are read before the closeout is looked at. Two readers started
  early and an edit between the manifests of two closeouts let that edit go unseen:
  three faults if there are two closeout publishers, four if there is one, which the
  edit makes fail and which is run again. `OneRunThroughout` holds up to two faults, as
  the run allows and as `OneRunUpToTwoFaults` proves for any number of publishers. TLC
  finds both of the longer ways on larger instances, so two is the exact bound.
- `OverheadCampaign`: a death after `block_result` and before the checkpoint leaves
  a failed block without `failure.json`, which can be neither repeated nor
  recovered; a recovery that dies among its exclusive evidence files
  (`all_mode_overhead.py:1688`) cannot be repeated; a resume after partial products
  stays `postprocess_failed`; a resumed success may be reported complete under the
  status `postprocess_failed`; a second, different failure of the postprocessing
  raises and leaves the status `collection_succeeded`.

### Fairness

- `ManagedProcess`: weak fairness of the calling thread only. Nothing is assumed of
  the leader or its descendants: they may ignore SIGTERM and fork. Each wait is
  bounded by its timeout, which is a step of the caller; `kill` removes all that
  live, as SIGKILL does.
- `Telemetry`: weak fairness of the coordinator, whose waits have timeouts, and of
  the steps of a polling thread that depend on the interpreter alone. The return of
  a device query has none; `ThreadsEnd` assumes it as its hypothesis.
- `HybridRun`: weak fairness of the run. Readiness, marker and request waits have
  timeouts in the code; the servers promise nothing.
- `MonitorRun`: weak fairness of the run and strong fairness of `Overdue`: rounds of
  samples follow each other and time passes, so one of them finds the deadline
  over. That a sample returns is an assumption: the bound of a device
  query lies in the device adapters.
- `Wave`: weak fairness of each thread, client and handler and of the runner. All
  their waits have timeouts: of the barrier, of the client, of the handler towards
  either server, of the drain. The servers promise nothing, and whether a wait ends
  by an answer or by its timeout is open. That a handler which waits for the lock
  of the marker writer gets on needs no more: each holder writes or fails, and a
  handler takes it seven times at most.
- `Publication`: weak fairness of `InOrder`, somebody whose turn it is starting or
  going on while nothing has gone wrong. No publisher waits for another, so this is
  as much as a scheduler gives; after a fault nothing is assumed or claimed.
- `Experiment`: its specification has weak fairness of the runner and of the operator
  who resumes. No property that is checked rests on it.
- `HybridMerge`, `Timeline`, `Overview`, `OverheadCampaign`: none; only safety is
  claimed of them.

## 4. What is proved

TLAPS proves these for every value of the constants that satisfies the assumption
named in the module (`ProcessAssumption`, `TelemetryAssumption`,
`MonitorRunAssumption`, `HybridRunAssumption`, `ProxyAssumption`,
`CheckpointAssumption`, `ExperimentAssumption`, `PublisherKinds`,
`CampaignHasBlocks`, `InputsAssumption`: finiteness, types, at least one worker, collector or round;
`MergeAssumption` says more and is discussed below). TLC evaluates each of them on
the constants of the runs.

**`Processes_proofs`**, of telemetry (`Telemetry`): `TelemetryTypeCorrect`, `OneTicketHolds`, `NoTicketLostHolds`,
`FinalIsTerminalHolds`, `BoundaryIsNextPollHolds`, `BoundariesBracketRunHolds`,
`LateSampleIsReportedHolds`. The argument: a ticket carries the generation of its
request, and no poll finishes between the request and the poll that answers it
(`TicketsAreFresh`), so the answering poll has the next number (`LogIsNumbered`).
Who is owed a ticket is a function of the coordinator's step (`Owed`), and as long
as no capture has failed nobody else has one (`TicketsAreOwed`); hence a boundary
sample in a log is either held or about to be collected (`SamplesAccounted`), and
the final one comes after the baseline (`BaselineFirst`).

**`Processes_proofs`**, of a monitored run: `TypeCorrect`, `CollectorsAreReleasedHolds`,
`StatusIsTrueHolds`, `ChildIsOwnedHolds`. The properties speak of a run that has
ended; `Inv` follows it there: what each step knows of the child and the manifest
(`Phases`), what a run without errors has seen of its collectors (`Faultless`: as
long as nothing went wrong those passed are running, then sampled, then released),
and how far the ExitStack has got (`Releases`: a collector ahead of it can still be
stopped, one behind it is settled). `NextInv` has one step per action and one under
it per part of `Inv`.

Its second part is about `ManagedProcess`, the child when its calls are taken step by
step: `ProcessTypeCorrect`, `OnlyMissedKillLeavesSurvivorsHolds`,
`KilledImpliesTerminatedHolds`, `VerifiedSignalsStayHomeHolds`. The properties
speak of a call that has returned, so they are not inductive. `ProcessInv` adds what the
caller knows at each step: in which steps the leader is reaped or unreaped
(`LeaderKnown`), that a recycled id implies an empty group with a reaped leader
(`ForeignIsLast`), that the group is empty before the last step unless SIGKILL was
missed (`SurvivorsKnown`), and where a termination has been reported
(`TermReported`). `VerifiedSignalsStayHome` then follows: outside of the finishing
steps a signal is sent while the leader is unreaped, and the id cannot be recycled.

Its third part is about the proxy, `ProxyIsSafe` (`ProxyTypeOK`, `MarkersArePrefix`,
`WorkIsBracketed`, `AnswersAreServed`) and `ProxyLinesAreOrdered`, and about the wave,
`WaveImplementsProxy`, `WaveIsWhole` (`WaveTypeOK`, `WavesAreWhole`) and
`WaveIsDrained` (`NoneInFlight`, `DrainedIsComplete`). `ProxyInv` says at each step
of a handler how many of its lines are in the file (`LinesInv`) and how far either
server is (`PrefillInv`, `DecodeInv`), so that a working server is between its
markers, and that the holder of the lock has the newest number, above the last line
(`LockInv`). One lemma per action preserves it. The wave takes no step that the
proxy does not have (`WaveStepsTheProxy`), so `ProxyInv` carries over; `GateInv`
adds that who has asked passed an open barrier, which opened with all threads at
it, and `RunnerInv` that what the runner saw of clients and files stays so.

**`Experiment_proofs`**: `LogIsSound` (what follows from `AttemptHistory` alone:
`SoundHistory`, only the last attempt unfinished, retries after retryable failures,
pilots first; `Begin` looks at the whole history, so the conjunction is inductive),
`KeepsHistory` (every behaviour of `Experiment` is one of `AttemptHistory`), `OneDirectoryEach`, `TypeCorrect`, `StaysSound`, `PilotsFirst`,
`OnlyRetryables`, `NoOverlap`, `Grows`. The runner does not check, when it records an
attempt, all that the log demands: gate and retry policy were looked at steps
earlier, in memory, and the retry of the loop does not look again. `Control` is what
makes up for it: `mem` is what is on disk from one write to the next, `succ` are the
successes in it (but for one that is about to be entered), and from the check to the
record the trial stays `Admitted`; after a retryable first failure it is admitted
because the log is sound and the pilots came before it. With `Control`,
`BeginsAttempt` and `EndsAttempt` make each write a step of the log (`StepsOfLog`),
and what holds of the log is `LogIsSound`, a theorem about the instance `History`. For the directories, `Directories` says that one without a record is named as
the next attempt would be: that of the first trial without a success, with a number
no record has used, so that no second one can join it.

**`HybridRun_proofs`**: `TypeCorrect`, `NothingSurvives`, `SourcesAreTrue`,
`SuccessIsCleanHolds`, `ResultsAlwaysAgree`, `SealAlwaysHolds`, for any number of
requests, mishaps and interrupts, any set of steps at which an exception may arise and
any outcome a stop may have. What a run says at its end rests on what was true many
steps before, and `Inv` carries it there: which servers may live at each step of the
start (`Launching`, `Unlaunched`: one that is not in `started` lives only behind an
interrupt between its start and the entry in the list) and of the cleanup (`StopInv`:
one that was passed is down, has descendants a SIGKILL missed, or its stop is among the
errors); what a run without an error
has measured (`WorkInv`, `SourceInv`); that what the run found clean in logs and cache
is still so, as nobody lives who could change it (`CleanInv`); which files exist when
no error was recorded (`FileInv`); and that beside a closeout nobody lives but
descendants a SIGKILL missed (`SealInv`). The world moves between any two
steps; `WorldStep` and `NobodyLives` say that a server that is down stays down.

**`HybridMerge_proofs`**: `TypeCorrect`, `DefiniteHolds`, `DurationsHold`, `JoinsHold`,
`SuccessHolds`, `ManifestHolds`, for any sources, any number of events, requests,
identifiers and probes, any delays and any distance of the clocks. Most of it is about
operators. A median, defined by ranks, lies between the least and the greatest of its
values (`MedianIs`), each probe's offset is off by half its round trip at most
(`ProbeIsHonest`), and so the estimate by its uncertainty and one for the rounding
(`ProbesAreHonest`): with an odd round trip that one is needed. An ordering issue of a
verdict compares two rows of the request (`MarkerOrderIs`), and a valid verdict means
all sixteen markers are there and their representatives in order (`ValidIsInOrder`).
The join keeps, from method to method, that a used group is not used again and that
every named request is in a result (`NamedProgress`, `JoinProgress`, `JoinIs`).
Alignment moves the records of a clock all alike (`AlignmentIs`), and a metric with a
duration is the span of two rows (`MetricsAre`). Induction over data is out of reach,
so where it would be needed (a finite set has a greatest element, the rows of a group
can be counted through) the proofs take a least subset without the claimed property
(`WFMin` on the strict subsets of a finite set). `Inv` then says which probes were
taken (`Probed`), that an estimate in use is honest (`Estimated`), what is sound of
what was aligned, joined and derived (`Work`), and which file is on disk at each step
(`Filed`).
`MergeAssumption` is what these theorems rest on: events that were parsed have a time
and an id; the target clock of a probe was read between sending and receiving, so no
delay is negative; two sources that name one monotonic clock of one host mean one
clock; and the sources of a torn marker file say failed. The last is what the writer
of the sources does: `TornMarkersFail` proves it of `WriteSources`.
`SuccessHolds` excludes sources that say failed or partial, as
`classify_hybrid_status` does; one that says planned, running or cancelled gets
through it, in the model as in the code.

**`Publication_proofs`**: `StagingIsOwned`, `OutputsArePublishedOnce` (the refinement
of `PublishedOnce`), `StagingIsRemoved`, `ProductsAgreeHolds`,
`OneRunUpToTwoFaults`. The abstract specification lets an output
appear only whole and of one writer. That a rename is such a step needs that a
staging directory holds, at each step of its owner, what the owner has written
so far and nothing else; that nobody writes under an output's own name; and that
two publishers never share a staging directory, even of one kind. Those are the
parts of `Inv`. The closeout's second report is the one write into a published
directory; it replaces a file by one of the same writer, which the mapping does not
see. There
may be any number of publishers of each kind.

The second half of the module relates what the products say. `ProductsAgreeHolds`
has no bound on the faults: behind a published trace or report there is a closeout,
the trace names it, and the report shows a trace of the events it shows.
`OneRunUpToTwoFaults` adds that those are the events the closeout lists. `OneRun` is
the strengthening: a reader past its look at the closeout has seen events that are
not newer than those listed (`HasRead`), what is staged is what was read
(`HasWritten`), and published files only change by an edit of the trace (`Grows`).
That events are not older is where the bound comes in. As long as no closeout is
there, each reader under way and each edit is a fault of its own (`EarlyIsAFault`), so
when the closeout appears a converter and a report cannot both be behind it
(`NotBothOld`); a report that is behind finds a trace that is not, and is refused.

**`OverheadCampaign_proofs`**: `TypeCorrect`, `BlocksAccountedHolds`,
`SuccessIsWholeHolds`, `ReportIsCurrentHolds`, for any number of rounds, candidates,
deaths and changes. `Inv` is `TypeOK` with six parts: `Control` (what the invocation
holds in memory is the checkpoint on disk, and the block of each step is the current
one), `Files` (the evidence of a block is written in order and says how far its run
has come), `Worlds` (what a block has seen of model and cache was the world when it
was looked at, and the fingerprints only grow), `Success`, `Current` and `Accounted`,
which carry the three properties from step to step. That the model was the same
throughout a campaign rests on `Worlds`: the first and the last look agree and a
fingerprint never comes back, as it holds the times of modification.

**`Timeline_proofs`**: `SlicesReadBack`, `ConversionHolds`, `NativeRowsHold`,
`RecordsHold`, `WrittenSlicesReadBack`, for every input of the types that
`InputsAssumption` names (times are integers, rows and metrics finite). `SlicesReadBack` is about packets alone: what
is open on a track between two packets is the slices around that moment, a stack
because the slices nest (`_validate_nested_slices`), so each end meets its own begin;
that the packets of one instant come in the order the writer sorts them in (ends first,
the longest begin first) is what makes it true where slices touch. `ConversionInv` says
what each step that succeeded leaves behind it, at a failed ending too, and the rest
follows the data through those operators: a row of a native capture to its slice, with
one call per correlation and process (`NativeFlowsKeepTheirProcess`); a slice of the plan to the
focused plan and to the row read back, and a flow with both its ends
(`FocusKeepsTheRequest`); and each event, token and sample to the one place it is shown
at (`EveryRecordIsShown`), with that place counted: a cardinality of one is a witness
and an argument that any two are equal. `WrittenSlicesReadBack` has as a hypothesis that the hash
of a track is an integer.
Both properties were stated anew for this, as TLC found inputs outside of its former
instance that refuted their first forms while the code was right: a client interval of no length
shares time with no native event and is not required to show one; of two requests each
with token markers, and of token markers recorded as a span, the marker is shown as
what it is; a metric of no resource has no counter. Such inputs are now in `MCTimeline`.

**`Overview_proofs`**: `MeansHold`, `ReportsHold` and `StageMeansHold`, from
`NoneAssumption` (`None` is no number and no reason) and `InputsAssumption` (the events of
a run are those of its lines, finitely many, with whole nanoseconds and steps counted from
zero; a number wherever a metric has a value, and the samples of a stream on lines of their
own; as many KPIs in the trace as some natural number). The first part is
about sums: the model adds with the
folds of the community modules, which choose an element at each step, so `FoldExists`
and `FoldUnique` say that such a fold is a function, `SigmaIs` that every order of
adding gives one sum, and `SigmaAdd`, `SigmaMinus` and `SigmaFibers` how to add to it,
subtract and go group by group. Induction over finite sets is by a smallest
counterexample (`SetInduction`), as the library's induction theorems take an operator.
`TotalIs` carries this to fractions over a common denominator. The second part follows a
latency from two markers to the mean: a KPI that is available has one start and one end
(`PairSpan`), or for sampling one of each per step (`SamplingSpan`, with `StepsFound` for
the steps a contiguous numbering has); a mean over requests that is available has all of
them available (`CollectedMean`); hence it is the sum of all end markers less the sum of
all start markers over the number of requests (`PipelineMean`). `MeansInv` says what the
three families of KPIs were computed from, at every stage after. The property was stated
anew for this: the client's metrics without a request, which the code ignores next to
ones that name one, refuted its first form, and are now in `MCOverview`.

The third part is the reconciliation. The plan has one slice for each pair of markers of
a stage, whatever the lanes (`StageItems`, a bijection); as a stage that is not refused
pairs its starts and ends one for one by their keys, its slices last as long as its end
markers less its start markers (`StageTime`), and so do the rows they are counted by
(`RowsOfStage`, group by group over equal rows) and the rows read back from the planned
tracks, one for each lane of a stage (`ReadsBack`). On the other side a KPI could still be missing
or refused where the plan has its slices. That it is not, needs what the marker contract
leaves true of each request (`RequestsAreValid`, `MarkersPresent`): one transfer only
(`OneTransfer`, as the flows of a request allow no second), steps that are counted
from zero without a gap by all four iteration markers (`StepsAgree`), and iterations one
after the other (`IterationsInOrder`), so that sampling is whole (`SamplingIsWhole`) and
on one clock every KPI of every request has its value (`RowWhole`). Both sides then are
the same difference of marker times, for one request as it is and for several over their
number (`PipelineValues`), and the stored counts are those of the plan (`StepsCounted`).
`ReconcileInv` carries to the last check what each step before it did not refuse. For
these proofs the rows of a request keep their places (`Kept`) where the model selected a
subsequence before: the places give the same order, and no induction over the sequence is
needed.

The fourth part is about the sampled resources, and no sequence is taken apart in it: the
model says which element is the k-th by how many are before it, so that `InOrderIs` and
`OrderedIs` follow from counting (`KthExists`), where a sort of the community modules would
need induction over its result. The values that a percentile lies between are places in
that order (`BetweenInOrder`, `PercentileIs`), hence the order statistics are in order
(`StatisticsIs`) and a mean, weighted or not, is between the least and the greatest
(`MeanBetween`, `WeightedBetween`, with positive weights). The property equates two
fractions, one weighted by overlaps and one taken moment by moment. Both are in lowest
terms, as the folded greatest divisor leaves them (`OverLowest`, `LowestDivides`), and such
fractions are the same as soon as they denote the same number (`LowestSame`). That they do
goes over the moments of a window: an interval speaks for as many moments as its overlap
is long (`MomentsCount`), two intervals of an increasing stream share none
(`MomentsApart`), so sums over moments are sums over weighted intervals (`MomentsAddUp`).
The union of the intervals is a walk along its segments, from the end of one to the end of
the next (`WalkExists`, `WalkAddsUp`); here it comes to the sum of their lengths and
nothing overlaps (`CoveredIs`). So the window is covered exactly when each of its moments
is known (`CoveredKnown`, `IntervalKnown`), and then the mean is the mean over them
(`IntervalMean`). `ResourcesInv` says that the summaries are those of the windows found
and that each window is of a stage of its own and, when valid, not empty (`WindowsAre`).

Each `Inv` was an invariant of a TLC run before it was proved.

**Only model-checked.** Liveness (`CallReturns`, `CoordinatorFinishes`, `ThreadsEnd`,
`RunEnds` of both runs, `WaveEnds`, `PipelineCompletes`): fairness and ENABLED are
out of reach of the provers here. `WrittenTraceValidates` of `Timeline`: for slices it
is `WrittenSlicesReadBack`; the rest is true of the inputs of the run and not of every
typed input (an event that has the name of a track's metadata, or two flows of opposite
direction that begin at one instant, make a validation fail, as section 5 says).
No module has RECURSIVE operators, so none is closed to proofs.

## 5. What is not modelled

- Device adapters, command masking, metadata, the command line: parsing and
  formatting. Their answers are nondeterministic inputs of `Telemetry`,
  `MonitorRun` and `HybridMerge`.
- vLLM, the accelerators, the kernel and the model cache: external. They appear as
  actions that may happen whenever the code does not prevent them. The trace
  processor is external too; `TraceWriter` has what the code relies on.
- The servers' own control programs and collections (`php/gpu`, `php/npu`), the
  detailed-profile merge, the formal campaign, schedule and statistics: not reached.
  The first are met through the processes `HybridRun` owns; the campaign has the
  shape of the all-mode campaign, which is modelled.
- Overview rendering, the HTML and its validation, the Perfetto wire format, the
  wording of reports: layout.
- Two runners on one experiment: `CheckpointStore` is a single writer by its
  documentation, and nothing enforces it; see the hazards. Two invocations of one
  campaign neither.
- A timeout of HTTP, which in the code bounds each operation of the socket, is one step
  that may end a whole request in `HybridRun` and `Proxy`: a server that keeps sending a
  little at a time is not modelled.
- How uncertain the clock bridge of a native capture is: an annotation of its tracks,
  read by no check.
- The rows of stages restated by a timeline summary that the reconciliation would set
  aside (`overview/loader.py:760-787`): there are none. It looks for them under the legacy
  mapping only, and the validation queries them under the other only
  (`perfetto/validation.py:127,150`); a legacy trace has to show its plan exactly.
- The trace that `Overview` reconciles is computed from the plan, as
  `load_matching_perfetto` accepts only a trace whose fresh validation agrees with
  it. Two flows of opposite direction that begin at one instant are left out of the
  inputs of `Timeline`: their order follows the hash of the track. The order of
  blocks within a round is any, where the code draws a permutation from its seed.

## 6. Plan

Done: everything in section 2 and the theorems of section 4. What is left for proofs:
that the validation of a written trace succeeds for its instants, counters and flows too,
which needs the inputs it is true of stated as an assumption.

Left to model, if the project is taken further: the formal campaign, the servers'
collections, schedule and statistics as pure algorithms on integers.

Abstract specifications worth stating: a boundary service (request, one answer) that
`Telemetry` implements; a run that owns and releases, which `HybridRun` and
`MonitorRun` both implement.
