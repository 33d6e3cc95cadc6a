----------------------------- MODULE HybridRun ------------------------------
(***************************************************************************)
(* hybrid/runner.py, HybridRunner.run: one hybrid run. It starts the three *)
(* servers in order, drives the requests, brackets them with a profiler    *)
(* capture and telemetry boundaries, stops whatever it owns, and writes    *)
(* what it saw: the two sources, the merged bundle, a collection result,   *)
(* a sealed closeout, the derived products and a final result.             *)
(*                                                                         *)
(* `pc` is the step of the run. The servers live beside it: they come up,  *)
(* die, write logs, markers and the model cache whenever they like, and a  *)
(* foreign process may take a port that the preflight found free. What a   *)
(* stop of a server guarantees is ManagedProcess, what a boundary of the   *)
(* telemetry guarantees is Telemetry; here both are single steps with all  *)
(* their outcomes.                                                         *)
(***************************************************************************)
EXTENDS Naturals, FiniteSets

CONSTANTS
    ProfileMode,      \* "monitor", or the side that is profiled: "gpu", "npu"
    EnableTelemetry,  \* enable_telemetry
    Warmups, Measured,  \* requests of the workload
    Faults,           \* steps at which an unforeseen exception may arise
    StopOutcomes,     \* what stop_leader_first may come to
    MaxMishaps,       \* bound on what goes wrong outside the runner
    MaxInterrupts     \* bound on KeyboardInterrupt

Servers == {"decode", "prefill", "proxy"}
Order == <<"decode", "prefill", "proxy">>
Profiled == ProfileMode # "monitor"
Target == IF ProfileMode = "gpu" THEN "prefill" ELSE "decode"

\* The steps, by what becomes of an exception: the body of the try statement
\* catches it, the finally block and what follows it do not, and the
\* postprocessing catches it again.
Body == {"launch", "own", "telStart", "ready", "gate", "warmup", "baseline",
         "startProfile", "measure", "final", "drain", "markers", "stopProfile"}
Finally == {"unprofile", "closeClient", "telStop", "stopServers", "ownedFile"}
Postprocess == {"gateAgain", "profileMeta", "sources", "merge", "collect",
                "closeout", "derive"}
Bare == {"plan", "cacheAfter", "integrity", "finish", "publish"}
Steps == {"preflight"} \cup Body \cup Finally \cup Postprocess \cup Bare
AllFaults == (Body \ {"own"}) \cup {"ownedFile"} \cup Postprocess \cup Bare
AllStops == {"clean", "killed", "raised", "missed"}

ASSUME HybridRunAssumption ==
    /\ ProfileMode \in {"monitor", "gpu", "npu"} /\ EnableTelemetry \in BOOLEAN
    /\ Warmups \in Nat /\ Measured \in Nat \ {0}
    /\ Faults \subseteq AllFaults
    /\ StopOutcomes \subseteq AllStops /\ StopOutcomes # {}
    /\ MaxMishaps \in Nat /\ MaxInterrupts \in Nat

VARIABLES
    server,      \* state of each server process
    taken,       \* servers whose port a foreign process has taken
    logs,        \* what the server logs show: "compile", "fatal"
    cache,       \* the RBLN model cache is as cache_before found it
    served,      \* measured requests that our own decode and proxy served
    marked,      \* those whose completion markers are on disk
    orderly,     \* the markers on disk are complete pairs in a valid order
    mishaps,     \* what went wrong so far
    pc, at,      \* step of the run, and the server it is at
    owned,       \* length of the list `started`
    tried,       \* servers whose stop has been tried
    client,      \* `client` is not None
    active,      \* profiler_active
    unstopped,   \* an acknowledged capture that nobody asked to stop
    tel,         \* telemetry: "off", "on" or "stopped"
    telFailed,   \* telemetry.errors is not empty
    taps,        \* telemetry boundaries captured
    warm, done,  \* length of `warmups` and of `observations`
    boundary,    \* `boundary` is not None
    errors,      \* the kinds of messages in `errors`
    shutdownBad, \* shutdown_error is not None
    files,       \* the evidence on disk
    manifest,    \* status in the manifests of the two sources
    collection,  \* status in collection_result.json
    final,       \* status in final_result.json
    seal,        \* the closeout: absent, intact, or broken by a later change
    hits,        \* the steps at which KeyboardInterrupt struck
    exit         \* how run() ended

world == <<server, taken, logs, cache, served, marked, orderly, mishaps>>
grip == <<owned, tried, client, active, unstopped>>
probes == <<tel, telFailed, taps>>
work == <<warm, done, boundary>>
results == <<files, manifest, collection, final, seal>>
vars == <<world, pc, at, grip, probes, work, errors, shutdownBad, results,
          hits, exit>>

Status == {"none", "succeeded", "failed", "truncated"}
Kinds == {"run", "marker", "final telemetry", "profiler cleanup",
          "client close", "telemetry", "SIGKILL", "cleanup", "cache", "merge",
          "postprocess", "shutdown"}
Evidence == {"telemetry_lifecycle", "measured_requests", "streams", "requests"}
Products == {"hybrid", "perfetto", "overview"}

WorldTypes ==
    /\ server \in [Servers -> {"absent", "starting", "serving", "exited",
                               "stopped", "orphaned"}]
    /\ taken \subseteq Servers /\ logs \subseteq {"compile", "fatal"}
    /\ cache \in BOOLEAN /\ orderly \in BOOLEAN
    /\ served \in 0 .. Measured /\ marked \in 0 .. served
    /\ mishaps \in 0 .. MaxMishaps

ControlTypes ==
    /\ pc \in Steps \cup {"done"} /\ at \in 0 .. 3
    /\ errors \subseteq Kinds /\ shutdownBad \in BOOLEAN
    /\ hits \subseteq Steps
    /\ exit \in {"none", "returned", "raised", "interrupted"}

HoldTypes ==
    /\ owned \in 0 .. 3 /\ tried \subseteq Servers
    /\ client \in BOOLEAN /\ active \in BOOLEAN /\ unstopped \in BOOLEAN
    /\ tel \in {"off", "on", "stopped"} /\ telFailed \in BOOLEAN
    /\ taps \subseteq {"baseline", "final"}
    /\ warm \in 0 .. Warmups /\ done \in 0 .. Measured /\ boundary \in BOOLEAN

ResultTypes ==
    /\ files \subseteq {"owned_processes"} \cup Evidence \cup Products
    /\ {manifest, collection, final} \subseteq Status
    /\ seal \in {"absent", "intact", "broken"}

TypeOK == WorldTypes /\ ControlTypes /\ HoldTypes /\ ResultTypes

Init ==
    /\ server = [n \in Servers |-> "absent"] /\ taken = {} /\ logs = {}
    /\ cache = TRUE /\ served = 0 /\ marked = 0 /\ orderly = TRUE
    /\ mishaps = 0
    /\ pc = "preflight" /\ at = 1
    /\ owned = 0 /\ tried = {} /\ client = FALSE /\ active = FALSE
    /\ unstopped = FALSE
    /\ tel = "off" /\ telFailed = FALSE /\ taps = {}
    /\ warm = 0 /\ done = 0 /\ boundary = FALSE
    /\ errors = {} /\ shutdownBad = FALSE
    /\ files = {} /\ manifest = "none" /\ collection = "none" /\ final = "none"
    /\ seal = "absent" /\ hits = {} /\ exit = "none"

-----------------------------------------------------------------------------
(* The servers and their surroundings                                      *)

Alive(n) == server[n] \in {"starting", "serving", "orphaned"}

\* Somebody answers at the address of n; the runner cannot tell who.
Answers(n) == server[n] = "serving" \/ n \in taken

ComesUp(n) ==
    /\ server[n] = "starting" /\ n \notin taken
    /\ server' = [server EXCEPT ![n] = "serving"]
    /\ UNCHANGED <<taken, logs, cache, marked, orderly, seal, mishaps, telFailed>>

\* The decode server and the proxy append the markers of a request they
\* served, which may be after its response.
MarkersLand ==
    /\ marked < served /\ Alive("decode") /\ Alive("proxy")
    /\ marked' = marked + 1
    /\ \/ orderly' = orderly /\ UNCHANGED mishaps
       \/ orderly' = FALSE /\ mishaps < MaxMishaps /\ mishaps' = mishaps + 1
    /\ UNCHANGED <<server, taken, logs, cache, seal, telFailed>>

Mishap == mishaps < MaxMishaps /\ mishaps' = mishaps + 1

Dies(n) ==
    /\ server[n] \in {"starting", "serving"} /\ Mishap
    /\ server' = [server EXCEPT ![n] = "exited"]
    /\ UNCHANGED <<taken, logs, cache, marked, orderly, seal, telFailed>>

\* A foreign process binds the port of n before n does.
PortTaken(n) ==
    /\ server[n] \in {"absent", "starting"} /\ n \notin taken /\ Mishap
    /\ taken' = taken \cup {n}
    /\ UNCHANGED <<server, logs, cache, marked, orderly, seal, telFailed>>

\* What is still alive writes to a log below coordinator/raw, which a closeout
\* has in its inventory.
LogGrows(n, line) ==
    /\ Alive(n) /\ line \notin logs /\ Mishap
    /\ line = "compile" => n = "decode"
    /\ logs' = logs \cup {line}
    /\ seal' = IF seal = "intact" THEN "broken" ELSE seal
    /\ UNCHANGED <<server, taken, cache, marked, orderly, telFailed>>

CacheChanges ==
    /\ Alive("decode") /\ cache /\ Mishap /\ cache' = FALSE
    /\ UNCHANGED <<server, taken, logs, marked, orderly, seal, telFailed>>

PollFails ==
    /\ tel = "on" /\ ~telFailed /\ Mishap /\ telFailed' = TRUE
    /\ UNCHANGED <<server, taken, logs, cache, marked, orderly, seal>>

\* Once the run has ended, only what may still spoil its closeout is of interest.
World ==
    /\ \/ \E n \in Servers, line \in {"compile", "fatal"} : LogGrows(n, line)
       \/ /\ pc # "done"
          /\ \/ \E n \in Servers : ComesUp(n) \/ Dies(n) \/ PortTaken(n)
             \/ MarkersLand \/ CacheChanges \/ PollFails
    /\ UNCHANGED <<served, pc, at, grip, tel, taps, work, errors, shutdownBad,
                   files, manifest, collection, final, hits, exit>>

-----------------------------------------------------------------------------
(* Exceptions                                                              *)

Goto(p) == pc' = p

\* An exception in the try body: except Exception, then the finally block.
Caught(kind) == errors' = errors \cup {kind} /\ Goto("unprofile")

\* An exception in the postprocessing.
Lost == errors' = errors \cup {"postprocess"} /\ Goto("finish")

Leave(how) == exit' = how /\ Goto("done")

Fault ==
    /\ pc \in Faults
    /\ \/ pc \in Body /\ Caught("run") /\ UNCHANGED exit
       \/ pc \in Postprocess /\ Lost /\ UNCHANGED exit
       \/ pc \in Bare \cup {"ownedFile"} /\ Leave("raised") /\ UNCHANGED errors
    /\ UNCHANGED <<world, at, grip, probes, work, shutdownBad, results, hits>>

\* KeyboardInterrupt is no Exception: only the finally block of the body
\* stands in its way, and a second one leaves that block as well.
Interrupt ==
    /\ pc # "done" /\ Cardinality(hits) < MaxInterrupts
    /\ hits' = hits \cup {pc}
    /\ IF pc \in Body THEN Goto("unprofile") /\ UNCHANGED exit
       ELSE Leave("interrupted")
    /\ UNCHANGED <<world, at, grip, probes, work, errors, shutdownBad, results>>

Unwinding == hits \cap Body # {}

-----------------------------------------------------------------------------
(* Starting                                                                *)

\* _preflight: nothing exists yet, and an occupied port refuses the run.
Preflight ==
    /\ pc = "preflight"
    /\ \/ taken = {} /\ Goto("plan") /\ UNCHANGED exit
       \/ Leave("raised")
    /\ UNCHANGED <<world, at, grip, probes, work, errors, shutdownBad, results,
                   hits>>

\* The directories, execution_plan.json and cache_before.json.
Plan ==
    /\ pc = "plan" /\ Goto("launch")
    /\ UNCHANGED <<world, at, grip, probes, work, errors, shutdownBad, results,
                   hits, exit>>

Name == Order[at]

\* process.start(), which owns nothing when it raises.
Launch ==
    /\ pc = "launch"
    /\ \/ /\ server' = [server EXCEPT ![Name] = "starting"] /\ Goto("own")
          /\ UNCHANGED errors
       \/ Caught("run") /\ UNCHANGED server
    /\ UNCHANGED <<taken, logs, cache, served, marked, orderly, mishaps, at,
                   grip, probes, work, shutdownBad, results, hits, exit>>

\* started.append, _record_started_process.
Own ==
    /\ pc = "own"
    /\ owned' = at
    /\ Goto(IF at = 1 /\ EnableTelemetry THEN "telStart" ELSE "ready")
    /\ UNCHANGED <<world, at, tried, client, active, unstopped, probes, work,
                   errors, shutdownBad, results, hits, exit>>

\* A collector that cannot be prepared raises before any thread is started.
StartTelemetry ==
    /\ pc = "telStart"
    /\ \/ tel' = "on" /\ Goto("ready") /\ UNCHANGED errors
       \/ Caught("run") /\ UNCHANGED tel
    /\ UNCHANGED <<world, at, grip, telFailed, taps, work, shutdownBad, results,
                   hits, exit>>

\* Mutant: wait for an answer and for nothing else.
WaitHttpForever ==
    /\ pc = "ready"
    /\ Answers(Name)
    /\ client' = (at = 3)
    /\ Goto(IF at = 1 THEN "gate" ELSE IF at = 2 THEN "launch" ELSE "warmup")
    /\ at' = IF at = 2 THEN 3 ELSE at
    /\ UNCHANGED errors
    /\ UNCHANGED <<world, owned, tried, active, unstopped, probes, work,
                   shutdownBad, results, hits, exit>>

\* _wait_http: an answer, a child that has exited, or the deadline.
WaitHttp ==
    /\ pc = "ready"
    /\ \/ /\ Answers(Name) /\ server[Name] # "exited"
          /\ client' = (at = 3)
          /\ Goto(IF at = 1 THEN "gate" ELSE IF at = 2 THEN "launch" ELSE "warmup")
          /\ at' = IF at = 2 THEN 3 ELSE at
          /\ UNCHANGED errors
       \/ Caught("run") /\ UNCHANGED <<client, at>>
    /\ UNCHANGED <<world, owned, tried, active, unstopped, probes, work,
                   shutdownBad, results, hits, exit>>

\* _compile_gate between decode and prefill.
CompileGate ==
    /\ pc = "gate"
    /\ IF "compile" \in logs THEN Caught("run") /\ UNCHANGED at
       ELSE Goto("launch") /\ at' = 2 /\ UNCHANGED errors
    /\ UNCHANGED <<world, grip, probes, work, shutdownBad, results, hits, exit>>

-----------------------------------------------------------------------------
(* Measuring                                                               *)

AllAnswer == \A n \in Servers : Answers(n)
Ours == \A n \in {"decode", "proxy"} : server[n] = "serving" /\ n \notin taken

Warmup ==
    /\ pc = "warmup"
    /\ \/ /\ warm = Warmups /\ Goto(IF EnableTelemetry THEN "baseline" ELSE "startProfile")
          /\ UNCHANGED <<warm, errors>>
       \/ /\ warm < Warmups /\ AllAnswer /\ warm' = warm + 1
          /\ UNCHANGED <<pc, errors>>
       \/ warm < Warmups /\ Caught("run") /\ UNCHANGED warm
    /\ UNCHANGED <<world, at, grip, probes, done, boundary, shutdownBad, results,
                   hits, exit>>

Baseline ==
    /\ pc = "baseline"
    /\ \/ /\ ~telFailed /\ taps' = taps \cup {"baseline"} /\ Goto("startProfile")
          /\ UNCHANGED errors
       \/ Caught("run") /\ UNCHANGED taps
    /\ UNCHANGED <<world, at, grip, tel, telFailed, work, shutdownBad, results,
                   hits, exit>>

\* /start_profile: an answer other than 200 and a lost answer both raise, and
\* the second leaves a capture that profiler_active does not know.
StartProfile ==
    /\ pc = "startProfile"
    /\ IF ~Profiled THEN Goto("measure") /\ UNCHANGED <<active, unstopped, errors>>
       ELSE \/ /\ Answers(Target) /\ active' = TRUE /\ unstopped' = TRUE
               /\ Goto("measure") /\ UNCHANGED errors
            \/ Caught("run") /\ UNCHANGED <<active, unstopped>>
    /\ UNCHANGED <<world, at, owned, tried, client, probes, work, shutdownBad,
                   results, hits, exit>>

Measure ==
    /\ pc = "measure"
    /\ \/ /\ done = Measured /\ Goto(IF EnableTelemetry THEN "final" ELSE "markers")
          /\ UNCHANGED <<done, served, errors>>
       \/ /\ done < Measured /\ AllAnswer /\ done' = done + 1
          /\ served' = IF Ours THEN served + 1 ELSE served
          /\ UNCHANGED <<pc, errors>>
       \/ done < Measured /\ Caught("run") /\ UNCHANGED <<done, served>>
    /\ UNCHANGED <<server, taken, logs, cache, marked, orderly, mishaps, at,
                   grip, probes, warm, boundary, shutdownBad, results, hits, exit>>

\* Mutant: a failed final boundary is swallowed.
FinalBoundarySwallowed ==
    /\ pc = "final" /\ Goto("drain")
    /\ \/ ~telFailed /\ taps' = taps \cup {"final"} /\ UNCHANGED errors
       \/ UNCHANGED taps /\ UNCHANGED errors
    /\ UNCHANGED <<world, at, grip, tel, telFailed, work, shutdownBad, results,
                   hits, exit>>

FinalBoundary ==
    /\ pc = "final" /\ Goto("drain")
    /\ \/ ~telFailed /\ taps' = taps \cup {"final"} /\ UNCHANGED errors
       \/ errors' = errors \cup {"final telemetry"} /\ UNCHANGED taps
    /\ UNCHANGED <<world, at, grip, tel, telFailed, work, shutdownBad, results,
                   hits, exit>>

\* telemetry.stop() of the body: a thread that does not stop is an error too.
Drain ==
    /\ pc = "drain" /\ tel' = "stopped" /\ telFailed' \in {telFailed, TRUE}
    /\ Goto("markers")
    /\ UNCHANGED <<world, at, grip, taps, work, errors, shutdownBad, results,
                   hits, exit>>

\* _wait_runtime_marker_completion: both markers of every observed request, or
\* the deadline.
WaitMarkers ==
    /\ pc = "markers"
    /\ \/ marked = done /\ Goto("stopProfile") /\ UNCHANGED errors
       \/ Caught("marker")
    /\ UNCHANGED <<world, at, grip, probes, work, shutdownBad, results, hits, exit>>

\* /stop_profile, and the boundary of the capture.
StopProfile ==
    /\ pc = "stopProfile"
    /\ IF ~Profiled THEN Goto("unprofile") /\ UNCHANGED <<active, unstopped, boundary, errors>>
       ELSE /\ unstopped' = FALSE
            /\ \/ /\ Answers(Target) /\ active' = FALSE /\ boundary' = TRUE
                  /\ Goto("unprofile") /\ UNCHANGED errors
               \/ Caught("run") /\ UNCHANGED <<active, boundary>>
    /\ UNCHANGED <<world, at, owned, tried, client, probes, warm, done,
                   shutdownBad, results, hits, exit>>

-----------------------------------------------------------------------------
(* The finally block                                                       *)

Unprofile ==
    /\ pc = "unprofile" /\ Goto("closeClient")
    /\ IF active
       THEN /\ unstopped' = FALSE
            /\ errors' \in {errors \cup {"profiler cleanup"}}
                           \cup IF Answers(Target) THEN {errors} ELSE {}
       ELSE UNCHANGED <<unstopped, errors>>
    /\ UNCHANGED <<world, at, owned, tried, client, active, probes, work,
                   shutdownBad, results, hits, exit>>

CloseClient ==
    /\ pc = "closeClient" /\ Goto("telStop")
    /\ errors' \in {errors} \cup IF client THEN {errors \cup {"client close"}} ELSE {}
    /\ UNCHANGED <<world, at, grip, probes, work, shutdownBad, results, hits, exit>>

\* telemetry.stop() does nothing the second time; then its errors are copied,
\* and the servers are taken from the last started one on.
StopTelemetry ==
    /\ pc = "telStop" /\ Goto("stopServers") /\ at' = owned
    /\ tel' = "stopped"
    /\ telFailed' \in {telFailed, telFailed \/ (EnableTelemetry /\ owned > 0 /\ tel # "stopped")}
    /\ errors' = IF telFailed' THEN errors \cup {"telemetry"} ELSE errors
    /\ UNCHANGED <<world, grip, taps, work, shutdownBad, results, hits, exit>>

StopOutcome(n, outcome) ==
    /\ server' = [server EXCEPT ![n] =
          CASE outcome = "raised" -> @
            [] outcome = "missed" -> "orphaned"
            [] OTHER -> "stopped"]
    /\ errors' = errors \cup (CASE outcome = "killed" -> {"SIGKILL"}
                                [] outcome = "raised" -> {"cleanup"}
                                [] OTHER -> {})

\* Mutant: a stop that raises ends the loop.
StopServerGivesUp ==
    /\ pc = "stopServers"
    /\ IF at = 0 THEN Goto("ownedFile") /\ UNCHANGED <<server, at, tried, errors>>
       ELSE \E outcome \in StopOutcomes :
              /\ StopOutcome(Name, outcome)
              /\ tried' = tried \cup {Name} /\ UNCHANGED pc
              /\ at' = IF outcome = "raised" THEN 0 ELSE at - 1
    /\ UNCHANGED <<taken, logs, cache, served, marked, orderly, mishaps, owned,
                   client, active, unstopped, probes, work, shutdownBad,
                   results, hits, exit>>

\* stop_leader_first of one started server: a failure is recorded and the
\* next one is tried.
StopServer ==
    /\ pc = "stopServers"
    /\ IF at = 0 THEN Goto("ownedFile") /\ UNCHANGED <<server, at, tried, errors>>
       ELSE \E outcome \in StopOutcomes :
              /\ StopOutcome(Name, outcome)
              /\ tried' = tried \cup {Name} /\ at' = at - 1 /\ UNCHANGED pc
    /\ UNCHANGED <<taken, logs, cache, served, marked, orderly, mishaps, owned,
                   client, active, unstopped, probes, work, shutdownBad,
                   results, hits, exit>>

\* owned_processes.json; an interrupt of the body goes on from here.
WriteOwned ==
    /\ pc = "ownedFile" /\ files' = files \cup {"owned_processes"}
    /\ IF Unwinding THEN Leave("interrupted")
       ELSE Goto("cacheAfter") /\ UNCHANGED exit
    /\ UNCHANGED <<world, at, grip, probes, work, errors, shutdownBad, manifest,
                   collection, final, seal, hits>>

-----------------------------------------------------------------------------
(* Closing                                                                 *)

CacheAfter ==
    /\ pc = "cacheAfter" /\ Goto("integrity")
    /\ errors' = IF cache THEN errors ELSE errors \cup {"cache"}
    /\ UNCHANGED <<world, at, grip, probes, work, shutdownBad, results, hits, exit>>

\* cleanup.json, _shutdown_integrity over the logs, shutdown_integrity.json.
ShutdownIntegrity ==
    /\ pc = "integrity" /\ Goto("gateAgain")
    /\ shutdownBad' = ("fatal" \in logs)
    /\ UNCHANGED <<world, at, grip, probes, work, errors, results, hits, exit>>

\* Mutant: the gate between decode and prefill is thought enough.
GateOnce ==
    /\ pc = "gateAgain" /\ Goto("profileMeta")
    /\ UNCHANGED errors
    /\ UNCHANGED <<world, at, grip, probes, work, shutdownBad, results, hits, exit>>

\* _compile_gate again, over all that decode has logged.
GateAgain ==
    /\ pc = "gateAgain"
    /\ IF "compile" \in logs THEN Lost ELSE Goto("profileMeta") /\ UNCHANGED errors
    /\ UNCHANGED <<world, at, grip, probes, work, shutdownBad, results, hits, exit>>

\* _profile_metadata: no boundary, or native files that do not validate.
ProfileMetadata ==
    /\ pc = "profileMeta"
    /\ \/ (Profiled => boundary) /\ Goto("sources") /\ UNCHANGED errors
       \/ Profiled /\ Lost
    /\ UNCHANGED <<world, at, grip, probes, work, shutdownBad, results, hits, exit>>

\* _marker_events accepts the markers of every observed request.
MarkersValid == orderly /\ marked >= done

\* Our proxy writes its first marker before it forwards a request, so its file
\* exists once it served one.
ProxyMarkersExist == served > 0 \/ (warm > 0 /\ "proxy" \notin taken)

\* _write_sources: the requests and the telemetry are written whatever the
\* markers say, and the manifests know; a run without any marker of the proxy
\* stops at copying its file, after telemetry_lifecycle.json and
\* measured_requests.jsonl.
WriteSources ==
    /\ pc = "sources"
    /\ \/ /\ client
          /\ files' = files \cup Evidence
          /\ manifest' = IF errors = {} /\ MarkersValid THEN "succeeded" ELSE "failed"
          /\ IF MarkersValid THEN Goto("merge") /\ UNCHANGED errors ELSE Lost
       \/ /\ ~ProxyMarkersExist
          /\ files' = files \cup {"telemetry_lifecycle", "measured_requests"}
          /\ Lost /\ UNCHANGED manifest
    /\ UNCHANGED <<world, at, grip, probes, work, shutdownBad, collection, final,
                   seal, hits, exit>>

\* HybridBundleMerger, and the sources compared with what they were before. In
\* `files`, "hybrid" is a bundle that says succeeded; a failed one is left out.
Merge ==
    /\ pc = "merge"
    /\ IF errors = {} /\ done = Measured
       THEN \/ files' = files \cup {"hybrid"} /\ Goto("collect") /\ UNCHANGED errors
            \/ /\ errors' = errors \cup {"merge"} /\ Goto("finish")
               /\ UNCHANGED files
            \/ files' = files \cup {"hybrid"} /\ Lost
       ELSE Goto("finish") /\ UNCHANGED <<files, errors>>
    /\ UNCHANGED <<world, at, grip, probes, work, shutdownBad, manifest,
                   collection, final, seal, hits, exit>>

\* Mutant: the collection result looks at the requests only.
WriteCollectionBlind ==
    /\ pc = "collect" /\ Goto("closeout")
    /\ collection' = "succeeded"
    /\ UNCHANGED <<world, at, grip, probes, work, errors, shutdownBad, files,
                   manifest, final, seal, hits, exit>>

\* source_fingerprint.json and collection_result.json.
WriteCollection ==
    /\ pc = "collect" /\ Goto("closeout")
    /\ collection' = IF shutdownBad THEN "failed" ELSE "succeeded"
    /\ UNCHANGED <<world, at, grip, probes, work, errors, shutdownBad, files,
                   manifest, final, seal, hits, exit>>

\* The file is written in place; a write that fails leaves it cut short.
TruncateCollection ==
    /\ pc = "collect" /\ pc \in Faults
    /\ collection' = "truncated" /\ Lost
    /\ UNCHANGED <<world, at, grip, probes, work, shutdownBad, files, manifest,
                   final, seal, hits, exit>>

\* _create_closeout: an inventory of coordinator, gpu, npu and hybrid.
CreateCloseout ==
    /\ pc = "closeout" /\ Goto("derive")
    /\ seal' = "intact"
    /\ UNCHANGED <<world, at, grip, probes, work, errors, shutdownBad, files,
                   manifest, collection, final, hits, exit>>

\* Perfetto, then the overview that reads it.
DeriveProducts ==
    /\ pc = "derive"
    /\ \/ /\ files' = files \cup {"perfetto", "overview"}
          /\ Goto("finish") /\ UNCHANGED errors
       \/ files' \in {files, files \cup {"perfetto"}} /\ Lost
    /\ UNCHANGED <<world, at, grip, probes, work, shutdownBad, manifest,
                   collection, final, seal, hits, exit>>

\* Mutant: the collection result is written again at the end.
FinishRewrites ==
    /\ pc = "finish" /\ Goto("publish")
    /\ errors' = IF shutdownBad THEN errors \cup {"shutdown"} ELSE errors
    /\ collection' = IF errors' = {} THEN "succeeded" ELSE "failed"
    /\ seal' = IF seal = "intact" /\ collection' # collection THEN "broken" ELSE seal
    /\ UNCHANGED <<world, at, grip, probes, work, shutdownBad, files, manifest,
                   final, hits, exit>>

\* The status, and collection_result.json where the postprocessing wrote none.
Finish ==
    /\ pc = "finish" /\ Goto("publish")
    /\ errors' = IF shutdownBad THEN errors \cup {"shutdown"} ELSE errors
    /\ collection' = IF collection # "none" THEN collection
                     ELSE IF errors' = {} THEN "succeeded" ELSE "failed"
    /\ seal' = IF seal = "intact" /\ collection' # collection THEN "broken" ELSE seal
    /\ UNCHANGED <<world, at, grip, probes, work, shutdownBad, files, manifest,
                   final, hits, exit>>

\* final_result.json, and the return.
Publish ==
    /\ pc = "publish" /\ Leave("returned")
    /\ final' = IF errors = {} THEN "succeeded" ELSE "failed"
    /\ UNCHANGED <<world, at, grip, probes, work, errors, shutdownBad, files,
                   manifest, collection, seal, hits>>

-----------------------------------------------------------------------------
Step ==
    \/ Preflight \/ Plan \/ Launch \/ Own \/ StartTelemetry \/ WaitHttp
    \/ CompileGate \/ Warmup \/ Baseline \/ StartProfile \/ Measure
    \/ FinalBoundary \/ Drain \/ WaitMarkers \/ StopProfile
    \/ Unprofile \/ CloseClient \/ StopTelemetry \/ StopServer \/ WriteOwned
    \/ CacheAfter \/ ShutdownIntegrity \/ GateAgain \/ ProfileMetadata
    \/ WriteSources \/ Merge \/ WriteCollection \/ CreateCloseout
    \/ DeriveProducts \/ Finish \/ Publish

Next == Step \/ Fault \/ TruncateCollection \/ Interrupt \/ World

Spec == Init /\ [][Next]_vars

\* Every wait of the run has a deadline and every call a timeout.
FairSpec == Spec /\ WF_vars(Step)

-----------------------------------------------------------------------------
(* Properties                                                              *)

Orphans == {n \in Servers : server[n] = "orphaned"}

\* Whatever happens, a run that has ended leaves no server of its own alive,
\* but for the descendants a missed SIGKILL leaves, a server whose stop itself
\* raised, and a KeyboardInterrupt in one of two places: between the start of
\* a server and its entry in `started`, or in the middle of the cleanup.
NothingOwnedSurvives ==
    exit # "none" =>
        \A n \in Servers : Alive(n) =>
            \/ n \in Orphans
            \/ n \in tried /\ "cleanup" \in errors
            \/ hits \cap ({"own"} \cup Finally) # {}

\* A source manifest that says succeeded stands for every measured request,
\* served by our own decode server and proxy and not by a foreign process on
\* their ports, with valid markers, a profiler boundary and both telemetry
\* boundaries.
SourcesTellTheTruth ==
    manifest = "succeeded" =>
        /\ served = Measured /\ marked = Measured /\ orderly
        /\ Profiled => boundary
        /\ EnableTelemetry => taps = {"baseline", "final"}

\* A successful run has all its products, its servers are down, and neither
\* their logs nor the model cache say otherwise; only the descendants of a
\* missed SIGKILL may still spoil them.
SuccessIsClean ==
    final = "succeeded" =>
        /\ Evidence \cup Products \subseteq files
        /\ \A n \in Servers : Alive(n) => n \in Orphans
        /\ Orphans = {} => logs = {} /\ cache

\* The collection result and the final result never contradict each other: no
\* success rests on a failed collection, and a collection that succeeded has
\* good sources, a bundle and a clean shutdown even where the derivation of
\* the products fails later.
ResultsAgree ==
    /\ final = "succeeded" => collection = "succeeded"
    /\ collection = "succeeded" => /\ manifest = "succeeded" /\ ~shutdownBad
                                   /\ "hybrid" \in files
    /\ exit = "returned" => collection # "none" /\ final # "none"

\* Nothing the closeout has sealed changes afterwards, unless descendants of a
\* missed SIGKILL still write their logs.
SealHolds == seal = "broken" => Orphans # {}

\* The run ends, whatever the servers do.
RunEnds == <>(exit # "none")
=============================================================================
