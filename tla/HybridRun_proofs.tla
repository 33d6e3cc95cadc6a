-------------------------- MODULE HybridRun_proofs --------------------------
(***************************************************************************)
(* Proofs about HybridRun, for any number of requests, mishaps and         *)
(* interrupts, any set of steps at which an exception may arise and any    *)
(* outcome a stop may have.                                                *)
(*                                                                         *)
(* What a run says at its end rests on what was true many steps before.    *)
(* The invariant carries it there: which servers may live at each step of  *)
(* the start and of the cleanup (Launching, Unlaunched, StopInv), what a   *)
(* run without an error has measured (WorkInv, SourceInv), what the logs   *)
(* and the cache cannot show any more once the run has looked at them      *)
(* (CleanInv), and which files exist when no error was recorded (FileInv,  *)
(* SealInv). That the world goes on beside the run is harmless because a   *)
(* server that is down stays down (WorldStep, NobodyLives).                *)
(***************************************************************************)
EXTENDS HybridRun, TLAPS

\* What follows the finally block.
Past == {"cacheAfter", "integrity", "finish", "publish"} \cup Postprocess

\* `started` and the server at hand agree at each step of the start.
Launching ==
    /\ pc \in {"preflight", "plan"} => at = 1 /\ owned = 0
    /\ pc \in {"launch", "own"} => at \in 1 .. 3 /\ owned = at - 1
    /\ pc \in {"telStart", "ready", "gate"} => at \in 1 .. 3 /\ owned = at
    /\ pc = "gate" => at = 1
    /\ pc = "stopServers" => at <= owned

\* A server that is not in `started` has not been started, unless an interrupt
\* struck between the two.
Unlaunched ==
    \A i \in 1 .. 3 : i > owned =>
        \/ server[Order[i]] = "absent"
        \/ pc = "own" /\ i = at
        \/ "own" \in hits

\* Nothing is left to do for server n.
Settled(n) == Alive(n) => n \in Orphans \/ (n \in tried /\ "cleanup" \in errors)

\* The loop has settled the servers it is past.
Stopping ==
    pc = "stopServers" =>
        \A i \in 1 .. 3 : at < i /\ i <= owned => Settled(Order[i])

AllStopped ==
    pc \in {"ownedFile"} \cup Past =>
        (\A n \in Servers : Settled(n)) \/ "own" \in hits

Ended == /\ pc = "done" <=> exit # "none"
         /\ pc \in Past => ~Unwinding

StopInv == Stopping /\ AllStopped /\ Ended /\ NothingOwnedSurvives

Bracketed == EnableTelemetry => taps = {"baseline", "final"}

\* Without an error and without an interrupt, the body was run to its end.
WorkInv ==
    /\ served <= done
    /\ pc \in {"final", "drain", "markers", "stopProfile"} => done = Measured
    /\ EnableTelemetry /\ pc \in {"startProfile", "measure", "final", "drain",
                                  "markers", "stopProfile"}
           => "baseline" \in taps
    /\ EnableTelemetry /\ pc \in {"drain", "markers", "stopProfile"} /\ errors = {}
           => "final" \in taps
    /\ pc \in Finally \cup Past /\ errors = {} /\ ~Unwinding
           => done = Measured /\ Bracketed

\* The manifests are written once, after the boundary was found.
SourceInv ==
    /\ pc = "sources" => (Profiled => boundary)
    /\ manifest # "none" => pc \in Past \cup {"done"}
    /\ SourcesTellTheTruth

\* What was looked at is still so, where nobody lives who could change it.
Quiet == errors = {} /\ Orphans = {}

CleanInv ==
    /\ pc \in Past \ {"cacheAfter"} /\ Quiet => cache
    /\ pc \in Past \ {"cacheAfter", "integrity"} /\ Quiet
           => ("fatal" \in logs => shutdownBad)
    /\ pc \in Past \ {"cacheAfter", "integrity", "gateAgain"} /\ Quiet
           => "compile" \notin logs
    /\ pc = "publish" /\ errors = {} => ~shutdownBad

Verdict == IF shutdownBad THEN "failed" ELSE "succeeded"

\* What the postprocessing has written where it met no error.
FileInv ==
    /\ pc = "merge" /\ errors = {}
           => Evidence \subseteq files /\ manifest = "succeeded"
    /\ pc \in {"collect", "closeout", "derive"} => errors = {}
    /\ pc \in {"collect", "closeout", "derive", "finish", "publish"} /\ errors = {}
           => Evidence \cup {"hybrid"} \subseteq files /\ manifest = "succeeded"
    /\ pc \in {"closeout", "derive", "finish", "publish"} /\ errors = {}
           => collection = Verdict
    /\ pc \in {"finish", "publish"} /\ errors = {} => Products \subseteq files
    /\ pc \notin {"closeout", "derive", "finish", "publish", "done"}
           => collection = "none"
    /\ pc = "publish" => collection # "none"
    /\ pc # "done" => final = "none"
    /\ ResultsAgree

\* Only descendants that a SIGKILL missed live beside a closeout.
SealInv ==
    /\ seal # "absent" => /\ pc \in {"derive", "finish", "publish", "done"}
                          /\ collection # "none"
                          /\ \A n \in Servers : Alive(n) => n \in Orphans
    /\ SealHolds
    /\ SuccessIsClean
    /\ final = "succeeded" => pc = "done"

Inv == /\ TypeOK /\ Launching /\ Unlaunched /\ StopInv /\ WorkInv
       /\ SourceInv /\ CleanInv /\ FileInv /\ SealInv

-----------------------------------------------------------------------------
(* Single steps                                                            *)

\* The servers and their order.
LEMMA OrderIs ==
    /\ Order[1] = "decode" /\ Order[2] = "prefill" /\ Order[3] = "proxy"
    /\ \A i \in 1 .. 3 : i = 1 \/ i = 2 \/ i = 3
    /\ Servers = {Order[1], Order[2], Order[3]}
BY DEF Order, Servers

\* Only these steps touch the servers and what they write.
LEMMA WorldMoves ==
    [Next]_vars => Launch \/ Measure \/ StopServer \/ World \/ UNCHANGED world
<1>1. CASE Preflight \/ Plan \/ Own \/ StartTelemetry \/ WaitHttp
           \/ CompileGate \/ Warmup \/ Baseline \/ StartProfile
           \/ FinalBoundary \/ Drain \/ WaitMarkers
  BY <1>1
     DEF Preflight, Plan, Own, StartTelemetry, WaitHttp, CompileGate, Warmup,
         Baseline, StartProfile, FinalBoundary, Drain, WaitMarkers
<1>2. CASE StopProfile \/ Unprofile \/ CloseClient \/ StopTelemetry
           \/ WriteOwned \/ CacheAfter \/ ShutdownIntegrity \/ GateAgain
           \/ ProfileMetadata \/ WriteSources \/ Merge \/ WriteCollection
  BY <1>2
     DEF StopProfile, Unprofile, CloseClient, StopTelemetry, WriteOwned,
         CacheAfter, ShutdownIntegrity, GateAgain, ProfileMetadata,
         WriteSources, Merge, WriteCollection
<1>3. CASE CreateCloseout \/ DeriveProducts \/ Finish \/ Publish
           \/ TruncateCollection \/ Fault \/ Interrupt
  BY <1>3
     DEF CreateCloseout, DeriveProducts, Finish, Publish, TruncateCollection,
         Fault, Interrupt
<1> QED
  BY <1>1, <1>2, <1>3
     DEF Next, Step, vars

\* Only these steps touch the results; of the world, a late log line.
LEMMA ResultMoves ==
    [Next]_vars => WriteOwned \/ WriteSources \/ Merge \/ WriteCollection \/
                   CreateCloseout \/ DeriveProducts \/ Finish \/ Publish \/
                   TruncateCollection \/ World \/ UNCHANGED results
<1>1. CASE Preflight \/ Plan \/ Launch \/ Own \/ StartTelemetry
           \/ WaitHttp \/ CompileGate \/ Warmup \/ Baseline
           \/ StartProfile \/ Measure \/ FinalBoundary
  BY <1>1
     DEF Preflight, Plan, Launch, Own, StartTelemetry, WaitHttp, CompileGate,
         Warmup, Baseline, StartProfile, Measure, FinalBoundary
<1>2. CASE Drain \/ WaitMarkers \/ StopProfile \/ Unprofile \/ CloseClient
           \/ StopTelemetry \/ StopServer \/ CacheAfter
           \/ ShutdownIntegrity \/ GateAgain \/ ProfileMetadata \/ Fault
  BY <1>2
     DEF Drain, WaitMarkers, StopProfile, Unprofile, CloseClient,
         StopTelemetry, StopServer, CacheAfter, ShutdownIntegrity, GateAgain,
         ProfileMetadata, Fault
<1>3. CASE Interrupt
  BY <1>3 DEF Interrupt
<1> QED
  BY <1>1, <1>2, <1>3
     DEF Next, Step, vars

\* What the surroundings do: a server that lives was alive before, orphans are
\* made by the runner only, and a log or the cache changes through a server
\* that lives.
LEMMA WorldStep ==
    ASSUME WorldTypes, World
    PROVE  /\ WorldTypes'
           /\ UNCHANGED <<served, pc, at, grip, tel, taps, work, errors,
                          shutdownBad, files, manifest, collection, final, hits,
                          exit>>
           /\ \A n \in Servers : /\ Alive(n)' => Alive(n)
                                 /\ server[n] = "absent" => server'[n] = "absent"
           /\ Orphans' = Orphans
           /\ pc = "done" => UNCHANGED <<server, cache, marked, orderly, telFailed>>
           /\ marked = served => UNCHANGED <<marked, orderly>>
           /\ cache' # cache => Alive("decode")
           /\ logs' # logs \/ seal' # seal => \E n \in Servers : Alive(n)
           /\ seal' = seal \/ (seal = "intact" /\ seal' = "broken")
           /\ telFailed' \in {telFailed, TRUE}
<1> USE HybridRunAssumption
<1> DEFINE Goal == /\ WorldTypes'
                   /\ \A n \in Servers : /\ Alive(n)' => Alive(n)
                                         /\ server[n] = "absent" => server'[n] = "absent"
                   /\ Orphans' = Orphans
                   /\ pc = "done" => UNCHANGED <<server, cache, marked, orderly, telFailed>>
                   /\ marked = served => UNCHANGED <<marked, orderly>>
                   /\ cache' # cache => Alive("decode")
                   /\ logs' # logs \/ seal' # seal => \E n \in Servers : Alive(n)
                   /\ seal' = seal \/ (seal = "intact" /\ seal' = "broken")
                   /\ telFailed' \in {telFailed, TRUE}
<1>1. UNCHANGED served
  BY DEF World
<1>2. UNCHANGED <<served, pc, at, grip, tel, taps, work, errors, shutdownBad,
                  files, manifest, collection, final, hits, exit>>
  BY DEF World
<1>3. ASSUME UNCHANGED server
      PROVE  Orphans' = Orphans /\ \A n \in Servers : Alive(n)' <=> Alive(n)
  BY <1>3 DEF Orphans, Alive
<1>4. ASSUME NEW n \in Servers, NEW v \in {"serving", "exited"},
             server[n] \in {"starting", "serving"}, server' = [server EXCEPT ![n] = v]
      PROVE  /\ server' \in [Servers -> {"absent", "starting", "serving", "exited",
                                         "stopped", "orphaned"}]
             /\ Orphans' = Orphans
             /\ \A m \in Servers : /\ Alive(m)' => Alive(m)
                                   /\ server[m] = "absent" => server'[m] = "absent"
  BY <1>4 DEF Orphans, Alive, WorldTypes
<1>5. ASSUME NEW n \in Servers, NEW line \in {"compile", "fatal"}, LogGrows(n, line)
      PROVE  Goal
  <2>1. WorldTypes'
    BY <1>1, <1>5 DEF LogGrows, Mishap, WorldTypes
  <2> QED BY <2>1, <1>3, <1>5 DEF LogGrows, Mishap
<1>6. ASSUME NEW n \in Servers, ComesUp(n), pc # "done" PROVE Goal
  <2>1. WorldTypes'
    BY <1>1, <1>4, <1>6 DEF ComesUp, WorldTypes
  <2> QED BY <2>1, <1>4, <1>6 DEF ComesUp
<1>7. ASSUME NEW n \in Servers, Dies(n), pc # "done" PROVE Goal
  <2>1. WorldTypes'
    BY <1>1, <1>4, <1>7 DEF Dies, Mishap, WorldTypes
  <2> QED BY <2>1, <1>4, <1>7 DEF Dies, Mishap
<1>8. ASSUME NEW n \in Servers, PortTaken(n), pc # "done" PROVE Goal
  <2>1. WorldTypes'
    BY <1>1, <1>8 DEF PortTaken, Mishap, WorldTypes
  <2> QED BY <2>1, <1>3, <1>8 DEF PortTaken, Mishap
<1>9. ASSUME MarkersLand, pc # "done" PROVE Goal
  <2>1. /\ UNCHANGED <<server, taken, logs, cache, seal, telFailed>>
        /\ marked < served /\ marked' = marked + 1
        /\ orderly' \in {orderly, FALSE} /\ mishaps' \in {mishaps, mishaps + 1}
        /\ mishaps' # mishaps => mishaps < MaxMishaps
    BY <1>9 DEF MarkersLand
  <2>2. marked' \in 0 .. served' /\ mishaps' \in 0 .. MaxMishaps /\ marked # served
    BY <1>1, <2>1 DEF WorldTypes
  <2>3. orderly' \in BOOLEAN /\ served' \in 0 .. Measured
    BY <1>1, <2>1 DEF WorldTypes
  <2>4. WorldTypes'
    BY <2>1, <2>2, <2>3 DEF WorldTypes
  <2> QED BY <1>3, <1>9, <2>4, <2>1, <2>2
<1>10. ASSUME CacheChanges, pc # "done" PROVE Goal
  <2>1. cache' = FALSE /\ mishaps' \in 0 .. MaxMishaps
    BY <1>10 DEF CacheChanges, Mishap, WorldTypes
  <2>2. UNCHANGED <<server, taken, logs, marked, orderly>>
    BY <1>10 DEF CacheChanges
  <2>3. WorldTypes'
    BY <1>1, <2>1, <2>2 DEF WorldTypes
  <2> QED BY <2>3, <1>3, <1>10 DEF CacheChanges, Mishap
<1>11. ASSUME PollFails, pc # "done" PROVE Goal
  <2>1. WorldTypes'
    BY <1>1, <1>11 DEF PollFails, Mishap, WorldTypes
  <2> QED BY <2>1, <1>3, <1>11 DEF PollFails, Mishap
<1>12. Goal
  <2> HIDE DEF Goal
  <2> QED
    BY <1>5, <1>6, <1>7, <1>8, <1>9, <1>10, <1>11 DEF World
<1> QED BY <1>2, <1>12

-----------------------------------------------------------------------------
(* Types                                                                   *)

\* The names of the steps and of the messages.
LEMMA StepNames ==
    /\ {"plan", "launch", "own", "telStart", "ready", "gate", "warmup", "baseline",
        "startProfile", "measure", "final", "drain", "markers", "stopProfile"}
           \subseteq Steps
    /\ {"unprofile", "closeClient", "telStop", "stopServers", "ownedFile",
        "cacheAfter", "integrity", "gateAgain", "profileMeta", "sources", "merge",
        "collect", "closeout", "derive", "finish", "publish"} \subseteq Steps
    /\ {"run", "marker", "final telemetry", "profiler cleanup", "client close",
        "telemetry", "SIGKILL", "cleanup", "cache", "merge", "postprocess",
        "shutdown"} \subseteq Kinds
BY DEF Steps, Body, Finally, Postprocess, Bare, Kinds

\* The world keeps its types: no more is served than was measured.
LEMMA WorldTypesStay ==
    WorldTypes /\ HoldTypes /\ served <= done /\ [Next]_vars => WorldTypes'
<1> SUFFICES ASSUME WorldTypes, HoldTypes, served <= done, [Next]_vars
             PROVE  WorldTypes'
  OBVIOUS
<1> USE DEF WorldTypes
<1>1. CASE Launch
  BY <1>1 DEF Launch
<1>2. CASE Measure
  BY <1>2, HybridRunAssumption DEF Measure, HoldTypes
<1>3. CASE StopServer
  BY <1>3 DEF StopServer, StopOutcome
<1>4. CASE UNCHANGED world
  BY <1>4 DEF world
<1> QED BY <1>1, <1>2, <1>3, <1>4, WorldMoves, WorldStep

\* The run goes from step to step.
LEMMA ControlTypesStay == TypeOK /\ [Next]_vars => ControlTypes'
<1> SUFFICES ASSUME TypeOK, [Next]_vars PROVE ControlTypes'
  OBVIOUS
<1>1. ControlTypes /\ at \in 0 .. 3 /\ pc \in Steps \cup {"done"}
  BY DEF TypeOK, ControlTypes
<1>2. CASE Preflight
  BY <1>2, <1>1, StepNames DEF Preflight, Goto, Leave, ControlTypes
<1>3. CASE Plan
  BY <1>3, <1>1, StepNames DEF Plan, Goto, ControlTypes
<1>4. CASE Launch
  BY <1>4, <1>1, StepNames DEF Launch, Goto, Caught, ControlTypes
<1>5. CASE Own
  BY <1>5, <1>1, StepNames DEF Own, Goto, ControlTypes
<1>6. CASE StartTelemetry
  BY <1>6, <1>1, StepNames DEF StartTelemetry, Goto, Caught, ControlTypes
<1>7. CASE WaitHttp
  <2>1. at' \in {3, at} /\ UNCHANGED <<shutdownBad, hits, exit>>
    BY <1>7 DEF WaitHttp
  <2>2. pc' \in Steps /\ errors' \subseteq Kinds
    BY <1>7, <1>1, StepNames DEF WaitHttp, Goto, Caught, ControlTypes
  <2> QED BY <1>1, <2>1, <2>2 DEF ControlTypes
<1>8. CASE CompileGate
  <2>1. at' \in {2, at} /\ UNCHANGED <<shutdownBad, hits, exit>>
    BY <1>8 DEF CompileGate
  <2>2. pc' \in Steps /\ errors' \subseteq Kinds
    BY <1>8, <1>1, StepNames DEF CompileGate, Goto, Caught, ControlTypes
  <2> QED BY <1>1, <2>1, <2>2 DEF ControlTypes
<1>9. CASE Warmup
  BY <1>9, <1>1, StepNames DEF Warmup, Goto, Caught, ControlTypes
<1>10. CASE Baseline
  BY <1>10, <1>1, StepNames DEF Baseline, Goto, Caught, ControlTypes
<1>11. CASE StartProfile
  BY <1>11, <1>1, StepNames DEF StartProfile, Goto, Caught, ControlTypes
<1>12. CASE Measure
  BY <1>12, <1>1, StepNames DEF Measure, Goto, Caught, ControlTypes
<1>13. CASE FinalBoundary
  BY <1>13, <1>1, StepNames DEF FinalBoundary, Goto, ControlTypes
<1>14. CASE Drain
  BY <1>14, <1>1, StepNames DEF Drain, Goto, ControlTypes
<1>15. CASE WaitMarkers
  BY <1>15, <1>1, StepNames DEF WaitMarkers, Goto, Caught, ControlTypes
<1>16. CASE StopProfile
  BY <1>16, <1>1, StepNames DEF StopProfile, Goto, Caught, ControlTypes
<1>17. CASE Unprofile
  BY <1>17, <1>1, StepNames DEF Unprofile, Goto, ControlTypes
<1>18. CASE CloseClient
  BY <1>18, <1>1, StepNames DEF CloseClient, Goto, ControlTypes
<1>19. CASE StopTelemetry
  <2>1. at' \in 0 .. 3 /\ pc' \in Steps
    BY <1>19, StepNames DEF StopTelemetry, Goto, TypeOK, HoldTypes
  <2>2. errors' \subseteq Kinds /\ UNCHANGED <<shutdownBad, hits, exit>>
    BY <1>19, <1>1, StepNames DEF StopTelemetry, ControlTypes
  <2> QED BY <1>1, <2>1, <2>2 DEF ControlTypes
<1>20. CASE StopServer
  <2>1. at' \in 0 .. 3
    BY <1>20, <1>1 DEF StopServer
  <2>2. /\ pc' \in Steps /\ errors' \subseteq Kinds
        /\ UNCHANGED <<shutdownBad, hits, exit>>
    BY <1>20, <1>1, StepNames DEF StopServer, StopOutcome, Goto, ControlTypes
  <2> QED BY <1>1, <2>1, <2>2 DEF ControlTypes
<1>21. CASE WriteOwned
  BY <1>21, <1>1, StepNames DEF WriteOwned, Leave, Goto, ControlTypes
<1>22. CASE CacheAfter
  BY <1>22, <1>1, StepNames DEF CacheAfter, Goto, ControlTypes
<1>23. CASE ShutdownIntegrity
  <2>1. shutdownBad' \in BOOLEAN
    <3>1. shutdownBad' = ("fatal" \in logs)
      BY <1>23 DEF ShutdownIntegrity
    <3> QED BY <3>1
  <2>2. pc' \in Steps /\ UNCHANGED <<at, errors, hits, exit>>
    BY <1>23, StepNames DEF ShutdownIntegrity, Goto
  <2> QED BY <1>1, <2>1, <2>2 DEF ControlTypes
<1>24. CASE GateAgain
  BY <1>24, <1>1, StepNames DEF GateAgain, Lost, Goto, ControlTypes
<1>25. CASE ProfileMetadata
  BY <1>25, <1>1, StepNames DEF ProfileMetadata, Goto, Lost, ControlTypes
<1>26. CASE WriteSources
  BY <1>26, <1>1, StepNames DEF WriteSources, Goto, Lost, ControlTypes
<1>27. CASE Merge
  BY <1>27, <1>1, StepNames DEF Merge, Goto, Lost, ControlTypes
<1>28. CASE WriteCollection
  BY <1>28, <1>1, StepNames DEF WriteCollection, Goto, ControlTypes
<1>29. CASE CreateCloseout
  BY <1>29, <1>1, StepNames DEF CreateCloseout, Goto, ControlTypes
<1>30. CASE DeriveProducts
  BY <1>30, <1>1, StepNames DEF DeriveProducts, Goto, Lost, ControlTypes
<1>31. CASE Finish
  BY <1>31, <1>1, StepNames DEF Finish, Goto, ControlTypes
<1>32. CASE Publish
  BY <1>32, <1>1, StepNames DEF Publish, Leave, Goto, ControlTypes
<1>33. CASE TruncateCollection
  BY <1>33, <1>1, StepNames DEF TruncateCollection, Lost, Goto, ControlTypes
<1>34. CASE Fault
  BY <1>34, <1>1, StepNames DEF Fault, Caught, Lost, Leave, Goto, ControlTypes
<1>35. CASE Interrupt
  BY <1>35, <1>1, StepNames DEF Interrupt, Goto, Leave, ControlTypes
<1>36. CASE World
  BY <1>1, <1>36, WorldStep DEF TypeOK, ControlTypes
<1>37. CASE UNCHANGED vars
  BY <1>1, <1>37 DEF vars, ControlTypes
<1> QED
  BY <1>2, <1>3, <1>4, <1>5, <1>6, <1>7, <1>8, <1>9, <1>10, <1>11, <1>12, <1>13,
     <1>14, <1>15, <1>16, <1>17, <1>18, <1>19, <1>20, <1>21, <1>22, <1>23,
     <1>24, <1>25, <1>26, <1>27, <1>28, <1>29, <1>30, <1>31, <1>32, <1>33,
     <1>34, <1>35, <1>36, <1>37
     DEF Next, Step

\* What the run holds keeps its types.
LEMMA HoldTypesStay == TypeOK /\ [Next]_vars => HoldTypes'
<1> SUFFICES ASSUME TypeOK, [Next]_vars PROVE HoldTypes'
  OBVIOUS
<1> USE HybridRunAssumption DEF TypeOK, HoldTypes, grip, probes, work
<1>1. CASE Own
  BY <1>1 DEF Own, ControlTypes
<1>2. CASE StartTelemetry
  BY <1>2 DEF StartTelemetry
<1>3. CASE WaitHttp
  BY <1>3 DEF WaitHttp
<1>4. CASE Warmup
  BY <1>4 DEF Warmup
<1>5. CASE Baseline
  BY <1>5 DEF Baseline
<1>6. CASE StartProfile
  BY <1>6 DEF StartProfile
<1>7. CASE Measure
  BY <1>7 DEF Measure
<1>8. CASE FinalBoundary
  BY <1>8 DEF FinalBoundary
<1>9. CASE Drain
  BY <1>9 DEF Drain
<1>10. CASE StopProfile
  BY <1>10 DEF StopProfile
<1>11. CASE Unprofile
  BY <1>11 DEF Unprofile
<1>12. CASE StopTelemetry
  BY <1>12 DEF StopTelemetry
<1>13. CASE StopServer
  BY <1>13, OrderIs DEF StopServer, Name, ControlTypes
<1>14. CASE Preflight \/ Plan \/ Launch \/ CompileGate \/ WaitMarkers
            \/ CloseClient \/ WriteOwned \/ CacheAfter \/ ShutdownIntegrity
            \/ GateAgain
  BY <1>14
     DEF Preflight, Plan, Launch, CompileGate, WaitMarkers, CloseClient,
         WriteOwned, CacheAfter, ShutdownIntegrity, GateAgain
<1>15. CASE ProfileMetadata \/ WriteSources \/ Merge \/ WriteCollection
            \/ CreateCloseout \/ DeriveProducts \/ Finish \/ Publish
            \/ TruncateCollection \/ Fault
  BY <1>15
     DEF ProfileMetadata, WriteSources, Merge, WriteCollection, CreateCloseout,
         DeriveProducts, Finish, Publish, TruncateCollection, Fault
<1>16. CASE Interrupt
  BY <1>16 DEF Interrupt
<1>17. CASE World
  BY <1>17, WorldStep
<1>18. CASE UNCHANGED vars
  BY <1>18 DEF vars
<1> QED
  BY <1>1, <1>2, <1>3, <1>4, <1>5, <1>6, <1>7, <1>8, <1>9, <1>10, <1>11, <1>12,
     <1>13, <1>14, <1>15, <1>16, <1>17, <1>18
     DEF Next, Step

\* The files and results keep their types.
LEMMA ResultTypesStay == TypeOK /\ [Next]_vars => ResultTypes'
<1> SUFFICES ASSUME TypeOK, [Next]_vars PROVE ResultTypes'
  OBVIOUS
<1> USE DEF TypeOK, ResultTypes, Status, Evidence, Products
<1>1. CASE WriteOwned
  BY <1>1 DEF WriteOwned
<1>2. CASE WriteSources
  BY <1>2 DEF WriteSources
<1>3. CASE Merge
  BY <1>3 DEF Merge
<1>4. CASE WriteCollection
  BY <1>4 DEF WriteCollection
<1>5. CASE TruncateCollection
  BY <1>5 DEF TruncateCollection
<1>6. CASE CreateCloseout
  BY <1>6 DEF CreateCloseout
<1>7. CASE DeriveProducts
  BY <1>7 DEF DeriveProducts
<1>8. CASE Finish
  BY <1>8 DEF Finish
<1>9. CASE Publish
  BY <1>9 DEF Publish
<1>10. CASE World
  BY <1>10, WorldStep DEF TypeOK
<1>11. CASE UNCHANGED results
  BY <1>11 DEF results
<1> QED
  BY <1>1, <1>2, <1>3, <1>4, <1>5, <1>6, <1>7, <1>8, <1>9, <1>10, <1>11,
     ResultMoves

\* An exception where nobody foresaw one: caught in the body and in the
\* postprocessing, not caught elsewhere, and never between the start of a
\* server and its entry in `started`.
LEMMA FaultStep ==
    ASSUME Fault
    PROVE  /\ UNCHANGED <<world, at, grip, probes, work, shutdownBad, results, hits>>
           /\ pc # "own"
           /\ \/ /\ pc \in Body \ {"own"} /\ pc' = "unprofile"
                 /\ errors' = errors \cup {"run"} /\ exit' = exit
              \/ /\ pc \in Postprocess /\ pc' = "finish"
                 /\ errors' = errors \cup {"postprocess"} /\ exit' = exit
              \/ /\ pc \in Bare \cup {"ownedFile"} /\ pc' = "done"
                 /\ errors' = errors /\ exit' = "raised"
<1>1. pc # "own"
  BY HybridRunAssumption
     DEF Fault, AllFaults, Body, Postprocess, Bare
<1> QED BY <1>1 DEF Fault, Goto, Caught, Lost, Leave

-----------------------------------------------------------------------------
(* Starting and stopping                                                   *)

\* `started` grows by the server that was started, and by that one only.
LEMMA LaunchingStays == TypeOK /\ Launching /\ [Next]_vars => Launching'
<1> SUFFICES ASSUME TypeOK, Launching, [Next]_vars PROVE Launching'
  OBVIOUS
<1>1. at \in 0 .. 3 /\ owned \in 0 .. 3
  BY DEF TypeOK, ControlTypes, HoldTypes
<1>2. CASE Launch
  BY <1>2, <1>1 DEF Launch, Goto, Caught, grip, Launching
<1>3. CASE Own
  BY <1>3, <1>1 DEF Own, Goto, Launching
<1>4. CASE StartTelemetry
  BY <1>4, <1>1 DEF StartTelemetry, Goto, Caught, grip, Launching
<1>5. CASE WaitHttp
  BY <1>5, <1>1 DEF WaitHttp, Goto, Caught, Launching
<1>6. CASE CompileGate
  BY <1>6, <1>1 DEF CompileGate, Caught, Goto, grip, Launching
<1>7. CASE StopTelemetry
  BY <1>7, <1>1 DEF StopTelemetry, Goto, grip, Launching
<1>8. CASE StopServer
  BY <1>8, <1>1 DEF StopServer, Goto, StopOutcome, Launching
<1>9. CASE Fault
  BY <1>9, <1>1 DEF Fault, Caught, Lost, Leave, grip, Goto, Launching
<1>10. CASE Interrupt
  BY <1>10, <1>1 DEF Interrupt, Goto, Leave, grip, Launching
<1>11. CASE Preflight
  BY <1>11, <1>1 DEF Preflight, Goto, Leave, grip, Launching
<1>12. CASE Plan
  BY <1>12, <1>1 DEF Plan, Goto, grip, Launching
<1>13. CASE Warmup \/ Baseline \/ StartProfile \/ Measure \/ FinalBoundary
  BY <1>13, <1>1
     DEF Goto, grip, Warmup, Caught, Baseline, StartProfile, Measure,
         FinalBoundary, Launching
<1>14. CASE Drain \/ WaitMarkers \/ StopProfile \/ Unprofile
            \/ CloseClient \/ WriteOwned \/ CacheAfter
  BY <1>14, <1>1
     DEF Drain, Goto, grip, WaitMarkers, Caught, StopProfile, Unprofile,
         CloseClient, WriteOwned, Leave, CacheAfter, Launching
<1>15. CASE ShutdownIntegrity \/ GateAgain \/ ProfileMetadata
            \/ WriteSources \/ Merge \/ WriteCollection \/ CreateCloseout
  BY <1>15, <1>1
     DEF ShutdownIntegrity, Goto, grip, GateAgain, Lost, ProfileMetadata,
         WriteSources, Merge, WriteCollection, CreateCloseout, Launching
<1>16. CASE DeriveProducts \/ Finish \/ Publish \/ TruncateCollection
  BY <1>16, <1>1
     DEF DeriveProducts, Goto, Lost, grip, Finish, Publish, Leave,
         TruncateCollection, Launching
<1>17. CASE World
  BY <1>17, WorldStep DEF TypeOK, Launching, grip
<1>18. CASE UNCHANGED vars
  BY <1>18 DEF vars, grip, Launching
<1> QED
  BY <1>2, <1>3, <1>4, <1>5, <1>6, <1>7, <1>8, <1>9, <1>10, <1>11, <1>14, <1>15,
     <1>16, <1>17, <1>18, <1>12, <1>13
     DEF Next, Step

\* A server is started when its turn comes.
LEMMA UnlaunchedStays ==
    TypeOK /\ Launching /\ Unlaunched /\ [Next]_vars => Unlaunched'
<1> SUFFICES ASSUME TypeOK, Launching, Unlaunched, [Next]_vars
             PROVE  Unlaunched'
  OBVIOUS
<1>1. at \in 0 .. 3 /\ owned \in 0 .. 3
  BY DEF TypeOK, ControlTypes, HoldTypes
<1>2. CASE Launch
  BY <1>2, <1>1, OrderIs
     DEF Launch, Name, Goto, Caught, grip, Unlaunched, Launching, TypeOK, WorldTypes
<1>3. CASE Own
  BY <1>3, <1>1, OrderIs DEF Own, Goto, world, Unlaunched, Launching
<1>4. CASE StopServer
  <2>1. /\ pc = "stopServers" /\ UNCHANGED <<owned, hits>>
        /\ pc' \in {"stopServers", "ownedFile"}
    BY <1>4 DEF StopServer, Goto
  <2>2. ASSUME NEW i \in 1 .. 3, i > owned
        PROVE  server'[Order[i]] = server[Order[i]]
    <3>1. i # at /\ (at # 0 => Order[i] # Name)
      BY <1>1, <2>1, <2>2, OrderIs DEF Launching, Name
    <3>2. DOMAIN server = Servers /\ Order[i] \in Servers
      BY OrderIs DEF TypeOK, WorldTypes
    <3> QED BY <1>4, <3>1, <3>2 DEF StopServer, StopOutcome
  <2> QED BY <2>1, <2>2 DEF Unlaunched
<1>5. CASE Interrupt
  BY <1>5, <1>1, OrderIs
     DEF Interrupt, Goto, Leave, world, grip, Unlaunched, Launching
<1>6. CASE Preflight \/ Plan \/ StartTelemetry \/ WaitHttp \/ CompileGate
           \/ Warmup \/ Baseline
  BY <1>6, <1>1, OrderIs
     DEF Preflight, Goto, world, grip, Plan, StartTelemetry, WaitHttp,
         CompileGate, Warmup, Baseline, Unlaunched
<1>7. CASE StartProfile \/ Measure \/ FinalBoundary \/ Drain
           \/ WaitMarkers \/ StopProfile \/ Unprofile
  BY <1>7, <1>1, OrderIs
     DEF StartProfile, Goto, world, Measure, grip, FinalBoundary, Drain,
         WaitMarkers, StopProfile, Unprofile, Unlaunched
<1>8. CASE CloseClient \/ StopTelemetry \/ WriteOwned \/ CacheAfter
           \/ ShutdownIntegrity \/ GateAgain \/ ProfileMetadata
  BY <1>8, <1>1, OrderIs
     DEF CloseClient, Goto, world, grip, StopTelemetry, WriteOwned, CacheAfter,
         ShutdownIntegrity, GateAgain, ProfileMetadata, Unlaunched
<1>9. CASE WriteSources \/ Merge \/ WriteCollection \/ CreateCloseout
           \/ DeriveProducts \/ Finish \/ Publish
  BY <1>9, <1>1, OrderIs
     DEF WriteSources, Goto, world, grip, Merge, WriteCollection,
         CreateCloseout, DeriveProducts, Finish, Publish, Unlaunched
<1>10. CASE TruncateCollection
  BY <1>10, <1>1, OrderIs DEF TruncateCollection, Lost, Goto, world, grip, Unlaunched
<1>11. CASE Fault
  BY <1>11, FaultStep DEF world, grip, Unlaunched
<1>12. CASE World
  BY <1>12, WorldStep, OrderIs DEF TypeOK, Unlaunched, grip
<1>13. CASE UNCHANGED vars
  BY <1>13 DEF vars, grip, world, Unlaunched
<1> QED
  BY <1>2, <1>3, <1>4, <1>5, <1>6, <1>7, <1>8, <1>9, <1>10, <1>12, <1>13,
     <1>11
     DEF Next, Step

\* Nothing is taken back: a message, an interrupt, the attempt to stop a server.
LEMMA Recorded ==
    [Next]_vars => /\ errors \subseteq errors' /\ tried \subseteq tried'
                   /\ hits \subseteq hits' /\ (hits' # hits => Interrupt)
<1> SUFFICES ASSUME [Next]_vars
             PROVE  /\ errors \subseteq errors' /\ tried \subseteq tried'
                    /\ hits \subseteq hits' /\ (hits' # hits => Interrupt)
  OBVIOUS
<1>1. CASE Preflight \/ Plan \/ Launch \/ Own \/ StartTelemetry \/ WaitHttp
  BY <1>1
     DEF Preflight, Goto, Leave, grip, Plan, Launch, Caught, Own,
         StartTelemetry, WaitHttp
<1>2. CASE CompileGate \/ Warmup \/ Baseline \/ StartProfile \/ Measure
           \/ FinalBoundary
  BY <1>2
     DEF CompileGate, Caught, Goto, grip, Warmup, Baseline, StartProfile,
         Measure, FinalBoundary
<1>3. CASE Drain \/ WaitMarkers \/ StopProfile \/ Unprofile \/ CloseClient
           \/ StopTelemetry
  BY <1>3
     DEF Drain, Goto, grip, WaitMarkers, Caught, StopProfile, Unprofile,
         CloseClient, StopTelemetry
<1>4. CASE StopServer \/ WriteOwned \/ CacheAfter \/ ShutdownIntegrity
           \/ GateAgain \/ ProfileMetadata
  BY <1>4
     DEF StopServer, Goto, StopOutcome, WriteOwned, Leave, grip, CacheAfter,
         ShutdownIntegrity, GateAgain, Lost, ProfileMetadata
<1>5. CASE WriteSources \/ Merge \/ WriteCollection \/ CreateCloseout
           \/ DeriveProducts \/ Finish
  BY <1>5
     DEF WriteSources, Goto, Lost, grip, Merge, WriteCollection,
         CreateCloseout, DeriveProducts, Finish
<1>6. CASE Publish \/ TruncateCollection \/ Fault \/ Interrupt
  BY <1>6
     DEF Publish, Leave, grip, Goto, TruncateCollection, Lost, Fault, Caught,
         Interrupt
<1>7. CASE World
  BY <1>7 DEF World, grip
<1>8. CASE UNCHANGED vars
  BY <1>8 DEF vars, grip
<1> QED
  BY <1>1, <1>2, <1>3, <1>4, <1>5, <1>6, <1>7, <1>8
     DEF Next, Step

\* How the run gets from one part to the next.
LEMMA Ways ==
    ASSUME [Next]_vars
    PROVE  /\ pc' = "stopServers" => \/ StopTelemetry \/ StopServer
                                     \/ World \/ UNCHANGED vars
           /\ pc' = "ownedFile" => \/ StopServer \/ World \/ UNCHANGED vars
           /\ pc' \in Past => pc \in Past \/ WriteOwned
           /\ pc' = "done" => \/ pc = "done" /\ exit' = exit
                              \/ Preflight /\ exit' # "none"
                              \/ Interrupt /\ exit' # "none"
                              \/ Fault /\ exit' # "none"
                              \/ WriteOwned /\ exit' # "none"
                              \/ Publish /\ exit' # "none"
           /\ pc' # "done" => pc # "done" /\ exit' = exit
<1> USE DEF Past, Postprocess
<1>1. CASE Preflight
  BY <1>1 DEF Preflight, Goto, Leave
<1>2. CASE Interrupt
  BY <1>2 DEF Interrupt, Goto, Leave
<1>3. CASE WriteOwned
  BY <1>3 DEF WriteOwned, Leave, Goto
<1>4. CASE Publish
  BY <1>4 DEF Publish, Leave, Goto
<1>5. CASE StopTelemetry \/ StopServer
  BY <1>5 DEF StopTelemetry, Goto, StopServer, StopOutcome
<1>6. CASE Plan \/ Launch \/ Own \/ StartTelemetry \/ WaitHttp \/ CompileGate
  BY <1>6
     DEF Plan, Goto, Launch, Caught, Own, StartTelemetry, WaitHttp, CompileGate
<1>7. CASE Warmup \/ Baseline \/ StartProfile \/ Measure \/ FinalBoundary
           \/ Drain
  BY <1>7
     DEF Warmup, Goto, Caught, Baseline, StartProfile, Measure, FinalBoundary,
         Drain
<1>8. CASE WaitMarkers \/ StopProfile \/ Unprofile \/ CloseClient
           \/ CacheAfter \/ ShutdownIntegrity
  BY <1>8
     DEF WaitMarkers, Goto, Caught, StopProfile, Unprofile, CloseClient,
         CacheAfter, ShutdownIntegrity
<1>9. CASE GateAgain \/ ProfileMetadata \/ WriteSources \/ Merge
           \/ WriteCollection \/ CreateCloseout
  BY <1>9
     DEF GateAgain, Lost, Goto, ProfileMetadata, WriteSources, Merge,
         WriteCollection, CreateCloseout
<1>10. CASE DeriveProducts \/ Finish \/ TruncateCollection
  BY <1>10 DEF DeriveProducts, Goto, Lost, Finish, TruncateCollection
<1>11. CASE Fault
  BY <1>11, FaultStep DEF Body, Bare
<1>12. CASE World
  BY <1>12 DEF World
<1>13. CASE UNCHANGED vars
  BY <1>13 DEF vars
<1> QED
  BY <1>1, <1>2, <1>3, <1>4, <1>5, <1>6, <1>7, <1>8, <1>9, <1>10, <1>11, <1>12,
     <1>13
     DEF Next, Step

\* A server that needs no more stopping needs none later.
LEMMA SettledStays ==
    ASSUME TypeOK, [Next]_vars, pc # "launch", NEW n \in Servers, Settled(n)
    PROVE  Settled(n)'
<1>1. errors \subseteq errors' /\ tried \subseteq tried'
  BY Recorded
<1>2. CASE World
  BY <1>1, <1>2, WorldStep DEF Settled, TypeOK
<1>3. CASE StopServer
  <2>1. server'[n] = server[n] \/ server'[n] \in {"orphaned", "stopped"}
    BY <1>3 DEF StopServer, StopOutcome, TypeOK, WorldTypes
  <2> QED BY <1>1, <2>1 DEF Settled, Alive, Orphans
<1>4. CASE Measure
  BY <1>1, <1>4 DEF Measure, Settled, Alive, Orphans
<1>5. CASE UNCHANGED world
  BY <1>1, <1>5 DEF world, Settled, Alive, Orphans
<1> QED BY <1>2, <1>3, <1>4, <1>5, WorldMoves DEF Launch

\* The server whose stop was tried needs none, whatever came of it.
LEMMA StopSettles ==
    ASSUME TypeOK, StopServer, at # 0, NEW n \in Servers, n = Name PROVE Settled(n)'
<1>1. PICK outcome \in StopOutcomes : StopOutcome(Name, outcome) /\ tried' = tried \cup {Name}
  BY DEF StopServer
<1>2. CASE outcome = "raised"
  BY <1>1, <1>2 DEF StopOutcome, Settled
<1>3. CASE outcome # "raised"
  <2>1. server'[n] \in {"orphaned", "stopped"}
    BY <1>1, <1>3 DEF StopOutcome, TypeOK, WorldTypes
  <2> QED BY <2>1 DEF Settled, Alive, Orphans
<1> QED BY <1>2, <1>3

\* The cleanup settles one server after the other, and nobody starts one again.
LEMMA StopInvStays ==
    TypeOK /\ Launching /\ Unlaunched /\ StopInv /\ [Next]_vars => StopInv'
<1> SUFFICES ASSUME TypeOK, Launching, Unlaunched, StopInv, [Next]_vars
             PROVE  StopInv'
  OBVIOUS
<1>1. at \in 0 .. 3 /\ owned \in 0 .. 3
  BY DEF TypeOK, ControlTypes, HoldTypes
<1>2. \A n \in Servers : pc # "launch" /\ Settled(n) => Settled(n)'
  BY SettledStays
<1>3. Stopping'
  <2>1. CASE StopTelemetry
    BY <1>1, <2>1 DEF StopTelemetry, Stopping, grip
  <2>2. CASE StopServer
    <3>1. pc = "stopServers" /\ owned' = owned
      BY <2>2 DEF StopServer
    <3>2. CASE at = 0
      BY <2>2, <3>2 DEF StopServer, Goto, Stopping
    <3>3. CASE at # 0
      <4>1. at' = at - 1
        BY <2>2, <3>3 DEF StopServer
      <4>2. \A i \in 1 .. 3 : i = at => Settled(Order[i])'
        BY <2>2, <3>3, StopSettles, OrderIs DEF Name
      <4>3. \A i \in 1 .. 3 : at < i /\ i <= owned => Settled(Order[i])'
        BY <1>2, <3>1, OrderIs DEF StopInv, Stopping
      <4> QED BY <1>1, <3>1, <4>1, <4>2, <4>3 DEF Stopping
    <3> QED BY <3>2, <3>3
  <2>3. CASE World \/ UNCHANGED vars
    <3>1. UNCHANGED <<pc, at, owned>>
      BY <2>3 DEF World, vars, grip
    <3> QED BY <1>2, <3>1, OrderIs DEF StopInv, Stopping
  <2> QED BY <2>1, <2>2, <2>3, Ways DEF Stopping
<1>4. AllStopped'
  <2>1. hits \subseteq hits'
    BY Recorded
  <2>2. CASE pc \in {"ownedFile"} \cup Past
    BY <1>2, <2>1, <2>2 DEF StopInv, AllStopped, Past, Postprocess
  <2>3. CASE StopServer /\ at = 0
    <3>1. \A i \in 1 .. 3 : i <= owned => Settled(Order[i])
      BY <1>1, <2>3 DEF StopServer, StopInv, Stopping
    <3>2. pc # "own" /\ UNCHANGED <<server, tried, errors>>
      BY <2>3 DEF StopServer
    <3>3. (\A n \in Servers : Settled(n)) \/ "own" \in hits
      <4>1. \A i \in 1 .. 3 : i > owned /\ "own" \notin hits => Settled(Order[i])
        BY <3>2 DEF Unlaunched, Settled, Alive
      <4> QED BY <1>1, <3>1, <4>1, OrderIs
    <3>4. \A n \in Servers : Settled(n) => Settled(n)'
      BY <1>2, <2>3 DEF StopServer
    <3> QED BY <2>1, <3>3, <3>4 DEF AllStopped
  <2>4. ASSUME pc' \in {"ownedFile"} \cup Past, pc \notin {"ownedFile"} \cup Past
        PROVE  StopServer /\ at = 0
    <3>1. CASE pc' = "ownedFile"
      <4>1. StopServer
        BY <2>4, <3>1, Ways DEF World, vars
      <4> QED BY <2>4, <3>1, <4>1 DEF StopServer
    <3>2. CASE pc' \in Past
      BY <2>4, <3>2, Ways DEF WriteOwned
    <3> QED BY <2>4, <3>1, <3>2
  <2> QED BY <2>2, <2>3, <2>4 DEF AllStopped
<1>5. Ended'
  <2>1. pc' = "done" <=> exit' # "none"
    BY Ways DEF StopInv, Ended
  <2>2. ASSUME pc' \in Past PROVE hits' \cap Body = {}
    <3>1. CASE pc \in Past /\ ~Interrupt
      <4>1. hits' = hits
        BY <3>1, Recorded
      <4> QED BY <3>1, <4>1 DEF StopInv, Ended, Unwinding
    <3>2. CASE pc \in Past /\ Interrupt
      BY <2>2, <3>2 DEF Past, Postprocess, Body, Interrupt, Goto, Leave
    <3>3. CASE WriteOwned
      BY <2>2, <3>3 DEF WriteOwned, Unwinding, Past, Postprocess, Leave, Goto
    <3> QED BY <2>2, <3>1, <3>2, <3>3, Ways
  <2> QED BY <2>1, <2>2 DEF Ended, Unwinding
<1>6. NothingOwnedSurvives'
  <2> SUFFICES ASSUME pc' = "done", NEW n \in Servers, Alive(n)',
                      hits' \cap ({"own"} \cup Finally) = {}
               PROVE  Settled(n)'
    BY Ways DEF NothingOwnedSurvives, Settled, StopInv, Ended
  <2>1. hits \subseteq hits' /\ "own" \notin hits
    BY Recorded
  <2>2. CASE pc = "done"
    <3>1. Settled(n)
      BY <2>1, <2>2 DEF StopInv, Ended, NothingOwnedSurvives, Settled
    <3> QED BY <1>2, <2>2, <3>1
  <2>3. ~Alive(n)' \/ pc \notin {"preflight", "plan"}
    <3>1. pc \in {"preflight", "plan"} => server[n] = "absent"
      BY <2>1, OrderIs DEF Launching, Unlaunched
    <3>2. pc \in {"preflight", "plan"} => UNCHANGED server \/ World
      BY WorldMoves DEF Launch, Measure, StopServer, world
    <3> QED BY <3>1, <3>2, WorldStep DEF Alive, TypeOK
  <2>4. CASE pc \in {"ownedFile"} \cup Past
    BY <1>2, <2>1, <2>4 DEF StopInv, AllStopped, Past, Postprocess
  <2>5. CASE Interrupt /\ pc \in Finally
    BY <2>5 DEF Interrupt
  <2>6. \/ pc \in {"preflight", "plan", "ownedFile", "done"} \cup Past
        \/ Interrupt /\ pc \in Finally
    <3>1. CASE Preflight \/ WriteOwned \/ Publish
      BY <3>1 DEF Preflight, WriteOwned, Publish, Past
    <3>2. CASE Interrupt
      <4>1. pc \in Steps \ Body
        BY <3>2 DEF Interrupt, Goto, TypeOK, ControlTypes
      <4> QED BY <3>2, <4>1 DEF Steps, Past, Bare
    <3>3. CASE Fault
      BY <3>3, FaultStep DEF Past, Bare
    <3> QED BY <3>1, <3>2, <3>3, Ways
  <2> QED BY <2>2, <2>3, <2>4, <2>5, <2>6
<1> QED BY <1>3, <1>4, <1>5, <1>6 DEF StopInv

-----------------------------------------------------------------------------
(* Measuring and closing                                                   *)

\* The body ends with all requests and both boundaries, or with a message.
LEMMA WorkInvStays == TypeOK /\ StopInv /\ WorkInv /\ [Next]_vars => WorkInv'
<1> SUFFICES ASSUME TypeOK, StopInv, WorkInv, [Next]_vars PROVE WorkInv'
  OBVIOUS
<1>1. served \in Nat /\ done \in Nat /\ taps \subseteq {"baseline", "final"}
  BY DEF TypeOK, WorldTypes, HoldTypes
<1>2. CASE Preflight
  BY <1>2, <1>1
     DEF Preflight, Goto, Leave, world, probes, work, WorkInv, Bracketed,
         Unwinding, Finally, Past, Postprocess
<1>3. CASE Plan
  BY <1>3, <1>1
     DEF Plan, Goto, world, probes, work, WorkInv, Bracketed, Unwinding,
         Finally, Past, Postprocess
<1>4. CASE Launch
  BY <1>4, <1>1
     DEF Launch, Goto, Caught, probes, work, WorkInv, Bracketed, Unwinding,
         Finally, Past, Postprocess
<1>5. CASE Own
  BY <1>5, <1>1
     DEF Own, Goto, world, probes, work, WorkInv, Bracketed, Unwinding,
         Finally, Past, Postprocess
<1>6. CASE StartTelemetry
  BY <1>6, <1>1
     DEF StartTelemetry, Goto, Caught, world, work, WorkInv, Bracketed,
         Unwinding, Finally, Past, Postprocess
<1>7. CASE WaitHttp
  BY <1>7, <1>1
     DEF WaitHttp, Goto, Caught, world, probes, work, WorkInv, Bracketed,
         Unwinding, Finally, Past, Postprocess
<1>8. CASE CompileGate
  BY <1>8, <1>1
     DEF CompileGate, Caught, Goto, world, probes, work, WorkInv, Bracketed,
         Unwinding, Finally, Past, Postprocess
<1>9. CASE Warmup
  BY <1>9, <1>1
     DEF Warmup, Goto, Caught, world, probes, WorkInv, Bracketed, Unwinding,
         Finally, Past, Postprocess
<1>10. CASE Baseline
  BY <1>10, <1>1
     DEF Baseline, Goto, Caught, world, work, WorkInv, Bracketed, Unwinding,
         Finally, Past, Postprocess
<1>11. CASE StartProfile
  BY <1>11, <1>1
     DEF StartProfile, Goto, Caught, world, probes, work, WorkInv, Bracketed,
         Unwinding, Finally, Past, Postprocess
<1>12. CASE Measure
  BY <1>12, <1>1
     DEF Measure, Goto, Caught, probes, WorkInv, Bracketed, Unwinding, Finally,
         Past, Postprocess
<1>13. CASE FinalBoundary
  BY <1>13, <1>1
     DEF FinalBoundary, Goto, world, work, WorkInv, Bracketed, Unwinding,
         Finally, Past, Postprocess
<1>14. CASE Drain
  BY <1>14, <1>1
     DEF Drain, Goto, world, work, WorkInv, Bracketed, Unwinding, Finally,
         Past, Postprocess
<1>15. CASE WaitMarkers
  BY <1>15, <1>1
     DEF WaitMarkers, Goto, Caught, world, probes, work, WorkInv, Bracketed,
         Unwinding, Finally, Past, Postprocess
<1>16. CASE StopProfile
  BY <1>16, <1>1
     DEF StopProfile, Goto, Caught, world, probes, WorkInv, Bracketed,
         Unwinding, Finally, Past, Postprocess
<1>17. CASE Unprofile
  BY <1>17, <1>1
     DEF Unprofile, Goto, world, probes, work, WorkInv, Bracketed, Unwinding,
         Finally, Past, Postprocess
<1>18. CASE CloseClient
  BY <1>18, <1>1
     DEF CloseClient, Goto, world, probes, work, WorkInv, Bracketed, Unwinding,
         Finally, Past, Postprocess
<1>19. CASE StopTelemetry
  BY <1>19, <1>1
     DEF StopTelemetry, Goto, world, work, WorkInv, Bracketed, Unwinding,
         Finally, Past, Postprocess
<1>20. CASE StopServer
  BY <1>20, <1>1
     DEF StopServer, Goto, StopOutcome, probes, work, WorkInv, Bracketed,
         Unwinding, Finally, Past, Postprocess
<1>21. CASE WriteOwned
  BY <1>21, <1>1
     DEF WriteOwned, Leave, Goto, world, probes, work, WorkInv, Bracketed,
         Unwinding, Finally, Past, Postprocess
<1>22. CASE CacheAfter
  BY <1>22, <1>1
     DEF CacheAfter, Goto, world, probes, work, WorkInv, Bracketed, Unwinding,
         Finally, Past, Postprocess
<1>23. CASE ShutdownIntegrity
  BY <1>23, <1>1
     DEF ShutdownIntegrity, Goto, world, probes, work, WorkInv, Bracketed,
         Unwinding, Finally, Past, Postprocess
<1>24. CASE GateAgain
  BY <1>24, <1>1
     DEF GateAgain, Lost, Goto, world, probes, work, WorkInv, Bracketed,
         Unwinding, Finally, Past, Postprocess
<1>25. CASE ProfileMetadata
  BY <1>25, <1>1
     DEF ProfileMetadata, Goto, Lost, world, probes, work, WorkInv, Bracketed,
         Unwinding, Finally, Past, Postprocess
<1>26. CASE WriteSources
  BY <1>26, <1>1
     DEF WriteSources, Goto, Lost, world, probes, work, WorkInv, Bracketed,
         Unwinding, Finally, Past, Postprocess
<1>27. CASE Merge
  BY <1>27, <1>1
     DEF Merge, Goto, Lost, world, probes, work, WorkInv, Bracketed, Unwinding,
         Finally, Past, Postprocess
<1>28. CASE WriteCollection
  BY <1>28, <1>1
     DEF WriteCollection, Goto, world, probes, work, WorkInv, Bracketed,
         Unwinding, Finally, Past, Postprocess
<1>29. CASE CreateCloseout
  BY <1>29, <1>1
     DEF CreateCloseout, Goto, world, probes, work, WorkInv, Bracketed,
         Unwinding, Finally, Past, Postprocess
<1>30. CASE DeriveProducts
  BY <1>30, <1>1
     DEF DeriveProducts, Goto, Lost, world, probes, work, WorkInv, Bracketed,
         Unwinding, Finally, Past, Postprocess
<1>31. CASE Finish
  BY <1>31, <1>1
     DEF Finish, Goto, world, probes, work, WorkInv, Bracketed, Unwinding,
         Finally, Past, Postprocess
<1>32. CASE Publish
  BY <1>32, <1>1
     DEF Publish, Leave, world, probes, work, Goto, WorkInv, Bracketed,
         Unwinding, Finally, Past, Postprocess
<1>33. CASE TruncateCollection
  BY <1>33, <1>1
     DEF TruncateCollection, Lost, world, probes, work, Goto, WorkInv,
         Bracketed, Unwinding, Finally, Past, Postprocess
<1>34. CASE Interrupt
  BY <1>34, <1>1
     DEF Interrupt, Goto, Leave, world, probes, work, WorkInv, Bracketed,
         Unwinding, Finally, Past, Postprocess
<1>35. CASE Fault
  BY <1>35, FaultStep
     DEF world, work, probes, WorkInv, Bare, Finally, Past, Postprocess
<1>36. CASE World
  BY <1>36 DEF World, work, WorkInv, Bracketed, Unwinding
<1>37. CASE UNCHANGED vars
  BY <1>37 DEF vars, world, work, probes, WorkInv, Bracketed, Unwinding
<1> QED
  BY <1>2, <1>3, <1>4, <1>5, <1>6, <1>7, <1>8, <1>9, <1>10, <1>11, <1>12, <1>13,
     <1>14, <1>15, <1>16, <1>17, <1>18, <1>19, <1>20, <1>21, <1>22, <1>23,
     <1>24, <1>25, <1>26, <1>27, <1>28, <1>29, <1>30, <1>31, <1>32, <1>33,
     <1>34, <1>35, <1>36, <1>37
     DEF Next, Step

\* The manifests say succeeded when the requests, markers and boundaries are
\* there, and none of these changes afterwards.
LEMMA SourceInvStays ==
    TypeOK /\ StopInv /\ WorkInv /\ SourceInv /\ [Next]_vars => SourceInv'
<1> SUFFICES ASSUME TypeOK, StopInv, WorkInv, SourceInv, [Next]_vars
             PROVE  SourceInv'
  OBVIOUS
<1>1. served \in Nat /\ done \in Nat /\ marked \in 0 .. served
  BY DEF TypeOK, WorldTypes, HoldTypes
<1>2. CASE Preflight
  BY <1>2, <1>1
     DEF Preflight, Goto, Leave, world, probes, work, results, SourceInv,
         SourcesTellTheTruth, Past, Postprocess
<1>3. CASE Plan
  BY <1>3, <1>1
     DEF Plan, Goto, world, probes, work, results, SourceInv,
         SourcesTellTheTruth, Past, Postprocess
<1>4. CASE Launch
  BY <1>4, <1>1
     DEF Launch, Goto, Caught, probes, work, results, SourceInv,
         SourcesTellTheTruth, Past, Postprocess
<1>5. CASE Own
  BY <1>5, <1>1
     DEF Own, Goto, world, probes, work, results, SourceInv,
         SourcesTellTheTruth, Past, Postprocess
<1>6. CASE StartTelemetry
  BY <1>6, <1>1
     DEF StartTelemetry, Goto, Caught, world, work, results, SourceInv,
         SourcesTellTheTruth, Past, Postprocess
<1>7. CASE WaitHttp
  BY <1>7, <1>1
     DEF WaitHttp, Goto, Caught, world, probes, work, results, SourceInv,
         SourcesTellTheTruth, Past, Postprocess
<1>8. CASE CompileGate
  BY <1>8, <1>1
     DEF CompileGate, Caught, Goto, world, probes, work, results, SourceInv,
         SourcesTellTheTruth, Past, Postprocess
<1>9. CASE Warmup
  BY <1>9, <1>1
     DEF Warmup, Goto, Caught, world, probes, results, SourceInv,
         SourcesTellTheTruth, Past, Postprocess
<1>10. CASE Baseline
  BY <1>10, <1>1
     DEF Baseline, Goto, Caught, world, work, results, SourceInv,
         SourcesTellTheTruth, Past, Postprocess
<1>11. CASE StartProfile
  BY <1>11, <1>1
     DEF StartProfile, Goto, Caught, world, probes, work, results, SourceInv,
         SourcesTellTheTruth, Past, Postprocess
<1>12. CASE Measure
  BY <1>12, <1>1
     DEF Measure, Goto, Caught, probes, results, SourceInv,
         SourcesTellTheTruth, Past, Postprocess
<1>13. CASE FinalBoundary
  BY <1>13, <1>1
     DEF FinalBoundary, Goto, world, work, results, SourceInv,
         SourcesTellTheTruth, Past, Postprocess
<1>14. CASE Drain
  BY <1>14, <1>1
     DEF Drain, Goto, world, work, results, SourceInv, SourcesTellTheTruth,
         Past, Postprocess
<1>15. CASE WaitMarkers
  BY <1>15, <1>1
     DEF WaitMarkers, Goto, Caught, world, probes, work, results, SourceInv,
         SourcesTellTheTruth, Past, Postprocess
<1>16. CASE StopProfile
  BY <1>16, <1>1
     DEF StopProfile, Goto, Caught, world, probes, results, SourceInv,
         SourcesTellTheTruth, Past, Postprocess
<1>17. CASE Unprofile
  BY <1>17, <1>1
     DEF Unprofile, Goto, world, probes, work, results, SourceInv,
         SourcesTellTheTruth, Past, Postprocess
<1>18. CASE CloseClient
  BY <1>18, <1>1
     DEF CloseClient, Goto, world, probes, work, results, SourceInv,
         SourcesTellTheTruth, Past, Postprocess
<1>19. CASE StopTelemetry
  BY <1>19, <1>1
     DEF StopTelemetry, Goto, world, work, results, SourceInv,
         SourcesTellTheTruth, Past, Postprocess
<1>20. CASE StopServer
  BY <1>20, <1>1
     DEF StopServer, Goto, StopOutcome, probes, work, results, SourceInv,
         SourcesTellTheTruth, Past, Postprocess
<1>21. CASE WriteOwned
  BY <1>21, <1>1
     DEF WriteOwned, Leave, Goto, world, probes, work, SourceInv,
         SourcesTellTheTruth, Past, Postprocess
<1>22. CASE CacheAfter
  BY <1>22, <1>1
     DEF CacheAfter, Goto, world, probes, work, results, SourceInv,
         SourcesTellTheTruth, Past, Postprocess
<1>23. CASE ShutdownIntegrity
  BY <1>23, <1>1
     DEF ShutdownIntegrity, Goto, world, probes, work, results, SourceInv,
         SourcesTellTheTruth, Past, Postprocess
<1>24. CASE GateAgain
  BY <1>24, <1>1
     DEF GateAgain, Lost, Goto, world, probes, work, results, SourceInv,
         SourcesTellTheTruth, Past, Postprocess
<1>25. CASE Merge
  BY <1>25, <1>1
     DEF Merge, Goto, Lost, world, probes, work, SourceInv,
         SourcesTellTheTruth, Past, Postprocess
<1>26. CASE WriteCollection
  BY <1>26, <1>1
     DEF WriteCollection, Goto, world, probes, work, SourceInv,
         SourcesTellTheTruth, Past, Postprocess
<1>27. CASE CreateCloseout
  BY <1>27, <1>1
     DEF CreateCloseout, Goto, world, probes, work, SourceInv,
         SourcesTellTheTruth, Past, Postprocess
<1>28. CASE DeriveProducts
  BY <1>28, <1>1
     DEF DeriveProducts, Goto, Lost, world, probes, work, SourceInv,
         SourcesTellTheTruth, Past, Postprocess
<1>29. CASE Finish
  BY <1>29, <1>1
     DEF Finish, Goto, world, probes, work, SourceInv, SourcesTellTheTruth,
         Past, Postprocess
<1>30. CASE Publish
  BY <1>30, <1>1
     DEF Publish, Leave, world, probes, work, Goto, SourceInv,
         SourcesTellTheTruth, Past, Postprocess
<1>31. CASE TruncateCollection
  BY <1>31, <1>1
     DEF TruncateCollection, Lost, world, probes, work, Goto, SourceInv,
         SourcesTellTheTruth, Past, Postprocess
<1>32. CASE ProfileMetadata
  BY <1>32
     DEF ProfileMetadata, Goto, Lost, SourceInv, SourcesTellTheTruth, Past,
         Postprocess, world, probes, work, results
<1>33. CASE WriteSources
  <2>1. manifest' = "succeeded" =>
            manifest = "succeeded" \/ (errors = {} /\ orderly /\ marked >= done)
    BY <1>33 DEF WriteSources, MarkersValid
  <2>2. errors = {} => done = Measured /\ Bracketed
    BY <1>33 DEF WriteSources, WorkInv, StopInv, Ended, Past, Postprocess
  <2>3. errors = {} /\ marked >= done => served = Measured /\ marked = Measured
    BY <1>1, <2>2 DEF WorkInv
  <2>4. /\ pc = "sources" /\ pc' \in {"merge", "finish"}
        /\ UNCHANGED <<served, marked, orderly, boundary, taps>>
    BY <1>33 DEF WriteSources, Goto, Lost, world, work, probes
  <2> QED
    BY <2>1, <2>2, <2>3, <2>4
       DEF SourceInv, SourcesTellTheTruth, Bracketed, Past, Postprocess
<1>34. CASE Fault
  BY <1>34, FaultStep
     DEF world, work, probes, results, SourceInv, SourcesTellTheTruth, Bare,
         Body, Past, Postprocess
<1>35. CASE Interrupt
  BY <1>35
     DEF Interrupt, Goto, Leave, world, work, probes, results, SourceInv,
         SourcesTellTheTruth, Bare, Body, Past, Postprocess
<1>36. CASE World
  <2>1. UNCHANGED <<pc, served, taps, work, manifest>>
    BY <1>36 DEF World
  <2>2. manifest = "succeeded" => UNCHANGED <<marked, orderly>>
    BY <1>36, WorldStep DEF TypeOK, SourceInv, SourcesTellTheTruth
  <2> QED BY <2>1, <2>2 DEF SourceInv, SourcesTellTheTruth, work
<1>37. CASE UNCHANGED vars
  BY <1>37 DEF vars, world, work, probes, results, SourceInv, SourcesTellTheTruth
<1> QED
  BY <1>2, <1>3, <1>4, <1>5, <1>6, <1>7, <1>8, <1>9, <1>10, <1>11, <1>12, <1>13,
     <1>14, <1>15, <1>16, <1>17, <1>18, <1>19, <1>20, <1>21, <1>22, <1>23,
     <1>24, <1>25, <1>26, <1>27, <1>28, <1>29, <1>30, <1>31, <1>32, <1>33,
     <1>34, <1>35, <1>36, <1>37
     DEF Next, Step

\* Where nothing went wrong and no descendant was missed, nobody lives.
LEMMA NobodyLives ==
    ASSUME StopInv, pc \in Past
    PROVE  /\ errors = {} => \A n \in Servers : Alive(n) => n \in Orphans
           /\ Quiet => \A n \in Servers : ~Alive(n)
BY DEF StopInv, AllStopped, Ended, Settled, Quiet, Unwinding, Body

\* The cache, the shutdown and the compile gate are looked at when nobody is
\* left to change what was seen.
LEMMA CleanInvStays == TypeOK /\ StopInv /\ CleanInv /\ [Next]_vars => CleanInv'
<1> SUFFICES ASSUME TypeOK, StopInv, CleanInv, [Next]_vars PROVE CleanInv'
  OBVIOUS
<1>1. errors \subseteq errors' /\ logs \subseteq {"compile", "fatal"}
  BY Recorded DEF TypeOK, WorldTypes
<1>2. CASE CacheAfter
  BY <1>2, <1>1
     DEF CacheAfter, Goto, world, CleanInv, Quiet, Orphans, Past, Postprocess
<1>3. CASE ShutdownIntegrity
  BY <1>3, <1>1
     DEF ShutdownIntegrity, Goto, world, CleanInv, Quiet, Orphans, Past,
         Postprocess
<1>4. CASE GateAgain
  BY <1>4, <1>1
     DEF GateAgain, Lost, Goto, world, CleanInv, Quiet, Orphans, Past,
         Postprocess
<1>5. CASE ProfileMetadata
  BY <1>5, <1>1
     DEF ProfileMetadata, Goto, Lost, world, CleanInv, Quiet, Orphans, Past,
         Postprocess
<1>6. CASE WriteSources
  BY <1>6, <1>1
     DEF WriteSources, Goto, Lost, world, CleanInv, Quiet, Orphans, Past,
         Postprocess
<1>7. CASE Merge
  BY <1>7, <1>1
     DEF Merge, Goto, Lost, world, CleanInv, Quiet, Orphans, Past, Postprocess
<1>8. CASE WriteCollection
  BY <1>8, <1>1
     DEF WriteCollection, Goto, world, CleanInv, Quiet, Orphans, Past,
         Postprocess
<1>9. CASE TruncateCollection
  BY <1>9, <1>1
     DEF TruncateCollection, Lost, world, Goto, CleanInv, Quiet, Orphans, Past,
         Postprocess
<1>10. CASE CreateCloseout
  BY <1>10, <1>1
     DEF CreateCloseout, Goto, world, CleanInv, Quiet, Orphans, Past,
         Postprocess
<1>11. CASE DeriveProducts
  BY <1>11, <1>1
     DEF DeriveProducts, Goto, Lost, world, CleanInv, Quiet, Orphans, Past,
         Postprocess
<1>12. CASE Finish
  BY <1>12, <1>1
     DEF Finish, Goto, world, CleanInv, Quiet, Orphans, Past, Postprocess
<1>13. CASE Publish
  BY <1>13, <1>1
     DEF Publish, Leave, world, Goto, CleanInv, Quiet, Orphans, Past,
         Postprocess
<1>14. CASE Preflight \/ Plan \/ Launch \/ Own \/ StartTelemetry \/ WaitHttp
  BY <1>14
     DEF Preflight, Goto, Leave, Plan, Launch, Caught, Own, StartTelemetry,
         WaitHttp, CleanInv, Past, Postprocess
<1>15. CASE CompileGate \/ Warmup \/ Baseline \/ StartProfile \/ Measure
            \/ FinalBoundary
  BY <1>15
     DEF CompileGate, Caught, Goto, Warmup, Baseline, StartProfile, Measure,
         FinalBoundary, CleanInv, Past, Postprocess
<1>16. CASE Drain \/ WaitMarkers \/ StopProfile \/ Unprofile
            \/ CloseClient \/ StopTelemetry
  BY <1>16
     DEF Drain, Goto, WaitMarkers, Caught, StopProfile, Unprofile, CloseClient,
         StopTelemetry, CleanInv, Past, Postprocess
<1>17. CASE StopServer \/ WriteOwned
  BY <1>17
     DEF StopServer, Goto, StopOutcome, WriteOwned, Leave, CleanInv, Past,
         Postprocess
<1>18. CASE Fault
  BY <1>1, <1>18, FaultStep
     DEF world, CleanInv, Quiet, Orphans, Body, Bare, Past, Postprocess
<1>19. CASE Interrupt
  BY <1>19
     DEF Interrupt, Goto, Leave, world, CleanInv, Quiet, Orphans, Body, Past,
         Postprocess
<1>20. CASE World
  <2>1. UNCHANGED <<pc, errors, shutdownBad>> /\ Orphans' = Orphans
    BY <1>20, WorldStep DEF World, TypeOK
  <2>2. pc \in Past /\ Quiet => UNCHANGED <<logs, cache>>
    BY <1>20, NobodyLives, WorldStep DEF TypeOK, Servers
  <2> QED BY <2>1, <2>2 DEF CleanInv, Quiet, Past
<1>21. CASE UNCHANGED vars
  BY <1>21 DEF vars, world, CleanInv, Quiet, Orphans
<1> QED
  BY <1>2, <1>3, <1>4, <1>5, <1>6, <1>7, <1>8, <1>9, <1>10, <1>11, <1>12, <1>13,
     <1>14, <1>15, <1>16, <1>17, <1>18, <1>19, <1>20, <1>21
     DEF Next, Step

\* The results are written once each, the second from what the first says.
LEMMA FileInvStays ==
    TypeOK /\ StopInv /\ WorkInv /\ CleanInv /\ FileInv /\ [Next]_vars => FileInv'
<1> SUFFICES ASSUME TypeOK, StopInv, WorkInv, CleanInv, FileInv, [Next]_vars
             PROVE  FileInv'
  OBVIOUS
<1>1. errors \subseteq errors'
  BY Recorded
<1>2. CASE WriteSources
  BY <1>2, <1>1
     DEF WriteSources, Evidence, Goto, Lost, FileInv, ResultsAgree, Verdict
<1>3. CASE Merge
  BY <1>3, <1>1
     DEF Merge, WorkInv, StopInv, Ended, Past, Postprocess, Evidence, Goto,
         Lost, FileInv, ResultsAgree, Verdict
<1>4. CASE WriteCollection
  BY <1>4, <1>1 DEF WriteCollection, Goto, FileInv, ResultsAgree, Verdict
<1>5. CASE TruncateCollection
  BY <1>5, <1>1
     DEF TruncateCollection, Lost, Goto, FileInv, ResultsAgree, Verdict
<1>6. CASE CreateCloseout
  BY <1>6, <1>1 DEF CreateCloseout, Goto, FileInv, ResultsAgree, Verdict
<1>7. CASE DeriveProducts
  BY <1>7, <1>1
     DEF DeriveProducts, Products, Evidence, Goto, Lost, FileInv, ResultsAgree,
         Verdict
<1>8. CASE Finish
  BY <1>8, <1>1 DEF Finish, Goto, FileInv, ResultsAgree, Verdict
<1>9. CASE Publish
  BY <1>9, <1>1 DEF Publish, Leave, Goto, FileInv, CleanInv, ResultsAgree, Verdict
<1>10. CASE Preflight
  BY <1>10, <1>1
     DEF Preflight, Goto, Leave, results, FileInv, ResultsAgree, Verdict
<1>11. CASE Plan
  BY <1>11, <1>1 DEF Plan, Goto, results, FileInv, ResultsAgree, Verdict
<1>12. CASE Launch
  BY <1>12, <1>1
     DEF Launch, Goto, Caught, results, FileInv, ResultsAgree, Verdict
<1>13. CASE Own
  BY <1>13, <1>1 DEF Own, Goto, results, FileInv, ResultsAgree, Verdict
<1>14. CASE StartTelemetry
  BY <1>14, <1>1
     DEF StartTelemetry, Goto, Caught, results, FileInv, ResultsAgree, Verdict
<1>15. CASE WaitHttp
  BY <1>15, <1>1
     DEF WaitHttp, Goto, Caught, results, FileInv, ResultsAgree, Verdict
<1>16. CASE CompileGate
  BY <1>16, <1>1
     DEF CompileGate, Caught, Goto, results, FileInv, ResultsAgree, Verdict
<1>17. CASE Warmup
  BY <1>17, <1>1
     DEF Warmup, Goto, Caught, results, FileInv, ResultsAgree, Verdict
<1>18. CASE Baseline
  BY <1>18, <1>1
     DEF Baseline, Goto, Caught, results, FileInv, ResultsAgree, Verdict
<1>19. CASE StartProfile
  BY <1>19, <1>1
     DEF StartProfile, Goto, Caught, results, FileInv, ResultsAgree, Verdict
<1>20. CASE Measure
  BY <1>20, <1>1
     DEF Measure, Goto, Caught, results, FileInv, ResultsAgree, Verdict
<1>21. CASE FinalBoundary
  BY <1>21, <1>1
     DEF FinalBoundary, Goto, results, FileInv, ResultsAgree, Verdict
<1>22. CASE Drain
  BY <1>22, <1>1 DEF Drain, Goto, results, FileInv, ResultsAgree, Verdict
<1>23. CASE WaitMarkers
  BY <1>23, <1>1
     DEF WaitMarkers, Goto, Caught, results, FileInv, ResultsAgree, Verdict
<1>24. CASE StopProfile
  BY <1>24, <1>1
     DEF StopProfile, Goto, Caught, results, FileInv, ResultsAgree, Verdict
<1>25. CASE Unprofile
  BY <1>25, <1>1 DEF Unprofile, Goto, results, FileInv, ResultsAgree, Verdict
<1>26. CASE CloseClient
  BY <1>26, <1>1 DEF CloseClient, Goto, results, FileInv, ResultsAgree, Verdict
<1>27. CASE StopTelemetry
  BY <1>27, <1>1
     DEF StopTelemetry, Goto, results, FileInv, ResultsAgree, Verdict
<1>28. CASE StopServer
  BY <1>28, <1>1
     DEF StopServer, Goto, StopOutcome, results, FileInv, ResultsAgree, Verdict
<1>29. CASE WriteOwned
  BY <1>29, <1>1 DEF WriteOwned, Leave, Goto, FileInv, ResultsAgree, Verdict
<1>30. CASE CacheAfter
  BY <1>30, <1>1 DEF CacheAfter, Goto, results, FileInv, ResultsAgree, Verdict
<1>31. CASE ShutdownIntegrity
  BY <1>31, <1>1
     DEF ShutdownIntegrity, Goto, results, FileInv, ResultsAgree, Verdict
<1>32. CASE GateAgain
  BY <1>32, <1>1
     DEF GateAgain, Lost, Goto, results, FileInv, ResultsAgree, Verdict
<1>33. CASE ProfileMetadata
  BY <1>33, <1>1
     DEF ProfileMetadata, Goto, Lost, results, FileInv, ResultsAgree, Verdict
<1>34. CASE Fault
  BY <1>1, <1>34, FaultStep
     DEF results, FileInv, ResultsAgree, Verdict, Body, Bare, Postprocess
<1>35. CASE Interrupt
  BY <1>35 DEF Interrupt, Goto, Leave, results, FileInv, ResultsAgree, Verdict, Body
<1>36. CASE World
  BY <1>36 DEF World, FileInv, ResultsAgree, Verdict
<1>37. CASE UNCHANGED vars
  BY <1>37 DEF vars, results, FileInv, ResultsAgree, Verdict
<1> QED
  BY <1>2, <1>3, <1>4, <1>5, <1>6, <1>7, <1>8, <1>9, <1>10, <1>11, <1>12, <1>13,
     <1>14, <1>15, <1>16, <1>17, <1>18, <1>19, <1>20, <1>21, <1>22, <1>23,
     <1>24, <1>25, <1>26, <1>27, <1>28, <1>29, <1>30, <1>31, <1>32, <1>33,
     <1>34, <1>35, <1>36, <1>37
     DEF Next, Step

\* After the closeout only the derived products and a log line of a missed
\* descendant are written.
LEMMA SealInvStays ==
    TypeOK /\ StopInv /\ CleanInv /\ FileInv /\ SealInv /\ [Next]_vars => SealInv'
<1> SUFFICES ASSUME TypeOK, StopInv, CleanInv, FileInv, SealInv, [Next]_vars
             PROVE  SealInv'
  OBVIOUS
<1>1. seal \in {"absent", "intact", "broken"}
  BY DEF TypeOK, ResultTypes
<1>2. CASE Preflight
  BY <1>2, <1>1
     DEF Preflight, Goto, Leave, world, results, SealInv, SealHolds,
         SuccessIsClean, Orphans, Alive
<1>3. CASE Plan
  BY <1>3, <1>1
     DEF Plan, Goto, world, results, SealInv, SealHolds, SuccessIsClean,
         Orphans, Alive
<1>4. CASE Launch
  BY <1>4, <1>1
     DEF Launch, Goto, Caught, results, SealInv, SealHolds, SuccessIsClean,
         Orphans, Alive
<1>5. CASE Own
  BY <1>5, <1>1
     DEF Own, Goto, world, results, SealInv, SealHolds, SuccessIsClean,
         Orphans, Alive
<1>6. CASE StartTelemetry
  BY <1>6, <1>1
     DEF StartTelemetry, Goto, Caught, world, results, SealInv, SealHolds,
         SuccessIsClean, Orphans, Alive
<1>7. CASE WaitHttp
  BY <1>7, <1>1
     DEF WaitHttp, Goto, Caught, world, results, SealInv, SealHolds,
         SuccessIsClean, Orphans, Alive
<1>8. CASE CompileGate
  BY <1>8, <1>1
     DEF CompileGate, Caught, Goto, world, results, SealInv, SealHolds,
         SuccessIsClean, Orphans, Alive
<1>9. CASE Warmup
  BY <1>9, <1>1
     DEF Warmup, Goto, Caught, world, results, SealInv, SealHolds,
         SuccessIsClean, Orphans, Alive
<1>10. CASE Baseline
  BY <1>10, <1>1
     DEF Baseline, Goto, Caught, world, results, SealInv, SealHolds,
         SuccessIsClean, Orphans, Alive
<1>11. CASE StartProfile
  BY <1>11, <1>1
     DEF StartProfile, Goto, Caught, world, results, SealInv, SealHolds,
         SuccessIsClean, Orphans, Alive
<1>12. CASE Measure
  BY <1>12, <1>1
     DEF Measure, Goto, Caught, results, SealInv, SealHolds, SuccessIsClean,
         Orphans, Alive
<1>13. CASE FinalBoundary
  BY <1>13, <1>1
     DEF FinalBoundary, Goto, world, results, SealInv, SealHolds,
         SuccessIsClean, Orphans, Alive
<1>14. CASE Drain
  BY <1>14, <1>1
     DEF Drain, Goto, world, results, SealInv, SealHolds, SuccessIsClean,
         Orphans, Alive
<1>15. CASE WaitMarkers
  BY <1>15, <1>1
     DEF WaitMarkers, Goto, Caught, world, results, SealInv, SealHolds,
         SuccessIsClean, Orphans, Alive
<1>16. CASE StopProfile
  BY <1>16, <1>1
     DEF StopProfile, Goto, Caught, world, results, SealInv, SealHolds,
         SuccessIsClean, Orphans, Alive
<1>17. CASE Unprofile
  BY <1>17, <1>1
     DEF Unprofile, Goto, world, results, SealInv, SealHolds, SuccessIsClean,
         Orphans, Alive
<1>18. CASE CloseClient
  BY <1>18, <1>1
     DEF CloseClient, Goto, world, results, SealInv, SealHolds, SuccessIsClean,
         Orphans, Alive
<1>19. CASE StopTelemetry
  BY <1>19, <1>1
     DEF StopTelemetry, Goto, world, results, SealInv, SealHolds,
         SuccessIsClean, Orphans, Alive
<1>20. CASE StopServer
  BY <1>20, <1>1
     DEF StopServer, Goto, StopOutcome, results, SealInv, SealHolds,
         SuccessIsClean, Orphans, Alive
<1>21. CASE WriteOwned
  BY <1>21, <1>1
     DEF WriteOwned, Leave, Goto, world, SealInv, SealHolds, SuccessIsClean,
         Orphans, Alive
<1>22. CASE CacheAfter
  BY <1>22, <1>1
     DEF CacheAfter, Goto, world, results, SealInv, SealHolds, SuccessIsClean,
         Orphans, Alive
<1>23. CASE ShutdownIntegrity
  BY <1>23, <1>1
     DEF ShutdownIntegrity, Goto, world, results, SealInv, SealHolds,
         SuccessIsClean, Orphans, Alive
<1>24. CASE GateAgain
  BY <1>24, <1>1
     DEF GateAgain, Lost, Goto, world, results, SealInv, SealHolds,
         SuccessIsClean, Orphans, Alive
<1>25. CASE ProfileMetadata
  BY <1>25, <1>1
     DEF ProfileMetadata, Goto, Lost, world, results, SealInv, SealHolds,
         SuccessIsClean, Orphans, Alive
<1>26. CASE WriteSources
  BY <1>26, <1>1
     DEF WriteSources, Goto, Lost, world, SealInv, SealHolds, SuccessIsClean,
         Orphans, Alive
<1>27. CASE Merge
  BY <1>27, <1>1
     DEF Merge, Goto, Lost, world, SealInv, SealHolds, SuccessIsClean, Orphans,
         Alive
<1>28. CASE WriteCollection
  BY <1>28, <1>1
     DEF WriteCollection, Goto, world, SealInv, SealHolds, SuccessIsClean,
         Orphans, Alive
<1>29. CASE TruncateCollection
  BY <1>29, <1>1
     DEF TruncateCollection, Lost, world, Goto, SealInv, SealHolds,
         SuccessIsClean, Orphans, Alive
<1>30. CASE CreateCloseout
  <2>1. errors = {} /\ collection # "none" /\ pc \in Past
    BY <1>30, <1>1 DEF CreateCloseout, FileInv, Verdict, Past, Postprocess
  <2>2. \A n \in Servers : Alive(n) => n \in Orphans
    BY <2>1, NobodyLives
  <2> QED
    BY <1>30, <2>1, <2>2
       DEF CreateCloseout, Goto, world, SealInv, SealHolds, SuccessIsClean,
           FileInv, Orphans, Alive
<1>31. CASE DeriveProducts
  BY <1>31
     DEF DeriveProducts, Goto, Lost, world, SealInv, SealHolds, SuccessIsClean,
         Orphans, Alive
<1>32. CASE Finish
  BY <1>32
     DEF Finish, Goto, world, SealInv, SealHolds, SuccessIsClean, Orphans, Alive
<1>33. CASE Publish
  <2>1. pc = "publish" /\ UNCHANGED <<server, logs, cache, files, collection, seal>>
    BY <1>33 DEF Publish, world
  <2>2. SealHolds'
    BY <2>1 DEF SealInv, SealHolds, Orphans
  <2>3. final' = "succeeded" => errors = {} /\ pc' = "done"
    BY <1>33 DEF Publish, Leave, Goto
  <2>4. pc \in Past
    BY <2>1 DEF Past
  <2>5. errors = {} => Evidence \cup Products \subseteq files
    BY <2>1 DEF FileInv
  <2>6. SuccessIsClean'
    <3> SUFFICES ASSUME errors = {}
                 PROVE  /\ Evidence \cup Products \subseteq files'
                        /\ \A n \in Servers : Alive(n)' => n \in Orphans'
                        /\ Orphans' = {} => logs' = {} /\ cache'
      BY <2>3 DEF SuccessIsClean
    <3>1. \A n \in Servers : Alive(n) => n \in Orphans
      BY <2>4, NobodyLives
    <3>2. \A n \in Servers : Alive(n)' => n \in Orphans'
      BY <2>1, <3>1 DEF Alive, Orphans
    <3>3. Orphans' = Orphans
      BY <2>1 DEF Orphans
    <3>4. Orphans = {} => logs = {}
      BY <2>1, <2>4 DEF CleanInv, Quiet, Past, Postprocess, TypeOK, WorldTypes
    <3>5. Orphans = {} => cache
      BY <2>1, <2>4 DEF CleanInv, Quiet, Past, Postprocess
    <3>6. cache' <=> cache
      BY <2>1
    <3> QED BY <2>1, <2>5, <3>2, <3>3, <3>4, <3>5, <3>6
  <2>7. pc' = "done"
    BY <1>33 DEF Publish, Leave, Goto
  <2> QED BY <2>1, <2>2, <2>6, <2>7 DEF SealInv, Orphans, Alive
<1>34. CASE Fault
  BY <1>34, FaultStep
     DEF results, world, SealInv, SealHolds, SuccessIsClean, Orphans, Alive,
         Body, Bare, Postprocess
<1>35. CASE Interrupt
  BY <1>35
     DEF Interrupt, Goto, Leave, results, world, SealInv, SealHolds,
         SuccessIsClean, Orphans, Alive, Body
<1>36. CASE World
  <2>1. UNCHANGED <<pc, files, collection, final>> /\ Orphans' = Orphans
    BY <1>36, WorldStep DEF World, TypeOK
  <2>2. \A n \in Servers : Alive(n)' => Alive(n)
    BY <1>36, WorldStep DEF TypeOK
  <2>3. seal' = seal \/ (seal = "intact" /\ seal' = "broken" /\ \E n \in Servers : Alive(n))
    BY <1>36, WorldStep DEF TypeOK
  <2>4. logs' # logs => \E n \in Servers : Alive(n)
    BY <1>36, WorldStep DEF TypeOK
  <2>5. pc = "done" => cache' = cache
    BY <1>36, WorldStep DEF TypeOK
  <2>6. SealHolds'
    BY <2>1, <2>3 DEF SealInv, SealHolds
  <2>7. SuccessIsClean'
    BY <2>1, <2>2, <2>4, <2>5 DEF SealInv, SuccessIsClean
  <2> QED BY <2>1, <2>2, <2>3, <2>6, <2>7 DEF SealInv
<1>37. CASE UNCHANGED vars
  BY <1>37
     DEF vars, world, results, SealInv, SealHolds, SuccessIsClean, Orphans,
         Alive
<1> QED
  BY <1>2, <1>3, <1>4, <1>5, <1>6, <1>7, <1>8, <1>9, <1>10, <1>11, <1>12, <1>13,
     <1>14, <1>15, <1>16, <1>17, <1>18, <1>19, <1>20, <1>21, <1>22, <1>23,
     <1>24, <1>25, <1>26, <1>27, <1>28, <1>29, <1>30, <1>31, <1>32, <1>33,
     <1>34, <1>35, <1>36, <1>37
     DEF Next, Step

-----------------------------------------------------------------------------
(* The invariant and what follows from it                                  *)

\* A run begins with nothing started and nothing written.
LEMMA InitInv == Init => Inv
<1> SUFFICES ASSUME Init PROVE Inv
  OBVIOUS
<1> USE HybridRunAssumption DEF Init
<1>1. TypeOK
  <2>1. WorldTypes
    BY DEF WorldTypes
  <2>2. ControlTypes
    <3>1. pc \in Steps
      BY DEF Steps
    <3>2. /\ at \in 0 .. 3 /\ errors \subseteq Kinds /\ hits \subseteq Steps
          /\ exit \in {"none", "returned", "raised", "interrupted"}
      OBVIOUS
    <3>3. shutdownBad \in BOOLEAN
      OBVIOUS
    <3> QED BY <3>1, <3>2, <3>3 DEF ControlTypes
  <2>3. HoldTypes
    <3>1. client \in BOOLEAN /\ active \in BOOLEAN /\ unstopped \in BOOLEAN
      OBVIOUS
    <3>2. telFailed \in BOOLEAN /\ boundary \in BOOLEAN
      OBVIOUS
    <3>3. /\ owned \in 0 .. 3 /\ tried \subseteq Servers
          /\ tel \in {"off", "on", "stopped"} /\ taps \subseteq {"baseline", "final"}
          /\ warm \in 0 .. Warmups /\ done \in 0 .. Measured
      OBVIOUS
    <3> QED BY <3>1, <3>2, <3>3 DEF HoldTypes
  <2>4. ResultTypes
    BY DEF ResultTypes, Status
  <2> QED BY <2>1, <2>2, <2>3, <2>4 DEF TypeOK
<1>2. Launching
  BY DEF Launching
<1>3. Unlaunched
  BY OrderIs DEF Unlaunched
<1>4. StopInv
  BY DEF StopInv, Stopping, AllStopped, Ended, NothingOwnedSurvives, Past,
     Postprocess
<1>5. WorkInv /\ SourceInv
  BY DEF WorkInv, SourceInv, SourcesTellTheTruth, Past, Finally, Postprocess
<1>6. CleanInv
  BY DEF CleanInv, Past, Postprocess
<1>7. FileInv
  BY DEF FileInv, ResultsAgree
<1>8. SealInv
  BY DEF SealInv, SealHolds, SuccessIsClean
<1> QED BY <1>1, <1>2, <1>3, <1>4, <1>5, <1>6, <1>7, <1>8 DEF Inv

\* The whole invariant holds of every run.
LEMMA InvHolds == Spec => []Inv
<1>1. Inv /\ [Next]_vars => Inv'
  <2> SUFFICES ASSUME Inv, [Next]_vars PROVE Inv'
    OBVIOUS
  <2> USE DEF Inv
  <2>1. WorldTypes'
    BY WorldTypesStay DEF TypeOK, WorkInv
  <2>2. TypeOK'
    BY <2>1, ControlTypesStay, HoldTypesStay, ResultTypesStay DEF TypeOK
  <2>3. Launching' /\ Unlaunched' /\ StopInv'
    BY LaunchingStays, UnlaunchedStays, StopInvStays
  <2>4. WorkInv' /\ SourceInv' /\ CleanInv'
    BY WorkInvStays, SourceInvStays, CleanInvStays
  <2>5. FileInv' /\ SealInv'
    BY FileInvStays, SealInvStays
  <2> QED BY <2>2, <2>3, <2>4, <2>5
<1> QED BY InitInv, <1>1, PTL DEF Spec

\* The variables keep their types.
THEOREM TypeCorrect == Spec => []TypeOK
<1>1. Inv => TypeOK
  BY DEF Inv
<1> QED BY <1>1, InvHolds, PTL

\* A run that has ended, however it ended, leaves no server of its own alive,
\* but for the exceptions that NothingOwnedSurvives names.
THEOREM NothingSurvives == Spec => []NothingOwnedSurvives
<1>1. Inv => NothingOwnedSurvives
  BY DEF Inv, StopInv
<1> QED BY <1>1, InvHolds, PTL

\* A source manifest that says succeeded stands for every measured request,
\* with its markers, its profiler boundary and both telemetry boundaries.
THEOREM SourcesAreTrue == Spec => []SourcesTellTheTruth
<1>1. Inv => SourcesTellTheTruth
  BY DEF Inv, SourceInv
<1> QED BY <1>1, InvHolds, PTL

\* A successful run has all its products; its servers are down and clean.
THEOREM SuccessIsCleanHolds == Spec => []SuccessIsClean
<1>1. Inv => SuccessIsClean
  BY DEF Inv, SealInv
<1> QED BY <1>1, InvHolds, PTL

\* collection_result.json and final_result.json never contradict each other.
THEOREM ResultsAlwaysAgree == Spec => []ResultsAgree
<1>1. Inv => ResultsAgree
  BY DEF Inv, FileInv
<1> QED BY <1>1, InvHolds, PTL

\* What a closeout has sealed changes only through a missed descendant.
THEOREM SealAlwaysHolds == Spec => []SealHolds
<1>1. Inv => SealHolds
  BY DEF Inv, SealInv
<1> QED BY <1>1, InvHolds, PTL
=============================================================================
