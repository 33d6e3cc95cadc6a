----------------------------- MODULE Telemetry -----------------------------
(***************************************************************************)
(* collectors/telemetry.py and the _Telemetry coordinator of               *)
(* hybrid/runner.py: one polling thread per device (gpu, npu, system), and *)
(* a coordinator that asks all of them for a baseline sample before the    *)
(* measured requests and for a final one after them, each with a timeout,  *)
(* and stops them.                                                         *)
(*                                                                         *)
(* A poll is three steps of a thread: take the pending ticket under the    *)
(* lock, call the collector without it, publish the result under the lock. *)
(* Everything else may happen in between.                                  *)
(***************************************************************************)
EXTENDS Naturals, FiniteSets

CONSTANTS
    Devices,   \* number of workers, in the order of _Telemetry.workers
    MaxPolls,  \* bound on the background polls of a worker
    NoTicket   \* None

Workers == 1 .. Devices
Boundary == {"baseline", "final"}
Ticket == [role : Boundary, generation : Nat]
Kinds == {"records", "empty", "error"}

\* One finished poll: its role, its sequence number, what it returned, and the
\* ticket it answers.
Reading == [role : Boundary \cup {"background"}, seq : Nat, kind : Kinds,
            ticket : Ticket \cup {NoTicket}]

\* What _Telemetry.errors says: which worker failed, and in which way.
TelErrors == {"poll", "thread", "close"} \X Workers

ASSUME TelemetryAssumption ==
    /\ Devices \in Nat \ {0} /\ MaxPolls \in Nat
    /\ NoTicket \notin Ticket

VARIABLES
    poller,      \* unstarted, idle, taken, polling, refused or exited
    stopping, failed, complete,  \* flags (complete is sampling_complete)
    generation,  \* polls finished
    pending, active,    \* pending_ticket and active_boundary_ticket
    completed,   \* completed_boundaries: answers nobody has collected yet
    log,         \* history: every poll that was published
    coll,        \* state of the collectors, running until they are closed
    telErrors,   \* _Telemetry.errors
    phase, turn, \* step of the coordinator, and the worker it is at
    role,        \* the boundary being captured
    ticket,      \* its tickets
    readings,    \* the samples its waits returned
    boundaries,  \* the roles stored in _Telemetry.boundaries
    runErrors,   \* errors of HybridRunner.run
    late         \* history: workers that published after telemetry stopped

workerVars == <<poller, stopping, failed, complete, generation, pending,
                active, completed, log, late>>
captureVars == <<role, ticket, readings, boundaries>>
telemetryVars == <<workerVars, coll, telErrors, phase, turn, captureVars, runErrors>>

TelemetryTypeOK ==
    /\ poller \in [Workers -> {"unstarted", "idle", "taken", "polling",
                               "refused", "exited"}]
    /\ stopping \in [Workers -> BOOLEAN]
    /\ failed \in [Workers -> BOOLEAN]
    /\ complete \in [Workers -> BOOLEAN]
    /\ generation \in [Workers -> Nat]
    /\ pending \in [Workers -> Ticket \cup {NoTicket}]
    /\ active \in [Workers -> Ticket \cup {NoTicket}]
    /\ completed \in [Workers -> SUBSET Reading]
    /\ log \in [Workers -> SUBSET Reading]
    /\ coll \in [Workers -> {"running", "stopped", "failed"}]
    /\ telErrors \subseteq TelErrors
    /\ phase \in {"start", "ready", "request", "wait", "measuring", "stop",
               "join", "close", "settle", "done"}
    /\ turn \in 1 .. Devices + 1
    /\ phase \in {"start", "request", "stop", "join"} => turn <= Devices
    /\ role \in Boundary
    /\ ticket \in [Workers -> Ticket \cup {NoTicket}]
    /\ readings \in [Boundary -> [Workers -> Reading \cup {NoTicket}]]
    /\ boundaries \subseteq Boundary
    /\ runErrors \subseteq {<<"run", 0>>} \cup TelErrors
    /\ late \subseteq Workers

TelemetryInit ==
    /\ poller = [w \in Workers |-> "unstarted"]
    /\ stopping = [w \in Workers |-> FALSE]
    /\ failed = [w \in Workers |-> FALSE]
    /\ complete = [w \in Workers |-> FALSE]
    /\ generation = [w \in Workers |-> 0]
    /\ pending = [w \in Workers |-> NoTicket]
    /\ active = [w \in Workers |-> NoTicket]
    /\ completed = [w \in Workers |-> {}]
    /\ log = [w \in Workers |-> {}]
    /\ coll = [w \in Workers |-> "running"]
    /\ telErrors = {}
    /\ phase = "start" /\ turn = 1 /\ role = "baseline"
    /\ ticket = [w \in Workers |-> NoTicket]
    /\ readings = [r \in Boundary |-> [w \in Workers |-> NoTicket]]
    /\ boundaries = {} /\ runErrors = {} /\ late = {}

-----------------------------------------------------------------------------
(* The polling thread, TelemetryWorker._run                                *)

\* Top of the loop, under the lock: take the pending ticket, or poll because
\* the interval has elapsed.
Begin(w) ==
    /\ poller[w] = "idle" /\ ~stopping[w]
    /\ pending[w] # NoTicket \/ generation[w] < MaxPolls \/ coll[w] # "running"
    /\ active' = [active EXCEPT ![w] = pending[w]]
    /\ pending' = [pending EXCEPT ![w] = NoTicket]
    /\ poller' = [poller EXCEPT ![w] = "taken"]
    /\ UNCHANGED <<stopping, failed, complete, generation, completed, log, late,
                   coll, telErrors, phase, turn, captureVars, runErrors>>

\* BaseCollector.sample refuses unless the collector is running.
Query(w) ==
    /\ poller[w] = "taken"
    /\ poller' = [poller EXCEPT ![w] =
                    IF coll[w] = "running" THEN "polling" ELSE "refused"]
    /\ UNCHANGED <<stopping, failed, complete, generation, pending, active,
                   completed, log, late, coll, telErrors, phase, turn, captureVars,
                   runErrors>>

\* The ticket the poll answers: one requested while it ran comes first.
Answers(w) == IF pending[w] # NoTicket THEN pending[w] ELSE active[w]

\* Mutant: a ticket that arrives during the poll is cleared, not answered.
OutcomeOfActive(w, kind) ==
    LET t == active[w]
    IN  [role |-> IF t = NoTicket THEN "background" ELSE t.role,
         seq |-> generation[w] + 1, kind |-> kind, ticket |-> t]

Outcome(w, kind) ==
    LET t == Answers(w)
    IN  [role |-> IF t = NoTicket THEN "background" ELSE t.role,
         seq |-> generation[w] + 1, kind |-> kind, ticket |-> t]

\* The poll is over: publish its result under the lock; after an error or a
\* final sample the thread ends.
Publish(w, kind) ==
    LET s == Outcome(w, kind)
    IN  /\ pending' = [pending EXCEPT ![w] = NoTicket]
        /\ active' = [active EXCEPT ![w] = NoTicket]
        /\ generation' = [generation EXCEPT ![w] = s.seq]
        /\ log' = [log EXCEPT ![w] = @ \cup {s}]
        /\ completed' = [completed EXCEPT ![w] =
                           IF s.ticket = NoTicket THEN @ ELSE @ \cup {s}]
        /\ complete' = [complete EXCEPT ![w] = @ \/ s.role = "final"]
        /\ failed' = [failed EXCEPT ![w] = @ \/ kind = "error"]
        /\ telErrors' = IF kind = "error" THEN telErrors \cup {<<"poll", w>>}
                                          ELSE telErrors
        /\ poller' = [poller EXCEPT ![w] =
                        IF kind = "error" \/ complete'[w] THEN "exited" ELSE "idle"]
        /\ late' = IF phase = "done" THEN late \cup {w} ELSE late

\* An exception of a running collector also marks the collector failed.
PollEnds(w) ==
    /\ poller[w] = "polling"
    /\ \E kind \in Kinds :
         /\ Publish(w, kind)
         /\ coll' = IF kind = "error" THEN [coll EXCEPT ![w] = "failed"] ELSE coll
    /\ UNCHANGED <<stopping, phase, turn, captureVars, runErrors>>

Refused(w) ==
    /\ poller[w] = "refused" /\ Publish(w, "error")
    /\ UNCHANGED <<stopping, coll, phase, turn, captureVars, runErrors>>

\* Only the top of the loop looks at the stopping flag.
Exit(w) ==
    /\ poller[w] = "idle" /\ stopping[w]
    /\ poller' = [poller EXCEPT ![w] = "exited"]
    /\ UNCHANGED <<stopping, failed, complete, generation, pending, active,
                   completed, log, late, coll, telErrors, phase, turn, captureVars,
                   runErrors>>

-----------------------------------------------------------------------------
(* The coordinator: _Telemetry, in the order HybridRunner.run calls it     *)

Proceed(next, i) == phase' = next /\ turn' = i

\* start: one thread after the other...
StartThread ==
    /\ phase = "start" /\ turn <= Devices
    /\ poller' = [poller EXCEPT ![turn] = "idle"]
    /\ (IF turn = Devices THEN Proceed("ready", 1) ELSE Proceed("start", turn + 1))
    /\ UNCHANGED <<stopping, failed, complete, generation, pending, active,
                   completed, log, late, coll, telErrors, captureVars, runErrors>>

\* ... and if one cannot be started, workers_started stays FALSE, so that stop
\* closes the collectors without stopping the threads that run already.
StartThreadRaises ==
    /\ phase = "start" /\ Proceed("close", 1)
    /\ runErrors' = runErrors \cup {<<"run", 0>>}
    /\ UNCHANGED <<workerVars, coll, telErrors, captureVars>>

\* Anything else of the run fails before or after the baseline.
RunFails ==
    /\ phase \in {"ready", "measuring"} /\ Proceed("stop", 1)
    /\ runErrors' = runErrors \cup {<<"run", 0>>}
    /\ UNCHANGED <<workerVars, coll, telErrors, captureVars>>

Capture ==
    /\ \/ phase = "ready" /\ role' = "baseline"
       \/ phase = "measuring" /\ role' = "final"
    /\ Proceed("request", 1)
    /\ ticket' = [w \in Workers |-> NoTicket]
    /\ UNCHANGED <<workerVars, coll, telErrors, readings, boundaries, runErrors>>

\* A baseline that fails raises out of the run; a final one is recorded. Both
\* lead to stop, and neither touches the tickets still out.
CaptureFails ==
    /\ Proceed("stop", 1)
    /\ runErrors' = runErrors \cup {<<"run", 0>>}
    /\ UNCHANGED <<role, ticket, boundaries>>

\* TelemetryWorker.request
Refuses(w) == \/ stopping[w] \/ failed[w] \/ complete[w]
              \/ pending[w] # NoTicket \/ active[w] # NoTicket

Request ==
    /\ phase = "request" /\ ~Refuses(turn)
    /\ LET t == [role |-> role, generation |-> generation[turn]]
       IN  /\ pending' = [pending EXCEPT ![turn] = t]
           /\ ticket' = [ticket EXCEPT ![turn] = t]
    /\ (IF turn = Devices THEN Proceed("wait", 1) ELSE Proceed("request", turn + 1))
    /\ UNCHANGED <<poller, stopping, failed, complete, generation, active,
                   completed, log, late, coll, telErrors, role, readings,
                   boundaries, runErrors>>

RequestRaises ==
    /\ phase = "request" /\ Refuses(turn)
    /\ CaptureFails /\ UNCHANGED <<workerVars, coll, telErrors, readings>>

Answered(w) == {s \in completed[w] : s.ticket = ticket[w]}

\* Mutant: an empty boundary sample is accepted.
StoreEmpty ==
    /\ phase = "wait" /\ turn = Devices + 1
    /\ boundaries' = boundaries \cup {role}
    /\ Proceed(IF role = "baseline" THEN "measuring" ELSE "stop", 1)
    /\ UNCHANGED <<workerVars, coll, telErrors, role, ticket, readings, runErrors>>

\* Every wait has returned: the boundary is stored unless a sample is empty.
Store ==
    /\ phase = "wait" /\ turn = Devices + 1
    /\ \A w \in Workers : readings[role][w].kind # "empty"
    /\ boundaries' = boundaries \cup {role}
    /\ Proceed(IF role = "baseline" THEN "measuring" ELSE "stop", 1)
    /\ UNCHANGED <<workerVars, coll, telErrors, role, ticket, readings, runErrors>>

StoreRaises ==
    /\ phase = "wait" /\ turn = Devices + 1
    /\ \E w \in Workers : readings[role][w].kind = "empty"
    /\ CaptureFails /\ UNCHANGED <<workerVars, coll, telErrors, readings>>

\* TelemetryWorker.wait collects the answer to its ticket; an answer that is
\* an error raises.
Await ==
    /\ phase = "wait" /\ turn <= Devices
    /\ \E s \in Answered(turn) :
         /\ completed' = [completed EXCEPT ![turn] = @ \ {s}]
         /\ IF s.kind = "error"
            THEN CaptureFails /\ UNCHANGED readings
            ELSE /\ readings' = [readings EXCEPT ![role][turn] = s]
                 /\ Proceed("wait", turn + 1)
                 /\ UNCHANGED <<role, ticket, boundaries, runErrors>>
    /\ UNCHANGED <<poller, stopping, failed, complete, generation, pending,
                   active, log, late, coll, telErrors>>

\* Mutant: no timeout.
WaitRaisesOnFailure ==
    /\ phase = "wait" /\ turn <= Devices /\ Answered(turn) = {} /\ failed[turn]
    /\ CaptureFails /\ UNCHANGED <<workerVars, coll, telErrors, readings>>

\* It raises when the worker has failed, and when the timeout has elapsed.
WaitRaises ==
    /\ phase = "wait" /\ turn <= Devices /\ Answered(turn) = {}
    /\ CaptureFails /\ UNCHANGED <<workerVars, coll, telErrors, readings>>

\* TelemetryWorker.stop, one worker after the other
StopWorker ==
    /\ phase = "stop"
    /\ stopping' = [stopping EXCEPT ![turn] = TRUE]
    /\ Proceed("join", turn)
    /\ UNCHANGED <<poller, failed, complete, generation, pending, active,
                   completed, log, late, coll, telErrors, captureVars, runErrors>>

Joined == IF turn = Devices THEN Proceed("close", 1) ELSE Proceed("stop", turn + 1)

Join ==
    /\ phase = "join" /\ poller[turn] = "exited" /\ Joined
    /\ UNCHANGED <<workerVars, coll, telErrors, captureVars, runErrors>>

JoinTimesOut ==
    /\ phase = "join" /\ poller[turn] # "exited" /\ Joined
    /\ telErrors' = telErrors \cup {<<"thread", turn>>}
    /\ UNCHANGED <<workerVars, coll, captureVars, runErrors>>

\* Mutant: the collectors are not closed.
CloseNothing ==
    /\ phase = "close" /\ Proceed("settle", 1)
    /\ UNCHANGED <<workerVars, coll, telErrors, captureVars, runErrors>>

\* CollectorGroup.close: stop and finalize every collector; one that raises
\* is recorded and the others are still closed.
Close ==
    /\ phase = "close"
    /\ \E bad \in SUBSET Workers :
         /\ coll' = [w \in Workers |-> IF w \in bad \/ coll[w] = "failed"
                                       THEN "failed" ELSE "stopped"]
         /\ telErrors' = telErrors \cup ({"close"} \X bad)
    /\ Proceed("settle", 1)
    /\ UNCHANGED <<workerVars, captureVars, runErrors>>

\* errors.extend(telemetry.errors), once, in the `finally` of the run
Settle ==
    /\ phase = "settle" /\ Proceed("done", 1)
    /\ runErrors' = runErrors \cup telErrors
    /\ UNCHANGED <<workerVars, coll, telErrors, captureVars>>

-----------------------------------------------------------------------------

Worker(w) == Begin(w) \/ Query(w) \/ PollEnds(w) \/ Refused(w) \/ Exit(w)

Coordinator ==
    \/ StartThread \/ StartThreadRaises \/ RunFails
    \/ Capture \/ Request \/ RequestRaises
    \/ Await \/ WaitRaises \/ Store \/ StoreRaises
    \/ StopWorker \/ Join \/ JoinTimesOut \/ Close \/ Settle

TelemetryNext == Coordinator \/ \E w \in Workers : Worker(w)

\* The coordinator's timeouts elapse and a thread that is not inside its
\* collector goes on; a poll may hang for ever.
Fairness ==
    /\ WF_telemetryVars(Coordinator)
    /\ \A w \in Workers : WF_telemetryVars(Begin(w) \/ Query(w) \/ Refused(w) \/ Exit(w))

TelemetrySpec == TelemetryInit /\ [][TelemetryNext]_telemetryVars /\ Fairness

-----------------------------------------------------------------------------
(* Properties                                                              *)

\* A worker never owes two boundary answers: publishing a poll clears the
\* pending and the active ticket but answers one.
OneTicket == \A w \in Workers : pending[w] = NoTicket \/ active[w] = NoTicket

\* A boundary that was requested and not yet collected is still on its way:
\* its ticket is pending, in the poll that runs, or answered - no order of
\* request and poll loses it and leaves wait to its timeout.
NoTicketLost ==
    \A w \in Workers :
        (\/ phase = "wait" /\ turn <= w
         \/ phase = "request" /\ w < turn)
        => \/ ticket[w] \in {pending[w], active[w]}
           \/ Answered(w) # {}

\* A stored boundary holds, for every device, a nonempty sample of that role,
\* and it is the first poll to finish after the request.
BoundaryIsNextPoll ==
    \A r \in boundaries, w \in Workers :
        LET s == readings[r][w]
        IN  /\ s \in log[w] /\ s.role = r /\ s.kind = "records"
            /\ s.seq = s.ticket.generation + 1

\* The final sample is the last one a device ever publishes, whatever the
\* interval and the coordinator do afterwards.
FinalIsTerminal ==
    \A w \in Workers : \A s \in log[w] :
        s.role = "final" => s.seq = generation[w] /\ poller[w] = "exited"

\* With both boundaries stored, every other poll of a device between its
\* baseline and its final sample is a background one.
BoundariesBracketRun ==
    boundaries = Boundary =>
        \A w \in Workers :
            /\ readings["baseline"][w].seq < readings["final"][w].seq
            /\ \A s \in log[w] : s.role # "background" =>
                   s \in {readings["baseline"][w], readings["final"][w]}

\* Records that arrive after telemetry was stopped and its errors were taken
\* over come from a thread that join reported - or telemetry never got started,
\* which failed the run - so the run that writes its sources meanwhile knows.
LateSampleIsReported ==
    \A w \in late :
        \/ <<"thread", w>> \in runErrors
        \/ <<"run", 0>> \in runErrors /\ \E v \in Workers : poller[v] = "unstarted"

\* The coordinator gets through, also when a poll hangs for ever.
CoordinatorFinishes == <>(phase = "done")

\* If polls return, every thread that was started ends, also those that stop
\* was never called for.
ThreadsEnd ==
    (\A w \in Workers : []<>(poller[w] # "polling"))
        => <>[](\A w \in Workers : poller[w] \in {"exited", "unstarted"})
=============================================================================
