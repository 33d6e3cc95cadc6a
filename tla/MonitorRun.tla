----------------------------- MODULE MonitorRun -----------------------------
(***************************************************************************)
(* collectors/base.py, run.py and monitor.py: one monitored run of a child *)
(* process. The collectors are prepared and started in order, sampled      *)
(* while the child runs, and stopped in reverse by an ExitStack that knows *)
(* all of them from the beginning; then the run writes its streams and     *)
(* replaces the RUNNING manifest by a terminal one.                        *)
(*                                                                         *)
(* Every hook of a collector may raise, the child may be stopped at its    *)
(* deadline, and Ctrl-C (no Exception) may strike at every step. What      *)
(* stopping the child involves is ManagedProcess; here it is one step.     *)
(***************************************************************************)
EXTENDS Naturals, FiniteSets

CONSTANTS
    N,             \* number of collectors, in the order they are given
    HasTimeout,    \* the command has a timeout
    MaxInterrupts  \* bound on KeyboardInterrupt

ASSUME MonitorRunAssumption ==
    N \in Nat \ {0} /\ HasTimeout \in BOOLEAN /\ MaxInterrupts \in Nat

Collectors == 1 .. N

VARIABLES
    state,       \* BaseCollector.state
    stopped,     \* _stop_completed
    held,        \* what _prepare or _start opened and _stop has not released
    sampled,     \* collectors that have returned a sample
    broken,      \* history: collectors with a hook that raised
    child,       \* the child: absent, running, exited or reaped
    rc,          \* its return code: "none", "zero" or "other"
    timedOut,    \* result.timed_out
    hasResult,   \* `result` is not None
    errors,      \* the kinds of messages in `errors`
    pc, at,      \* step of the run, and the collector it is at
    unwinding,   \* what is on its way through the ExitStack
    streams,     \* events, metrics and artifacts are written
    manifest,    \* status in manifest.json
    interrupts, exit

colVars == <<state, stopped, held, sampled, broken>>
childVars == <<child, rc, timedOut, hasResult>>
vars == <<colVars, childVars, errors, pc, at, unwinding, streams,
          manifest, interrupts, exit>>

Inside == {"prepare", "prepared", "start", "spawn", "poll", "sample", "check",
           "deadline", "wait", "recover"}
Outside == {"create", "publish", "write", "terminal"}

CollectorTypes ==
    /\ state \in [Collectors -> {"created", "prepared", "running", "stopped", "failed"}]
    /\ stopped \subseteq Collectors /\ held \subseteq Collectors
    /\ sampled \subseteq Collectors /\ broken \subseteq Collectors
    /\ errors \subseteq {"discovery", "metric", "orchestration", "collector", "stop"}

StepTypes ==
    /\ child \in {"absent", "running", "exited", "reaped"}
    /\ rc \in {"none", "zero", "other"}
    /\ pc \in Inside \cup Outside \cup {"cleanup", "done"}
    /\ at \in 0 .. N
    /\ unwinding \in {"none", "raised", "interrupted"}
    /\ manifest \in {"none", "running", "failed", "partial", "succeeded"}
    /\ interrupts \in 0 .. MaxInterrupts
    /\ exit \in {"none", "returned", "raised", "interrupted"}

FlagTypes == timedOut \in BOOLEAN /\ hasResult \in BOOLEAN /\ streams \in BOOLEAN

TypeOK == CollectorTypes /\ StepTypes /\ FlagTypes

Init ==
    /\ state = [c \in Collectors |-> "created"]
    /\ stopped = {} /\ held = {} /\ sampled = {} /\ broken = {}
    /\ child = "absent" /\ rc = "none" /\ timedOut = FALSE /\ hasResult = FALSE
    /\ errors = {} /\ pc = "create" /\ at = 1
    /\ unwinding = "none" /\ streams = FALSE /\ manifest = "none"
    /\ interrupts = 0 /\ exit = "none"

-----------------------------------------------------------------------------
(* The child, and where exceptions go                                      *)

ChildExits ==
    /\ child = "running" /\ child' = "exited" /\ rc' \in {"zero", "other"}
    /\ UNCHANGED <<colVars, timedOut, hasResult, errors, pc, at,
                   unwinding, streams, manifest, interrupts, exit>>

Goto(p) == pc' = p
Leave(how) == exit' = how /\ Goto("done")

\* except Exception of run_monitored_process.
Orchestration == errors' = errors \cup {"orchestration"} /\ Goto("recover")

Fails(c) == /\ state' = [state EXCEPT ![c] = "failed"]
            /\ broken' = broken \cup {c}

\* Inside the with statement the ExitStack runs, and only there; a callback
\* that is interrupted leaves the others to run.
Interrupt ==
    /\ pc # "done" /\ interrupts < MaxInterrupts
    /\ interrupts' = interrupts + 1
    /\ \/ /\ pc \in Inside /\ unwinding' = "interrupted" /\ Goto("cleanup")
          /\ at' = N /\ UNCHANGED exit
       \/ /\ pc = "cleanup" /\ at > 0 /\ unwinding' = "interrupted"
          /\ at' = at - 1 /\ UNCHANGED <<pc, exit>>
       \/ /\ pc \in Outside /\ Leave("interrupted") /\ UNCHANGED <<unwinding, at>>
    /\ UNCHANGED <<colVars, childVars, errors, streams, manifest>>

-----------------------------------------------------------------------------
(* Before the child                                                        *)

\* paths.create, _discover_devices: an existing directory refuses the run, a
\* device that cannot be discovered is an error of it.
Create ==
    /\ pc = "create"
    /\ \/ /\ errors' \in {errors, errors \cup {"discovery"}} /\ Goto("publish")
          /\ UNCHANGED exit
       \/ Leave("raised") /\ UNCHANGED errors
    /\ UNCHANGED <<colVars, childVars, at, unwinding, streams, manifest,
                   interrupts>>

\* The RUNNING manifest, the clock domains and the collectors themselves.
PublishRunning ==
    /\ pc = "publish"
    /\ \/ manifest' = "running" /\ Goto("prepare") /\ UNCHANGED exit
       \/ manifest' \in {"none", "running"} /\ Leave("raised")
    /\ UNCHANGED <<colVars, childVars, errors, at, unwinding, streams,
                   interrupts>>

\* BaseCollector.prepare: the hook, then the state; a hook that raises may
\* have opened something before.
Prepare ==
    /\ pc = "prepare"
    /\ \/ /\ held' = held \cup {at} /\ Goto("prepared")
          /\ UNCHANGED <<state, broken, errors>>
       \/ /\ held' \in {held, held \cup {at}} /\ Fails(at) /\ Orchestration
    /\ UNCHANGED <<stopped, sampled, childVars, at, unwinding, streams,
                   manifest, interrupts, exit>>

Prepared ==
    /\ pc = "prepared"
    /\ state' = [state EXCEPT ![at] = "prepared"] /\ Goto("start")
    /\ UNCHANGED <<stopped, held, sampled, broken, childVars, errors, at,
                   unwinding, streams, manifest, interrupts, exit>>

\* BaseCollector.start, and the next collector or the child.
Start ==
    /\ pc = "start"
    /\ \/ /\ state' = [state EXCEPT ![at] = "running"]
          /\ IF at < N THEN Goto("prepare") /\ at' = at + 1
             ELSE Goto("spawn") /\ UNCHANGED at
          /\ UNCHANGED <<broken, errors>>
       \/ Fails(at) /\ Orchestration /\ UNCHANGED at
    /\ UNCHANGED <<stopped, held, sampled, childVars, unwinding, streams,
                   manifest, interrupts, exit>>

\* process.start: a child that cannot be checked has been reaped when it raises.
Spawn ==
    /\ pc = "spawn"
    /\ \/ /\ child' = "running" /\ Goto("sample") /\ at' = 1 /\ UNCHANGED errors
       \/ child' \in {"absent", "reaped"} /\ Orchestration /\ UNCHANGED at
    /\ rc' = IF child' = "reaped" THEN "other" ELSE rc
    /\ UNCHANGED <<colVars, timedOut, hasResult, unwinding, streams,
                   manifest, interrupts, exit>>

-----------------------------------------------------------------------------
(* The loop                                                                *)

\* BaseCollector.sample: a collector that has failed raises again each time.
Sample ==
    /\ pc = "sample"
    /\ \/ /\ state[at] = "running" /\ sampled' = sampled \cup {at}
          /\ errors' \in {errors, errors \cup {"metric"}}
          /\ UNCHANGED <<state, broken>>
       \/ /\ IF state[at] = "running" THEN Fails(at)
             ELSE UNCHANGED <<state, broken>>
          /\ errors' = errors \cup {"collector"} /\ UNCHANGED sampled
    /\ IF at < N THEN at' = at + 1 /\ UNCHANGED pc
       ELSE UNCHANGED at /\ Goto("check")
    /\ UNCHANGED <<stopped, held, childVars, unwinding, streams, manifest,
                   interrupts, exit>>

\* process.poll() reaps a child that has exited.
FoundExited ==
    /\ pc \in {"check", "poll"} /\ child = "exited"
    /\ child' = "reaped" /\ Goto("wait")
    /\ UNCHANGED <<colVars, rc, timedOut, hasResult, errors, at, unwinding,
                   streams, manifest, interrupts, exit>>

\* Mutant: the deadline is looked at when the child has exited.
OverdueTooLate ==
    /\ pc \in {"check", "poll"} /\ HasTimeout /\ child = "exited"
    /\ Goto("deadline")
    /\ UNCHANGED <<colVars, childVars, errors, at, unwinding, streams, manifest,
                   interrupts, exit>>

\* The deadline is over, found so after or before the samples of a round.
Overdue ==
    /\ pc \in {"check", "poll"} /\ HasTimeout /\ child = "running"
    /\ Goto("deadline")
    /\ UNCHANGED <<colVars, childVars, errors, at, unwinding, streams, manifest,
                   interrupts, exit>>

\* The child runs and may: sleep, and take the next round of samples. The first
\* round is taken before the child is looked at.
NextRound ==
    /\ child = "running"
    /\ \/ pc = "check" /\ Goto("poll") /\ UNCHANGED at
       \/ pc = "poll" /\ Goto("sample") /\ at' = 1
    /\ UNCHANGED <<colVars, childVars, errors, unwinding, streams, manifest,
                   interrupts, exit>>

\* The child is terminated or found exited; a handler of its own may still end
\* it with zero.
Ended == /\ child' = "reaped" /\ hasResult' = TRUE
         /\ rc' \in IF rc = "none" THEN {"zero", "other"} ELSE {rc}

Deadline ==
    /\ pc = "deadline"
    /\ \/ /\ Ended /\ timedOut' = TRUE /\ Goto("cleanup") /\ at' = N
          /\ UNCHANGED errors
       \/ Orchestration /\ UNCHANGED <<childVars, at>>
    /\ UNCHANGED <<colVars, unwinding, streams, manifest, interrupts, exit>>

\* process.wait() of a child that has exited.
Wait ==
    /\ pc = "wait"
    /\ \/ Ended /\ Goto("cleanup") /\ at' = N /\ UNCHANGED errors
       \/ Orchestration /\ UNCHANGED <<child, rc, hasResult, at>>
    /\ UNCHANGED <<colVars, timedOut, unwinding, streams, manifest,
                   interrupts, exit>>

\* Mutant: an error that is not the child's leaves the child alone.
RecoverLeavesChild ==
    /\ pc = "recover" /\ Goto("cleanup") /\ at' = N
    /\ rc' = "other" /\ hasResult' = TRUE
    /\ UNCHANGED <<child, unwinding>>
    /\ UNCHANGED <<colVars, timedOut, errors, streams, manifest, interrupts, exit>>

\* The handler of run orchestration errors: stop the child, or invent the
\* result of a child that never was.
Recover ==
    /\ pc = "recover" /\ Goto("cleanup") /\ at' = N
    /\ \/ child # "absent" /\ Ended /\ UNCHANGED unwinding
       \/ /\ child = "absent" /\ rc' = "other" /\ hasResult' = TRUE
          /\ UNCHANGED <<child, unwinding>>
       \/ unwinding' = "raised" /\ UNCHANGED <<child, rc, hasResult>>
    /\ UNCHANGED <<colVars, timedOut, errors, streams, manifest,
                   interrupts, exit>>

-----------------------------------------------------------------------------
(* The ExitStack, and what follows                                         *)

\* Mutant: a collector that has failed is not stopped.
StopRunningOnly(c) ==
    \/ /\ state[c] \in {"stopped", "failed"} \/ c \in stopped
       /\ UNCHANGED <<state, stopped, held, broken, errors>>
    \/ /\ state[c] = "created" /\ errors' = errors \cup {"stop"}
       /\ UNCHANGED <<state, stopped, held, broken>>
    \/ /\ state[c] = "prepared" /\ state' = [state EXCEPT ![c] = "stopped"]
       /\ UNCHANGED <<stopped, held, broken, errors>>
    \/ /\ state[c] = "running" /\ c \notin stopped
       /\ \/ /\ stopped' = stopped \cup {c} /\ held' = held \ {c}
             /\ state' = [state EXCEPT ![c] = "stopped"]
             /\ UNCHANGED <<broken, errors>>
          \/ Fails(c) /\ errors' = errors \cup {"stop"} /\ UNCHANGED <<stopped, held>>

\* BaseCollector.stop under stop_collector: nothing is opened by a collector
\* that was only prepared, and one that was not even that refuses.
StopCollector(c) ==
    \/ /\ state[c] = "stopped" \/ c \in stopped
       /\ UNCHANGED <<state, stopped, held, broken, errors>>
    \/ /\ state[c] = "created" /\ errors' = errors \cup {"stop"}
       /\ UNCHANGED <<state, stopped, held, broken>>
    \/ /\ state[c] = "prepared" /\ state' = [state EXCEPT ![c] = "stopped"]
       /\ UNCHANGED <<stopped, held, broken, errors>>
    \/ /\ state[c] \in {"running", "failed"} /\ c \notin stopped
       /\ \/ /\ stopped' = stopped \cup {c} /\ held' = held \ {c}
             /\ state' = [state EXCEPT ![c] = IF @ = "failed" THEN @ ELSE "stopped"]
             /\ UNCHANGED <<broken, errors>>
          \/ Fails(c) /\ errors' = errors \cup {"stop"} /\ UNCHANGED <<stopped, held>>

CleanUp ==
    /\ pc = "cleanup"
    /\ IF at > 0
       THEN StopCollector(at) /\ at' = at - 1 /\ UNCHANGED <<pc, exit>>
       ELSE /\ IF unwinding = "none" THEN Goto("write") /\ UNCHANGED exit
               ELSE Leave(unwinding)
            /\ UNCHANGED <<state, stopped, held, broken, errors, at>>
    /\ UNCHANGED <<sampled, childVars, unwinding, streams, manifest, interrupts>>

WriteStreams ==
    /\ pc = "write"
    /\ \/ streams' = TRUE /\ Goto("terminal") /\ UNCHANGED exit
       \/ Leave("raised") /\ UNCHANGED streams
    /\ UNCHANGED <<colVars, childVars, errors, at, unwinding, manifest, interrupts>>

\* Mutant: errors are looked at before the return code.
StatusByErrors == IF errors # {} THEN "partial"
                  ELSE IF rc # "zero" \/ timedOut THEN "failed" ELSE "succeeded"

Status == IF rc # "zero" \/ timedOut THEN "failed"
          ELSE IF errors # {} THEN "partial" ELSE "succeeded"

PublishTerminal ==
    /\ pc = "terminal"
    /\ \/ manifest' = Status /\ Leave("returned")
       \/ Leave("raised") /\ UNCHANGED manifest
    /\ UNCHANGED <<colVars, childVars, errors, at, unwinding, streams, interrupts>>

-----------------------------------------------------------------------------
Step ==
    \/ Create \/ PublishRunning \/ Prepare \/ Prepared \/ Start \/ Spawn
    \/ Sample \/ FoundExited \/ Overdue \/ NextRound \/ Deadline \/ Wait \/ Recover
    \/ CleanUp \/ WriteStreams \/ PublishTerminal

Next == Step \/ ChildExits \/ Interrupt

Spec == Init /\ [][Next]_vars

\* The runner goes on; sampling returns and rounds follow each other, so that
\* the deadline is over in one of them.
FairSpec == Spec /\ WF_vars(Step) /\ SF_vars(Overdue)

-----------------------------------------------------------------------------
(* Properties                                                              *)

\* run_monitored_process: "always stopping prepared collectors". When a run has
\* ended nobody interrupted, no collector is left prepared or running, and what
\* one still holds is owed to a hook that raised.
CollectorsAreReleased ==
    exit # "none" /\ interrupts = 0 =>
        \A c \in Collectors :
            /\ state[c] \notin {"prepared", "running"}
            /\ c \in held => c \in broken \ stopped /\ "stop" \in errors

\* A run that says succeeded sampled every collector, its child ended by itself
\* with zero, its streams are on disk, and no hook ever raised; one that says
\* partial differs in the hooks only. The samples and stops that failed last
\* are counted as well as the first.
StatusIsTrue ==
    /\ manifest \in {"succeeded", "partial"} =>
          /\ child = "reaped" /\ rc = "zero" /\ ~timedOut /\ streams
    /\ manifest = "succeeded" => sampled = Collectors /\ broken = {} /\ held = {}

\* A child outlives the run only if Ctrl-C or an exception of its own stop
\* got in between; and then no manifest claims an end.
ChildIsOwned ==
    exit # "none" /\ child \in {"running", "exited"} =>
        /\ unwinding # "none"
        /\ manifest = "running"

\* The run ends when its command has a timeout, even if the child never exits.
RunEnds == <>(exit # "none")
=============================================================================
