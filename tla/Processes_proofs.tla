-------------------------- MODULE Processes_proofs --------------------------
(***************************************************************************)
(* Proofs about the specifications of running processes and threads:       *)
(* MonitorRun, ManagedProcess, the proxy with its waves, and Telemetry. No *)
(* two of them share a variable: MonitorRun takes a call of ManagedProcess *)
(* as one step, the proxy is a process of another kind of run, and the     *)
(* telemetry threads belong to the run that starts the proxy.              *)
(*                                                                         *)
(* MonitorRun, for any number of collectors and of interrupts and for      *)
(* commands with and without a timeout. The properties speak of a run that *)
(* has ended. The invariant follows the run to its end: which step knows   *)
(* what of the child (Phases), what a run without errors has seen of its   *)
(* collectors (Faultless), and how much of what was opened the ExitStack   *)
(* has got through (Releases).                                             *)
(*                                                                         *)
(* ManagedProcess, for every set of descendants, any number of calls and   *)
(* recycled group ids: ProcessInv says at every step of a call what is     *)
(* known of the leader, of the group and of what has been reported.        *)
(*                                                                         *)
(* Proxy and Wave, for every set of requests and every number of failed    *)
(* writes. A wave only takes the steps of the proxy that Proxy has, so     *)
(* what holds of every behaviour of the proxy holds of a wave too.         *)
(*                                                                         *)
(* Telemetry, for every number of devices and every bound on the polls.    *)
(* TelemetryInv (at the end) strengthens its invariants to an inductive    *)
(* one: it says who is owed which ticket in which step of the coordinator, *)
(* which samples it holds, and which threads it has reported.              *)
(***************************************************************************)
EXTENDS MonitorRun, ManagedProcess, Wave, Telemetry, TLAPS

Early == {"create", "publish"}
Setup == {"prepare", "prepared", "start"}
Loop == {"spawn", "poll", "sample", "check", "deadline", "wait"}
Late == {"write", "terminal"}

\* The way to the end without anything on its way through the ExitStack.
Calm == (pc = "cleanup" /\ unwinding = "none") \/ pc \in Late

\* What a step of the run knows of the child and the manifest.
Phases ==
    /\ exit # "none" <=> pc = "done"
    /\ unwinding # "none" => pc \in {"cleanup", "done"}
    /\ pc \in Inside \cup Late \cup {"cleanup"} => manifest = "running"
    /\ pc = "done" /\ unwinding # "none" => manifest = "running"
    /\ manifest \in {"failed", "partial", "succeeded"} => pc = "done"
    /\ pc \in Early \cup Setup \cup {"spawn"} => child = "absent"
    /\ Calm \/ (pc = "done" /\ unwinding = "none") => child \in {"absent", "reaped"}
    /\ child = "absent" => rc # "zero"
    /\ pc \in Inside => at >= 1
    /\ pc \in Early => at = 1
    /\ pc \in Late => at = 0
    /\ pc = "terminal" => streams

\* What holds of the collectors as long as nothing went wrong.
Faultless ==
    /\ broken # {} => errors # {}
    /\ pc = "recover" => errors # {}
    /\ pc \in Early => \A c \in Collectors : c \notin held
    /\ pc \in Early \cup Inside => stopped = {}
    /\ errors = {} =>
        /\ pc \in Setup => \A c \in Collectors : c < at => state[c] = "running"
        /\ pc \in Loop => \A c \in Collectors : state[c] = "running"
        /\ pc = "sample" => \A c \in Collectors : c < at => c \in sampled
        /\ pc \in Loop \ {"spawn", "sample"} \/ Calm => sampled = Collectors
        /\ Calm => \A c \in Collectors :
              IF c <= at THEN state[c] = "running" /\ c \notin stopped
              ELSE c \notin held

\* A collector the ExitStack has been through, in a run nobody interrupted.
Settled(c) ==
    /\ state[c] \notin {"prepared", "running"}
    /\ c \in held => c \in broken \ stopped /\ "stop" \in errors

\* A collector it can still stop.
Stoppable(c) ==
    /\ state[c] \in {"created", "running", "failed"}
    /\ state[c] = "created" => c \notin held
    /\ c \notin stopped

Releases ==
    /\ \A c \in Collectors : state[c] = "failed" => c \in broken
    /\ interrupts = 0 =>
        /\ pc \in Early => \A c \in Collectors : state[c] = "created"
        /\ pc \in Setup => \A c \in Collectors :
              /\ c < at => state[c] = "running"
              /\ c = at => state[c] = IF pc = "start" THEN "prepared" ELSE "created"
              /\ c > at => state[c] = "created" /\ c \notin held
        /\ pc = "prepare" => at \notin held
        /\ pc \in Loop => \A c \in Collectors : state[c] \in {"running", "failed"}
        /\ pc = "recover" => \A c \in Collectors : Stoppable(c)
        /\ pc = "cleanup" => \A c \in Collectors :
              IF c <= at THEN Stoppable(c) ELSE Settled(c)
        /\ pc \in Late \cup {"done"} => \A c \in Collectors : Settled(c)

Inv == TypeOK /\ Phases /\ Faultless /\ StatusIsTrue /\ Releases

\* Init satisfies every part of the invariant.
LEMMA InitInv == Init => Inv
<1> SUFFICES ASSUME Init PROVE Inv
  OBVIOUS
<1> USE MonitorRunAssumption DEF Init, Early, Setup, Loop, Late, Inside, Outside,
      Calm, Collectors
<1>1. TypeOK
  <2>1. CollectorTypes BY DEF CollectorTypes
  <2>2. StepTypes BY DEF StepTypes
  <2>3. FlagTypes BY DEF FlagTypes
  <2> QED BY <2>1, <2>2, <2>3 DEF TypeOK
<1>2. Phases BY DEF Phases
<1>3. Faultless BY DEF Faultless
<1>4. StatusIsTrue BY DEF StatusIsTrue
<1>5. Releases BY DEF Releases, Settled, Stoppable
<1> QED BY <1>1, <1>2, <1>3, <1>4, <1>5 DEF Inv

\* Every step of the run, of the child and of the keyboard preserves it.
LEMMA NextInv == Inv /\ [Next]_vars => Inv'
<1> SUFFICES ASSUME Inv, [Next]_vars PROVE Inv'
  OBVIOUS
<1> USE MonitorRunAssumption DEF Inv, Inside, Outside, Early, Setup, Loop, Late,
      Collectors, colVars, childVars
<1>1. CASE Create
  <2> USE <1>1 DEF Create, Goto, Leave, TypeOK, StepTypes
  <2>1. TypeOK'
    <3>1. CollectorTypes' BY DEF CollectorTypes
    <3>2. StepTypes' OBVIOUS
    <3>3. FlagTypes' BY DEF FlagTypes
    <3> QED BY <3>1, <3>2, <3>3
  <2>2. Phases' BY DEF FlagTypes, Phases, Calm
  <2>3. Faultless' BY DEF CollectorTypes, FlagTypes, Phases, Faultless, Calm
  <2>4. StatusIsTrue'
    BY DEF CollectorTypes, FlagTypes, Phases, Faultless, StatusIsTrue, Calm
  <2>5. Releases'
    BY DEF CollectorTypes, FlagTypes, Phases, Faultless, Releases, Settled,
       Stoppable
  <2> QED BY <2>1, <2>2, <2>3, <2>4, <2>5
<1>2. CASE PublishRunning
  <2> USE <1>2 DEF PublishRunning, Goto, Leave, TypeOK, StepTypes
  <2>1. TypeOK'
    <3>1. CollectorTypes' BY DEF CollectorTypes
    <3>2. StepTypes' OBVIOUS
    <3>3. FlagTypes' BY DEF FlagTypes
    <3> QED BY <3>1, <3>2, <3>3
  <2>2. Phases' BY DEF FlagTypes, Phases, Calm
  <2>3. Faultless' BY DEF CollectorTypes, FlagTypes, Phases, Faultless, Calm
  <2>4. StatusIsTrue'
    BY DEF CollectorTypes, FlagTypes, Phases, Faultless, StatusIsTrue, Calm
  <2>5. Releases'
    BY DEF CollectorTypes, FlagTypes, Phases, Faultless, Releases, Settled,
       Stoppable
  <2> QED BY <2>1, <2>2, <2>3, <2>4, <2>5
<1>3. CASE Prepare
  <2> USE <1>3 DEF Prepare, Fails, Orchestration, Goto, TypeOK, StepTypes
  <2>1. TypeOK'
    <3>1. CollectorTypes'
      <4>1. at \in Collectors BY DEF Phases
      <4> QED BY <4>1 DEF CollectorTypes
    <3>2. StepTypes' OBVIOUS
    <3>3. FlagTypes' BY DEF FlagTypes
    <3> QED BY <3>1, <3>2, <3>3
  <2>2. Phases' BY DEF FlagTypes, Phases, Calm
  <2>3. Faultless' BY DEF CollectorTypes, FlagTypes, Phases, Faultless, Calm
  <2>4. StatusIsTrue'
    BY DEF CollectorTypes, FlagTypes, Phases, Faultless, StatusIsTrue, Calm
  <2>5. Releases'
    BY DEF CollectorTypes, FlagTypes, Phases, Faultless, Releases, Settled,
       Stoppable
  <2> QED BY <2>1, <2>2, <2>3, <2>4, <2>5
<1>4. CASE Prepared
  <2> USE <1>4 DEF Prepared, Goto, TypeOK, StepTypes
  <2>1. TypeOK'
    <3>1. CollectorTypes' BY DEF CollectorTypes
    <3>2. StepTypes' OBVIOUS
    <3>3. FlagTypes' BY DEF FlagTypes
    <3> QED BY <3>1, <3>2, <3>3
  <2>2. Phases' BY DEF FlagTypes, Phases, Calm
  <2>3. Faultless' BY DEF CollectorTypes, FlagTypes, Phases, Faultless, Calm
  <2>4. StatusIsTrue'
    BY DEF CollectorTypes, FlagTypes, Phases, Faultless, StatusIsTrue, Calm
  <2>5. Releases'
    BY DEF CollectorTypes, FlagTypes, Phases, Faultless, Releases, Settled,
       Stoppable
  <2> QED BY <2>1, <2>2, <2>3, <2>4, <2>5
<1>5. CASE Start
  <2> USE <1>5 DEF Start, Fails, Orchestration, Goto, TypeOK, StepTypes
  <2>1. TypeOK'
    <3>1. CollectorTypes'
      <4>1. at \in Collectors BY DEF Phases
      <4> QED BY <4>1 DEF CollectorTypes
    <3>2. StepTypes' OBVIOUS
    <3>3. FlagTypes' BY DEF FlagTypes
    <3> QED BY <3>1, <3>2, <3>3
  <2>2. Phases' BY DEF FlagTypes, Phases, Calm
  <2>3. Faultless' BY DEF CollectorTypes, FlagTypes, Phases, Faultless, Calm
  <2>4. StatusIsTrue'
    BY DEF CollectorTypes, FlagTypes, Phases, Faultless, StatusIsTrue, Calm
  <2>5. Releases'
    BY DEF CollectorTypes, FlagTypes, Phases, Faultless, Releases, Settled,
       Stoppable
  <2> QED BY <2>1, <2>2, <2>3, <2>4, <2>5
<1>6. CASE Spawn
  <2> USE <1>6 DEF Spawn, Goto, Orchestration, TypeOK, StepTypes
  <2>1. TypeOK'
    <3>1. CollectorTypes' BY DEF CollectorTypes
    <3>2. StepTypes' OBVIOUS
    <3>3. FlagTypes' BY DEF FlagTypes
    <3> QED BY <3>1, <3>2, <3>3
  <2>2. Phases' BY DEF FlagTypes, Phases, Calm
  <2>3. Faultless' BY DEF CollectorTypes, FlagTypes, Phases, Faultless, Calm
  <2>4. StatusIsTrue'
    BY DEF CollectorTypes, FlagTypes, Phases, Faultless, StatusIsTrue, Calm
  <2>5. Releases'
    BY DEF CollectorTypes, FlagTypes, Phases, Faultless, Releases, Settled,
       Stoppable
  <2> QED BY <2>1, <2>2, <2>3, <2>4, <2>5
<1>7. CASE Sample
  <2> USE <1>7 DEF Sample, Goto, Fails, TypeOK, StepTypes
  <2>1. TypeOK'
    <3>1. CollectorTypes'
      <4>1. at \in Collectors BY DEF Phases
      <4> QED BY <4>1 DEF CollectorTypes
    <3>2. StepTypes' OBVIOUS
    <3>3. FlagTypes' BY DEF FlagTypes
    <3> QED BY <3>1, <3>2, <3>3
  <2>2. Phases' BY DEF FlagTypes, Phases, Calm
  <2>3. Faultless'
    <3> USE DEF Sample, Goto, Fails, TypeOK, CollectorTypes, StepTypes, Phases,
          Faultless, Calm
    <3>1. (broken # {} => errors # {})' OBVIOUS
    <3>2. (pc \in Early \cup Inside => stopped = {})' OBVIOUS
    <3>3. errors' = {} => errors = {} /\ state[at] = "running" /\ UNCHANGED state
                          /\ sampled' = sampled \cup {at} OBVIOUS
    <3>4. (errors = {} /\ pc \in Loop =>
             \A c \in Collectors : state[c] = "running")'
      BY <3>3
    <3>5. (errors = {} /\ pc = "sample" =>
             \A c \in Collectors : c < at => c \in sampled)'
      BY <3>3
    <3>6. (errors = {} /\ pc = "check" => sampled = Collectors)'
      <4> SUFFICES ASSUME errors' = {},
            pc' = "check" PROVE sampled' = Collectors OBVIOUS
      <4>1. at = N OBVIOUS
      <4>2. \A c \in Collectors : c < at => c \in sampled BY <3>3
      <4>3. \A c \in Collectors : c \in sampled' BY <3>3, <4>1, <4>2
      <4> QED BY <2>1, <4>3
    <3>7. pc' \in {"sample", "check"} OBVIOUS
    <3> QED BY <3>1, <3>2, <3>4, <3>5, <3>6, <3>7
  <2>4. StatusIsTrue'
    BY DEF CollectorTypes, FlagTypes, Phases, Faultless, StatusIsTrue, Calm
  <2>5. Releases'
    BY DEF CollectorTypes, FlagTypes, Phases, Faultless, Releases, Settled,
       Stoppable
  <2> QED BY <2>1, <2>2, <2>3, <2>4, <2>5
<1>8. CASE FoundExited
  <2> USE <1>8 DEF FoundExited, Goto, TypeOK, StepTypes
  <2>1. TypeOK'
    <3>1. CollectorTypes' BY DEF CollectorTypes
    <3>2. StepTypes' OBVIOUS
    <3>3. FlagTypes' BY DEF FlagTypes
    <3> QED BY <3>1, <3>2, <3>3
  <2>2. Phases' BY DEF FlagTypes, Phases, Calm
  <2>3. Faultless' BY DEF CollectorTypes, FlagTypes, Phases, Faultless, Calm
  <2>4. StatusIsTrue'
    BY DEF CollectorTypes, FlagTypes, Phases, Faultless, StatusIsTrue, Calm
  <2>5. Releases'
    BY DEF CollectorTypes, FlagTypes, Phases, Faultless, Releases, Settled,
       Stoppable
  <2> QED BY <2>1, <2>2, <2>3, <2>4, <2>5
<1>9. CASE Overdue
  <2> USE <1>9 DEF Overdue, Goto, TypeOK, StepTypes
  <2>1. TypeOK'
    <3>1. CollectorTypes' BY DEF CollectorTypes
    <3>2. StepTypes' OBVIOUS
    <3>3. FlagTypes' BY DEF FlagTypes
    <3> QED BY <3>1, <3>2, <3>3
  <2>2. Phases' BY DEF FlagTypes, Phases, Calm
  <2>3. Faultless' BY DEF CollectorTypes, FlagTypes, Phases, Faultless, Calm
  <2>4. StatusIsTrue'
    BY DEF CollectorTypes, FlagTypes, Phases, Faultless, StatusIsTrue, Calm
  <2>5. Releases'
    BY DEF CollectorTypes, FlagTypes, Phases, Faultless, Releases, Settled,
       Stoppable
  <2> QED BY <2>1, <2>2, <2>3, <2>4, <2>5
<1>10. CASE NextRound
  <2> USE <1>10 DEF NextRound, Goto, TypeOK, StepTypes
  <2>1. TypeOK'
    <3>1. CollectorTypes' BY DEF CollectorTypes
    <3>2. StepTypes' OBVIOUS
    <3>3. FlagTypes' BY DEF FlagTypes
    <3> QED BY <3>1, <3>2, <3>3
  <2>2. Phases' BY DEF FlagTypes, Phases, Calm
  <2>3. Faultless' BY DEF CollectorTypes, FlagTypes, Phases, Faultless, Calm
  <2>4. StatusIsTrue'
    BY DEF CollectorTypes, FlagTypes, Phases, Faultless, StatusIsTrue, Calm
  <2>5. Releases'
    BY DEF CollectorTypes, FlagTypes, Phases, Faultless, Releases, Settled,
       Stoppable
  <2> QED BY <2>1, <2>2, <2>3, <2>4, <2>5
<1>11. CASE Deadline
  <2> USE <1>11 DEF Deadline, Ended, Goto, Orchestration, TypeOK, StepTypes
  <2>1. TypeOK'
    <3>1. CollectorTypes' BY DEF CollectorTypes
    <3>2. StepTypes' OBVIOUS
    <3>3. FlagTypes' BY DEF FlagTypes
    <3> QED BY <3>1, <3>2, <3>3
  <2>2. Phases' BY DEF FlagTypes, Phases, Calm
  <2>3. Faultless' BY DEF CollectorTypes, FlagTypes, Phases, Faultless, Calm
  <2>4. StatusIsTrue'
    BY DEF CollectorTypes, FlagTypes, Phases, Faultless, StatusIsTrue, Calm
  <2>5. Releases'
    BY DEF CollectorTypes, FlagTypes, Phases, Faultless, Releases, Settled,
       Stoppable
  <2> QED BY <2>1, <2>2, <2>3, <2>4, <2>5
<1>12. CASE Wait
  <2> USE <1>12 DEF Wait, Ended, Goto, Orchestration, TypeOK, StepTypes
  <2>1. TypeOK'
    <3>1. CollectorTypes' BY DEF CollectorTypes
    <3>2. StepTypes' OBVIOUS
    <3>3. FlagTypes' BY DEF FlagTypes
    <3> QED BY <3>1, <3>2, <3>3
  <2>2. Phases' BY DEF FlagTypes, Phases, Calm
  <2>3. Faultless' BY DEF CollectorTypes, FlagTypes, Phases, Faultless, Calm
  <2>4. StatusIsTrue'
    BY DEF CollectorTypes, FlagTypes, Phases, Faultless, StatusIsTrue, Calm
  <2>5. Releases'
    BY DEF CollectorTypes, FlagTypes, Phases, Faultless, Releases, Settled,
       Stoppable
  <2> QED BY <2>1, <2>2, <2>3, <2>4, <2>5
<1>13. CASE Recover
  <2> USE <1>13 DEF Recover, Ended, Goto, TypeOK, StepTypes
  <2>1. TypeOK'
    <3>1. CollectorTypes' BY DEF CollectorTypes
    <3>2. StepTypes' OBVIOUS
    <3>3. FlagTypes' BY DEF FlagTypes
    <3> QED BY <3>1, <3>2, <3>3
  <2>2. Phases' BY DEF FlagTypes, Phases, Calm
  <2>3. Faultless' BY DEF CollectorTypes, FlagTypes, Phases, Faultless, Calm
  <2>4. StatusIsTrue'
    BY DEF CollectorTypes, FlagTypes, Phases, Faultless, StatusIsTrue, Calm
  <2>5. Releases'
    BY DEF CollectorTypes, FlagTypes, Phases, Faultless, Releases, Settled,
       Stoppable
  <2> QED BY <2>1, <2>2, <2>3, <2>4, <2>5
<1>14. CASE CleanUp
  <2> USE <1>14 DEF CleanUp, StopCollector, Fails, Goto, Leave, TypeOK, StepTypes
  <2>1. TypeOK'
    <3>1. CollectorTypes'
      <4>1. CASE at > 0 /\ StopCollector(at) /\ UNCHANGED sampled
        <5> at \in Collectors BY <4>1
        <5> QED BY <4>1 DEF CollectorTypes
      <4>2. CASE UNCHANGED <<state, stopped, held, broken, sampled, errors>>
        BY <4>2 DEF CollectorTypes
      <4> QED BY <4>1, <4>2
    <3>2. StepTypes' OBVIOUS
    <3>3. FlagTypes' BY DEF FlagTypes
    <3> QED BY <3>1, <3>2, <3>3
  <2>2. Phases' BY DEF FlagTypes, Phases, Calm
  <2>3. Faultless' BY DEF CollectorTypes, FlagTypes, Phases, Faultless, Calm
  <2>4. StatusIsTrue'
    BY DEF CollectorTypes, FlagTypes, Phases, Faultless, StatusIsTrue, Calm
  <2>5. Releases'
    BY DEF CollectorTypes, FlagTypes, Phases, Faultless, Releases, Settled,
       Stoppable
  <2> QED BY <2>1, <2>2, <2>3, <2>4, <2>5
<1>15. CASE WriteStreams
  <2> USE <1>15 DEF WriteStreams, Goto, Leave, TypeOK, StepTypes
  <2>1. TypeOK'
    <3>1. CollectorTypes' BY DEF CollectorTypes
    <3>2. StepTypes' OBVIOUS
    <3>3. FlagTypes' BY DEF FlagTypes
    <3> QED BY <3>1, <3>2, <3>3
  <2>2. Phases' BY DEF FlagTypes, Phases, Calm
  <2>3. Faultless' BY DEF CollectorTypes, FlagTypes, Phases, Faultless, Calm
  <2>4. StatusIsTrue'
    BY DEF CollectorTypes, FlagTypes, Phases, Faultless, StatusIsTrue, Calm
  <2>5. Releases'
    BY DEF CollectorTypes, FlagTypes, Phases, Faultless, Releases, Settled,
       Stoppable
  <2> QED BY <2>1, <2>2, <2>3, <2>4, <2>5
<1>16. CASE PublishTerminal
  <2> USE <1>16 DEF PublishTerminal, Status, Leave, Goto, TypeOK, StepTypes
  <2>1. TypeOK'
    <3>1. CollectorTypes' BY DEF CollectorTypes
    <3>2. StepTypes' OBVIOUS
    <3>3. FlagTypes' BY DEF FlagTypes
    <3> QED BY <3>1, <3>2, <3>3
  <2>2. Phases' BY DEF FlagTypes, Phases, Calm
  <2>3. Faultless' BY DEF CollectorTypes, FlagTypes, Phases, Faultless, Calm
  <2>4. StatusIsTrue'
    BY DEF CollectorTypes, FlagTypes, Phases, Faultless, StatusIsTrue, Calm
  <2>5. Releases'
    BY DEF CollectorTypes, FlagTypes, Phases, Faultless, Releases, Settled,
       Stoppable
  <2> QED BY <2>1, <2>2, <2>3, <2>4, <2>5
<1>17. CASE ChildExits
  <2> USE <1>17 DEF ChildExits, TypeOK, StepTypes
  <2>1. TypeOK'
    <3>1. CollectorTypes' BY DEF CollectorTypes
    <3>2. StepTypes' OBVIOUS
    <3>3. FlagTypes' BY DEF FlagTypes
    <3> QED BY <3>1, <3>2, <3>3
  <2>2. Phases' BY DEF FlagTypes, Phases, Calm
  <2>3. Faultless' BY DEF CollectorTypes, FlagTypes, Phases, Faultless, Calm
  <2>4. StatusIsTrue'
    BY DEF CollectorTypes, FlagTypes, Phases, Faultless, StatusIsTrue, Calm
  <2>5. Releases'
    BY DEF CollectorTypes, FlagTypes, Phases, Faultless, Releases, Settled,
       Stoppable
  <2> QED BY <2>1, <2>2, <2>3, <2>4, <2>5
<1>18. CASE Interrupt
  <2> USE <1>18 DEF Interrupt, Goto, Leave, TypeOK, StepTypes
  <2>1. TypeOK'
    <3>1. CollectorTypes' BY DEF CollectorTypes
    <3>2. StepTypes' OBVIOUS
    <3>3. FlagTypes' BY DEF FlagTypes
    <3> QED BY <3>1, <3>2, <3>3
  <2>2. Phases' BY DEF FlagTypes, Phases, Calm
  <2>3. Faultless' BY DEF CollectorTypes, FlagTypes, Phases, Faultless, Calm
  <2>4. StatusIsTrue'
    BY DEF CollectorTypes, FlagTypes, Phases, Faultless, StatusIsTrue, Calm
  <2>5. Releases'
    BY DEF CollectorTypes, FlagTypes, Phases, Faultless, Releases, Settled,
       Stoppable
  <2> QED BY <2>1, <2>2, <2>3, <2>4, <2>5
<1>19. CASE UNCHANGED vars
  BY <1>19
     DEF vars, TypeOK, CollectorTypes, StepTypes, FlagTypes, Phases, Faultless,
        StatusIsTrue, Releases, Calm, Settled, Stoppable
<1> QED
  BY <1>1, <1>2, <1>3, <1>4, <1>5, <1>6, <1>7, <1>8, <1>9, <1>10, <1>11, <1>12,
      <1>13, <1>14, <1>15, <1>16, <1>17, <1>18, <1>19 DEF Next, Step

\* The invariant holds in every reachable state.
THEOREM InvHolds == Spec => []Inv
BY InitInv, NextInv, PTL DEF Spec

\* Every variable keeps its type, for any number of collectors.
THEOREM TypeCorrect == Spec => []TypeOK
BY InvHolds, PTL DEF Inv

\* A run nobody interrupted leaves no collector prepared or running, and what
\* one still holds is owed to a stop that raised and was reported
\* (stop_collector under the ExitStack of run_monitored_process).
THEOREM CollectorsAreReleasedHolds == Spec => []CollectorsAreReleased
<1>1. Inv => CollectorsAreReleased
  <2> SUFFICES ASSUME Inv, exit # "none", interrupts = 0, NEW c \in Collectors
               PROVE Settled(c)
    BY DEF CollectorsAreReleased, Settled
  <2>1. pc = "done" BY DEF Inv, Phases
  <2> QED BY <2>1 DEF Inv, Releases
<1> QED BY <1>1, InvHolds, PTL

\* No manifest says succeeded or partial of a run of which that is not true
\* (the status at the end of MonitorRunCollector.run).
THEOREM StatusIsTrueHolds == Spec => []StatusIsTrue
BY InvHolds, PTL DEF Inv

\* A child outlives its run only behind an interrupt or a failed stop, under a
\* manifest that still says running.
THEOREM ChildIsOwnedHolds == Spec => []ChildIsOwned
<1>1. Inv => ChildIsOwned
  <2> SUFFICES ASSUME Inv, exit # "none", child \in {"running", "exited"}
               PROVE unwinding # "none" /\ manifest = "running"
    BY DEF ChildIsOwned
  <2>1. pc = "done" BY DEF Inv, Phases
  <2>2. unwinding # "none" BY <2>1 DEF Inv, Phases
  <2> QED BY <2>1, <2>2 DEF Inv, Phases
<1> QED BY <1>1, InvHolds, PTL

-----------------------------------------------------------------------------
(* ManagedProcess: the child, when its calls are taken step by step         *)

\* A recycled group id implies that nothing of the own group is left.
ForeignIsLast == foreign => leader = "reaped" /\ kids = {}

\* What the calling thread knows of the leader.
LeaderKnown ==
    /\ step = "new" => leader = "absent" /\ calls = 0
    /\ leader = "absent" => step \in {"new", "failed"}
    /\ step \in {"termSend", "killSend"} => leader \in {"running", "exited"}
    /\ step \in Finishing => leader = "reaped"
    /\ step = "reap" => HasExited
    /\ step = "ready" /\ calls > 0 => leader = "reaped"

\* Descendants survive the last signal only if SIGKILL was not sent.
SurvivorsKnown ==
    /\ step = "reap" => (kids # {} => missed)
    /\ step = "ready" /\ calls > 0 => (kids # {} => missed)

\* Where SIGKILL can follow, a termination has been reported.
TermReported ==
    /\ step = "grace" /\ ~HasExited => report.terminated
    /\ step \in {"killPoll", "killSend"} => report.terminated
    /\ step \in Finishing \ {"probe"} => report.terminated
    /\ report.killed => report.terminated

ProcessInv == ForeignIsLast /\ LeaderKnown /\ SurvivorsKnown /\ TermReported

-----------------------------------------------------------------------------

\* Every step of the operating system and of a call keeps the types.
LEMMA ProcessTypeStep ==
    ProcessTypeOK /\ [ProcessNext]_processVars => ProcessTypeOK'
  <1> SUFFICES ASSUME ProcessTypeOK, [ProcessNext]_processVars PROVE ProcessTypeOK'
    OBVIOUS
  <1> USE ProcessAssumption
  <1>1. CASE Environment
    <2>1. /\ leader' \in {"absent", "running", "exited", "reaped"}
          /\ kids' \subseteq Kids /\ hit' = hit
      BY <1>1 DEF ProcessTypeOK, Environment, LeaderExits, KidExits, Fork, Reuse
    <2>2. foreign' \in BOOLEAN
      BY <1>1 DEF ProcessTypeOK, Environment, LeaderExits, KidExits, Fork, Reuse
    <2>3. UNCHANGED <<step, call, report, warned, missed, outputs, calls>>
      BY <1>1 DEF Environment
    <2> QED BY <2>1, <2>2, <2>3 DEF ProcessTypeOK
  <1>2. CASE StartCall
    BY <1>2
       DEF ProcessTypeOK, StartCall, StartSucceeds, StartRaises,
           StartRefusesGroup,
                StartAborts, Reap, Continue, osVars
  <1>3. CASE Calls
    <2>1. /\ leader' \in {"absent", "running", "exited", "reaped"}
          /\ UNCHANGED <<kids, foreign, hit, outputs>>
      BY <1>3
         DEF ProcessTypeOK, Calls, WaitCall, StopCall, StopLeaderFirstCall,
             Enter,
                  Reap, osVars
    <2>2. /\ step' \in {"waiting", "probe", "termPoll", "leadSignal"}
          /\ call' \in Methods
      BY <1>3 DEF Calls, WaitCall, StopCall, StopLeaderFirstCall, Enter, Continue,
                  Methods
    <2>3. /\ warned' = FALSE /\ missed' = FALSE
          /\ report' = [terminated |-> FALSE, killed |-> FALSE]
          /\ calls < MaxCalls /\ calls' = calls + 1
      BY <1>3 DEF Calls, WaitCall, StopCall, StopLeaderFirstCall, Enter
    <2>4. warned' \in BOOLEAN /\ missed' \in BOOLEAN
      BY <2>3
    <2>5. report' \in [terminated : BOOLEAN, killed : BOOLEAN]
      BY <2>3
    <2>6. calls' \in 0 .. MaxCalls
      BY <2>3 DEF ProcessTypeOK
    <2> QED BY <2>1, <2>2, <2>4, <2>5, <2>6 DEF ProcessTypeOK, Finishing
  <1>4. ASSUME WaitEnds \/ WaitTimesOut \/ LeaderSignal \/ LeaderWaitEnds
               \/ LeaderWaitTimesOut \/ TermPoll
        PROVE  ProcessTypeOK'
    BY <1>4 DEF ProcessTypeOK, WaitEnds, WaitTimesOut, LeaderSignal, LeaderWaitEnds,
                LeaderWaitTimesOut, TermPoll, Continue, Reap, Quiet, osVars,
                Finishing
  <1>5. ASSUME TermSend \/ GraceEnds \/ GraceTimesOut \/ KillPoll \/ KillSend
               \/ ReapAndReturn
        PROVE  ProcessTypeOK'
    BY <1>5
       DEF ProcessTypeOK, TermSend, GraceEnds, GraceTimesOut, KillPoll,
           KillSend,
                ReapAndReturn, Deliver, Continue, Reap, Quiet, Return, osVars,
                Finishing
  <1>6. CASE Finish
    BY <1>6 DEF ProcessTypeOK, Finish, Probe, FinishTerm, Sleep, ProbeAgain,
                FinishKill, Denied, Deliver, Continue, Quiet, Return, osVars,
                Finishing
  <1>7. CASE UNCHANGED processVars
    BY <1>7 DEF ProcessTypeOK, processVars, osVars
  <1> QED
    BY <1>1, <1>2, <1>3, <1>4, <1>5, <1>6, <1>7 DEF ProcessNext, Running

\* Every variable keeps its type; a call reports two Booleans on every path.
THEOREM ProcessTypeCorrect == ProcessSpec => []ProcessTypeOK
  <1>1. ProcessInit => ProcessTypeOK
    <2> SUFFICES ASSUME ProcessInit PROVE ProcessTypeOK
      OBVIOUS
    <2>1. foreign \in BOOLEAN /\ warned \in BOOLEAN /\ missed \in BOOLEAN
      BY DEF ProcessInit
    <2>2. report \in [terminated : BOOLEAN, killed : BOOLEAN]
      BY DEF ProcessInit
    <2>3. calls \in 0 .. MaxCalls
      BY ProcessAssumption DEF ProcessInit
    <2> QED BY <2>1, <2>2, <2>3 DEF ProcessInit, ProcessTypeOK
  <1> QED BY <1>1, ProcessTypeStep, PTL DEF ProcessSpec

-----------------------------------------------------------------------------

\* What the operating system does between two steps of a call cannot undo what
\* the call knows: a group without leader and members does not grow again.
LEMMA EnvironmentStep == ProcessTypeOK /\ ProcessInv /\ Environment => ProcessInv'
  <1> SUFFICES ASSUME ProcessTypeOK, ProcessInv, Environment PROVE ProcessInv'
    OBVIOUS
  <1> USE DEF ProcessInv, ForeignIsLast, LeaderKnown, SurvivorsKnown, TermReported,
              HasExited
  <1>1. UNCHANGED <<step, report, missed, calls>>
    BY DEF Environment
  <1>2. CASE LeaderExits
    BY <1>1, <1>2 DEF LeaderExits, Finishing
  <1>3. CASE KidExits
    BY <1>1, <1>3 DEF KidExits
  <1>4. CASE Fork
    BY <1>1, <1>4 DEF Fork
  <1>5. CASE Reuse
    BY <1>1, <1>5 DEF Reuse
  <1> QED BY <1>2, <1>3, <1>4, <1>5 DEF Environment

\* The inductive step of a call, one action after the other.
LEMMA CallStep ==
    ProcessTypeOK /\ ProcessInv /\ (StartCall \/ Calls \/ Running) => ProcessInv'
  <1> SUFFICES ASSUME ProcessTypeOK, ProcessInv, StartCall \/ Calls \/ Running
               PROVE  ProcessInv'
    OBVIOUS
  <1> USE DEF ProcessInv, ForeignIsLast, LeaderKnown, SurvivorsKnown, TermReported,
              HasExited, Continue, Reap, Quiet, Finishing
  <1>1. CASE StartCall
    BY <1>1 DEF StartCall, StartSucceeds, StartRaises, StartRefusesGroup,
                StartAborts, osVars, ProcessTypeOK
  <1>2. CASE Calls
    BY <1>2 DEF Calls, WaitCall, StopCall, StopLeaderFirstCall, Enter, osVars,
                ProcessTypeOK
  <1>3. CASE WaitEnds \/ WaitTimesOut
    BY <1>3 DEF WaitEnds, WaitTimesOut, osVars
  <1>4. CASE LeaderSignal
    BY <1>4 DEF LeaderSignal, osVars, ProcessTypeOK
  <1>5. CASE LeaderWaitEnds \/ LeaderWaitTimesOut
    BY <1>5 DEF LeaderWaitEnds, LeaderWaitTimesOut, osVars
  <1>6. CASE TermPoll
    <2>1. CASE HasExited
      BY <1>6, <2>1 DEF TermPoll
    <2>2. CASE ~HasExited
      BY <1>6, <2>2 DEF TermPoll, osVars, ProcessTypeOK
    <2> QED BY <2>1, <2>2
  <1>7. CASE TermSend
    BY <1>7 DEF TermSend, Deliver, ProcessTypeOK
  <1>8. CASE GraceEnds \/ GraceTimesOut
    BY <1>8 DEF GraceEnds, GraceTimesOut, osVars
  <1>9. CASE KillPoll
    <2>1. CASE HasExited
      BY <1>9, <2>1 DEF KillPoll
    <2>2. CASE ~HasExited
      BY <1>9, <2>2 DEF KillPoll, osVars, ProcessTypeOK
    <2> QED BY <2>1, <2>2
  <1>10. CASE KillSend
    BY <1>10 DEF KillSend, Deliver, ProcessTypeOK
  <1>11. CASE ReapAndReturn
    BY <1>11 DEF ReapAndReturn, Return
  <1>12. CASE Probe
    BY <1>12 DEF Probe, GroupExists, Return, osVars, ProcessTypeOK
  <1>13. CASE FinishTerm \/ Sleep
    BY <1>13 DEF FinishTerm, Sleep, Deliver, osVars
  <1>14. CASE ProbeAgain
    BY <1>14 DEF ProbeAgain, GroupExists, Return, osVars
  <1>15. CASE FinishKill
    BY <1>15 DEF FinishKill, Deliver, Return, ProcessTypeOK
  <1>16. CASE Denied
    BY <1>16 DEF Denied, Return, osVars
  <1> QED
    BY <1>1, <1>2, <1>3, <1>4, <1>5, <1>6, <1>7, <1>8, <1>9, <1>10, <1>11,
       <1>12, <1>13, <1>14, <1>15, <1>16
    DEF Running, Finish

\* The inductive invariant of a managed process.
THEOREM ProcessInvHolds == ProcessSpec => []ProcessInv
  <1>1. ProcessInit => ProcessInv
    BY DEF ProcessInit, ProcessInv, ForeignIsLast, LeaderKnown, SurvivorsKnown,
       TermReported,
           Finishing
  <1>2. ProcessTypeOK /\ ProcessInv /\ [ProcessNext]_processVars => ProcessInv'
    <2>1. ProcessTypeOK /\ ProcessInv /\ UNCHANGED processVars => ProcessInv'
      BY DEF ProcessInv, ForeignIsLast, LeaderKnown, SurvivorsKnown, TermReported,
             HasExited, processVars, osVars
    <2> QED BY <2>1, EnvironmentStep, CallStep DEF ProcessNext
  <1> QED BY <1>1, <1>2, ProcessTypeCorrect, PTL DEF ProcessSpec

\* wait, stop and stop_leader_first reap the leader, and return with members of
\* the group alive only if the leader exited just before SIGKILL was due.
THEOREM OnlyMissedKillLeavesSurvivorsHolds ==
    ProcessSpec => []OnlyMissedKillLeavesSurvivors
  <1>1. ProcessInv => OnlyMissedKillLeavesSurvivors
    BY DEF ProcessInv, LeaderKnown, SurvivorsKnown, OnlyMissedKillLeavesSurvivors,
           Returned
  <1> QED BY <1>1, ProcessInvHolds, PTL

\* A result that says killed says terminated.
THEOREM KilledImpliesTerminatedHolds == ProcessSpec => []KilledImpliesTerminated
  <1>1. ProcessInv => KilledImpliesTerminated
    BY DEF ProcessInv, TermReported, KilledImpliesTerminated
  <1> QED BY <1>1, ProcessInvHolds, PTL

\* As long as the leader is unreaped no signal reaches a recycled group id.
THEOREM VerifiedSignalsStayHomeHolds == ProcessSpec => VerifiedSignalsStayHome
  <1>1. ProcessInv /\ [ProcessNext]_processVars =>
            (hit' # hit => step \in Finishing) \/ UNCHANGED processVars
    <2> SUFFICES ASSUME ProcessInv, ProcessNext, hit' # hit PROVE step \in Finishing
      BY DEF processVars, osVars
    <2>1. CASE Environment \/ StartCall \/ Calls
      BY <2>1 DEF Environment, LeaderExits, KidExits, Fork, Reuse, StartCall,
                  StartSucceeds, StartRaises, StartRefusesGroup, StartAborts,
                  Calls, WaitCall, StopCall, StopLeaderFirstCall, Reap, osVars
    <2>2. CASE TermSend \/ KillSend
      BY <2>2
         DEF TermSend, KillSend, Deliver, ProcessInv, LeaderKnown, ForeignIsLast
    <2>3. CASE Finish
      BY <2>3 DEF Finish, Probe, FinishTerm, Sleep, ProbeAgain, FinishKill,
                  Denied, Finishing
    <2>4. CASE WaitEnds \/ WaitTimesOut \/ LeaderSignal \/ LeaderWaitEnds
               \/ LeaderWaitTimesOut \/ TermPoll \/ GraceEnds \/ GraceTimesOut
               \/ KillPoll \/ ReapAndReturn
      BY <2>4 DEF WaitEnds, WaitTimesOut, LeaderSignal, LeaderWaitEnds,
                  LeaderWaitTimesOut, TermPoll, GraceEnds, GraceTimesOut,
                  KillPoll, ReapAndReturn, Reap, osVars
    <2> QED BY <2>1, <2>2, <2>3, <2>4 DEF ProcessNext, Running
  <1> QED BY <1>1, ProcessInvHolds, PTL DEF ProcessSpec, VerifiedSignalsStayHome

-----------------------------------------------------------------------------
(* The inductive invariant of the proxy                                    *)

\* At most one handler holds the lock; its number is the newest one drawn and
\* newer than the last line.
LockInv ==
    /\ last <= sequence
    /\ \A r \in lock : number[r] = sequence /\ last < sequence
    /\ \A r, s \in lock : r = s

\* How many markers of a request are in the file at each step of its handler.
LinesInv ==
    \A r \in Requests :
        /\ \A i \in 1 .. Len(file[r]) : file[r][i] = i
        /\ point[r] \in {"none", "received"} => Len(file[r]) = 0
        /\ point[r] = "prefillStart" => Len(file[r]) = 1
        /\ point[r] \in {"askPrefill", "prefill", "prefillEnd"} => Len(file[r]) = 2
        /\ point[r] = "exportStart" => Len(file[r]) = 3
        /\ point[r] = "exportEnd" => Len(file[r]) = 4
        /\ point[r] = "handoff" => Len(file[r]) = 5
        /\ point[r] \in {"askDecode", "decode", "relay", "done"} => Len(file[r]) = 6
        /\ Len(file[r]) <= 7

\* How far the servers are at each step of the handler.
PrefillInv ==
    \A r \in Requests :
        /\ point[r] \in {"none", "received", "prefillStart", "askPrefill"} =>
               prefill[r] = "none"
        /\ point[r] = "prefillEnd" => prefill[r] \in {"kv", "nokv", "bad"}
        /\ point[r] = "exportStart" => prefill[r] \in {"kv", "nokv"}
        /\ point[r] \in {"exportEnd", "handoff", "askDecode", "decode", "relay", "done"} =>
               prefill[r] = "kv"
        /\ prefill[r] = "working" => Len(file[r]) = 2

DecodeInv ==
    \A r \in Requests :
        /\ point[r] \in EmitSteps \cup {"none", "askPrefill", "prefill", "askDecode"} =>
               point[r] = "done" \/ decode[r] = "none"
        /\ point[r] = "decode" => decode[r] = "working"
        /\ point[r] = "relay" => decode[r] \in {"working", "streamed"}
        /\ point[r] = "done" => decode[r] \in {"streamed", "cut"}
        /\ decode[r] = "working" => Len(file[r]) = 6
        /\ decode[r] = "streamed" => prefill[r] = "kv" /\ Len(file[r]) >= 6

\* What the client was sent, and whether it has its answer.
SentInv ==
    \A r \in Requests :
        /\ sent[r] = "all" => decode[r] = "streamed"
        /\ client[r] = "ok" => decode[r] = "streamed"
        /\ client[r] = "idle" => point[r] = "none"

ProxyInv == ProxyTypeOK /\ LockInv /\ LinesInv /\ PrefillInv /\ DecodeInv /\ SentInv

-----------------------------------------------------------------------------
(* Facts about the markers and their steps                                 *)

\* The steps that emit a marker are seven.
LEMMA EmitStepsLemma ==
    EmitSteps = {"received", "prefillStart", "prefillEnd", "exportStart",
                 "exportEnd", "handoff", "done"}
BY SMT DEF EmitSteps, Emits

\* Every one of them emits the marker of its own number.
LEMMA EmitsLemma ==
    /\ Emits["received"] = 1 /\ Emits["prefillStart"] = 2 /\ Emits["prefillEnd"] = 3
    /\ Emits["exportStart"] = 4 /\ Emits["exportEnd"] = 5 /\ Emits["handoff"] = 6
    /\ Emits["done"] = 7
BY SMT DEF Emits

\* There are seven markers.
LEMMA MarkersLemma == DOMAIN Markers = 1 .. 7
BY SMT DEF Markers

\* A request is taken only once.
LEMMA AskKeeps ==
    ASSUME ProxyInv, NEW r \in Requests, Ask(r)
    PROVE  ProxyInv'
<1>1. ProxyTypeOK' /\ LockInv'
  BY EmitStepsLemma DEF ProxyInv, ProxyTypeOK, Steps, LockInv, Ask, writer, servers
<1>2. LinesInv'
  BY EmitStepsLemma DEF ProxyInv, ProxyTypeOK, LinesInv, SentInv, Ask, writer,
       servers
<1>3. PrefillInv'
  BY EmitStepsLemma DEF ProxyInv, ProxyTypeOK, LinesInv, PrefillInv, SentInv, Ask,
       writer, servers
<1>4. DecodeInv'
  BY EmitStepsLemma DEF ProxyInv, ProxyTypeOK, LinesInv, PrefillInv, DecodeInv,
       SentInv, Ask, writer, servers
<1>5. SentInv'
  BY EmitStepsLemma DEF ProxyInv, ProxyTypeOK, Steps, DecodeInv, SentInv, Ask,
       writer, servers
<1>6. QED
  BY <1>1, <1>2, <1>3, <1>4, <1>5 DEF ProxyInv

\* What was sent up to [DONE] was decoded.
LEMMA ReadsDoneKeeps ==
    ASSUME ProxyInv, NEW r \in Requests, ReadsDone(r)
    PROVE  ProxyInv'
<1>1. ProxyTypeOK' /\ LockInv' /\ LinesInv' /\ PrefillInv' /\ DecodeInv'
  BY EmitStepsLemma DEF ProxyInv, ProxyTypeOK, Steps, LockInv, LinesInv,
       PrefillInv, DecodeInv, ReadsDone, writer, servers
<1>2. SentInv'
  BY EmitStepsLemma DEF ProxyInv, ProxyTypeOK, Steps, DecodeInv, SentInv,
       ReadsDone, writer, servers
<1>3. QED
  BY <1>1, <1>2 DEF ProxyInv

LEMMA GivesUpKeeps ==
    ASSUME ProxyInv, NEW r \in Requests, GivesUp(r)
    PROVE  ProxyInv'
<1>1. ProxyTypeOK' /\ LockInv' /\ LinesInv' /\ PrefillInv' /\ DecodeInv'
  BY EmitStepsLemma DEF ProxyInv, ProxyTypeOK, Steps, LockInv, LinesInv,
       PrefillInv, DecodeInv, GivesUp, writer, servers
<1>2. SentInv'
  BY EmitStepsLemma DEF ProxyInv, ProxyTypeOK, Steps, DecodeInv, SentInv, GivesUp,
       writer, servers
<1>3. QED
  BY <1>1, <1>2 DEF ProxyInv

\* The lock was free, and the number is the next one.
LEMMA TakeKeeps ==
    ASSUME ProxyInv, NEW r \in Requests, Take(r)
    PROVE  ProxyInv'
<1>1. ProxyTypeOK' /\ LinesInv' /\ PrefillInv' /\ DecodeInv' /\ SentInv'
  BY EmitStepsLemma DEF ProxyInv, ProxyTypeOK, Steps, LinesInv, PrefillInv,
       DecodeInv, SentInv, Take, servers
<1>2. LockInv'
  BY EmitStepsLemma DEF ProxyInv, ProxyTypeOK, LockInv, Take, servers
<1>3. QED
  BY <1>1, <1>2 DEF ProxyInv

\* The line is the newest one of the file, and the next of its request.
LEMMA WriteKeeps ==
    ASSUME ProxyInv, NEW r \in Requests, Write(r)
    PROVE  ProxyInv'
<1>1. ProxyTypeOK'
  BY EmitStepsLemma, EmitsLemma, MarkersLemma DEF ProxyInv, ProxyTypeOK, Steps,
       LinesInv, Write, Advance, Release, After, servers
<1>2. LockInv'
  BY EmitStepsLemma DEF ProxyInv, ProxyTypeOK, LockInv, Write, Advance, Release,
       After, servers
<1>3. LinesInv'
  <2>1. /\ point[r] \in EmitSteps /\ file[r] \in Seq(1 .. 7)
        /\ file' = [file EXCEPT ![r] = Append(@, Emits[point[r]])]
        /\ point' = [point EXCEPT ![r] = After(r)]
    BY MarkersLemma DEF ProxyInv, ProxyTypeOK, Write, Advance
  <2> DEFINE n == Len(file[r])
             m == Len(file'[r])
  <2>2. /\ n \in Nat
        /\ point[r] = "received" => n = 0
        /\ point[r] = "prefillStart" => n = 1
        /\ point[r] = "prefillEnd" => n = 2
        /\ point[r] = "exportStart" => n = 3
        /\ point[r] = "exportEnd" => n = 4
        /\ point[r] = "handoff" => n = 5
        /\ point[r] = "done" => n = 6
    BY <2>1 DEF ProxyInv, LinesInv
  <2>3. file'[r] = Append(file[r], Emits[point[r]]) /\ point'[r] = After(r)
    BY <2>1 DEF ProxyInv, ProxyTypeOK
  <2>4. m = n + 1
    BY <2>1, <2>3
  <2> HIDE DEF n, m
  <2>5. /\ Emits[point[r]] = m /\ m <= 7
        /\ point[r] = "received" => m = 1
        /\ point[r] = "prefillStart" => m = 2
        /\ point[r] = "prefillEnd" => m = 3
        /\ point[r] = "exportStart" => m = 4
        /\ point[r] = "exportEnd" => m = 5
        /\ point[r] = "handoff" => m = 6
    BY <2>1, <2>2, <2>4, EmitStepsLemma, EmitsLemma
  <2> USE DEF n, m
  <2>6. \A i \in 1 .. Len(file'[r]) : file'[r][i] = i
    BY <2>1, <2>3, <2>4, <2>5 DEF ProxyInv, LinesInv
  <2>7. \A s \in Requests \ {r} : file'[s] = file[s] /\ point'[s] = point[s]
    BY <2>1 DEF ProxyInv, ProxyTypeOK
  <2>8. /\ point[r] = "received" => point'[r] = "prefillStart"
        /\ point[r] = "prefillStart" => point'[r] = "askPrefill"
        /\ point[r] = "prefillEnd" => point'[r] \in {"raise", "exportStart"}
        /\ point[r] = "exportStart" => point'[r] \in {"raise", "exportEnd"}
        /\ point[r] = "exportEnd" => point'[r] = "handoff"
        /\ point[r] = "handoff" => point'[r] = "askDecode"
        /\ point[r] = "done" => point'[r] = "end"
    BY <2>3 DEF After
  <2>9. QED
    BY <2>1, <2>5, <2>6, <2>7, <2>8, EmitStepsLemma DEF ProxyInv, LinesInv
<1>4. PrefillInv'
  BY EmitStepsLemma DEF ProxyInv, ProxyTypeOK, LinesInv, PrefillInv, Write, Advance,
       Release, After, servers
<1>5. DecodeInv'
  BY EmitStepsLemma DEF ProxyInv, ProxyTypeOK, LinesInv, PrefillInv, DecodeInv,
       Write, Advance, Release, After, servers
<1>6. SentInv'
  BY EmitStepsLemma DEF ProxyInv, ProxyTypeOK, Steps, DecodeInv, SentInv, Write,
       Advance, Release, After, servers
<1>7. QED
  BY <1>1, <1>2, <1>3, <1>4, <1>5, <1>6 DEF ProxyInv

LEMMA WriteFailsKeeps ==
    ASSUME ProxyInv, NEW r \in Requests, WriteFails(r)
    PROVE  ProxyInv'
<1>1. ProxyTypeOK'
  BY EmitStepsLemma, ProxyAssumption DEF ProxyInv, ProxyTypeOK, Steps, WriteFails,
       Raise, Release, servers, Advance
<1>2. LockInv'
  BY EmitStepsLemma DEF ProxyInv, ProxyTypeOK, LockInv, WriteFails, Raise, Release,
       servers, Advance
<1>3. LinesInv'
  BY EmitStepsLemma DEF ProxyInv, ProxyTypeOK, LinesInv, WriteFails, Raise,
       Release, servers, Advance
<1>4. PrefillInv'
  BY EmitStepsLemma DEF ProxyInv, ProxyTypeOK, LinesInv, PrefillInv, WriteFails,
       Raise, Release, servers, Advance
<1>5. DecodeInv'
  BY EmitStepsLemma DEF ProxyInv, ProxyTypeOK, LinesInv, PrefillInv, DecodeInv,
       WriteFails, Raise, Release, servers, Advance
<1>6. SentInv'
  BY EmitStepsLemma DEF ProxyInv, ProxyTypeOK, Steps, DecodeInv, SentInv,
       WriteFails, Raise, Release, servers, Advance
<1>7. QED
  BY <1>1, <1>2, <1>3, <1>4, <1>5, <1>6 DEF ProxyInv

LEMMA AskPrefillKeeps ==
    ASSUME ProxyInv, NEW r \in Requests, AskPrefill(r)
    PROVE  ProxyInv'
<1>1. ProxyTypeOK' /\ LockInv'
  BY EmitStepsLemma DEF ProxyInv, ProxyTypeOK, Steps, LockInv, AskPrefill, Advance,
       Raise, writer
<1>2. LinesInv'
  BY EmitStepsLemma DEF ProxyInv, ProxyTypeOK, LinesInv, AskPrefill, Advance, Raise,
       writer
<1>3. PrefillInv'
  BY EmitStepsLemma DEF ProxyInv, ProxyTypeOK, LinesInv, PrefillInv, AskPrefill,
       Advance, Raise, writer
<1>4. DecodeInv'
  BY EmitStepsLemma DEF ProxyInv, ProxyTypeOK, LinesInv, PrefillInv, DecodeInv,
       AskPrefill, Advance, Raise, writer
<1>5. SentInv'
  BY EmitStepsLemma DEF ProxyInv, ProxyTypeOK, Steps, DecodeInv, SentInv,
       AskPrefill, Advance, Raise, writer
<1>6. QED
  BY <1>1, <1>2, <1>3, <1>4, <1>5 DEF ProxyInv

LEMMA PrefillAnswersKeeps ==
    ASSUME ProxyInv, NEW r \in Requests, PrefillAnswers(r)
    PROVE  ProxyInv'
<1>1. ProxyTypeOK' /\ LockInv'
  BY EmitStepsLemma DEF ProxyInv, ProxyTypeOK, Steps, LockInv, PrefillAnswers,
       Advance, writer
<1>2. LinesInv'
  BY EmitStepsLemma DEF ProxyInv, ProxyTypeOK, LinesInv, PrefillAnswers, Advance,
       writer
<1>3. PrefillInv'
  BY EmitStepsLemma DEF ProxyInv, ProxyTypeOK, LinesInv, PrefillInv,
       PrefillAnswers, Advance, writer
<1>4. DecodeInv'
  BY EmitStepsLemma DEF ProxyInv, ProxyTypeOK, LinesInv, PrefillInv, DecodeInv,
       PrefillAnswers, Advance, writer
<1>5. SentInv'
  BY EmitStepsLemma DEF ProxyInv, ProxyTypeOK, Steps, DecodeInv, SentInv,
       PrefillAnswers, Advance, writer
<1>6. QED
  BY <1>1, <1>2, <1>3, <1>4, <1>5 DEF ProxyInv

LEMMA PrefillFailsKeeps ==
    ASSUME ProxyInv, NEW r \in Requests, PrefillFails(r)
    PROVE  ProxyInv'
<1>1. ProxyTypeOK' /\ LockInv'
  BY EmitStepsLemma DEF ProxyInv, ProxyTypeOK, Steps, LockInv, PrefillFails, Raise,
       writer, servers, Advance
<1>2. LinesInv'
  BY EmitStepsLemma DEF ProxyInv, ProxyTypeOK, LinesInv, PrefillFails, Raise,
       writer, servers, Advance
<1>3. PrefillInv'
  BY EmitStepsLemma DEF ProxyInv, ProxyTypeOK, LinesInv, PrefillInv, PrefillFails,
       Raise, writer, servers, Advance
<1>4. DecodeInv'
  BY EmitStepsLemma DEF ProxyInv, ProxyTypeOK, LinesInv, PrefillInv, DecodeInv,
       PrefillFails, Raise, writer, servers, Advance
<1>5. SentInv'
  BY EmitStepsLemma DEF ProxyInv, ProxyTypeOK, Steps, DecodeInv, SentInv,
       PrefillFails, Raise, writer, servers, Advance
<1>6. QED
  BY <1>1, <1>2, <1>3, <1>4, <1>5 DEF ProxyInv

LEMMA AskDecodeKeeps ==
    ASSUME ProxyInv, NEW r \in Requests, AskDecode(r)
    PROVE  ProxyInv'
<1>1. ProxyTypeOK' /\ LockInv'
  BY EmitStepsLemma DEF ProxyInv, ProxyTypeOK, Steps, LockInv, AskDecode, Advance,
       Raise, writer
<1>2. LinesInv'
  BY EmitStepsLemma DEF ProxyInv, ProxyTypeOK, LinesInv, AskDecode, Advance, Raise,
       writer
<1>3. PrefillInv'
  BY EmitStepsLemma DEF ProxyInv, ProxyTypeOK, LinesInv, PrefillInv, AskDecode,
       Advance, Raise, writer
<1>4. DecodeInv'
  BY EmitStepsLemma DEF ProxyInv, ProxyTypeOK, LinesInv, PrefillInv, DecodeInv,
       AskDecode, Advance, Raise, writer
<1>5. SentInv'
  <2>1. decode[r] = "none"
    BY EmitStepsLemma DEF ProxyInv, DecodeInv, AskDecode
  <2>2. sent[r] # "all" /\ client[r] # "ok" /\ client[r] # "idle"
    BY <2>1 DEF ProxyInv, SentInv, AskDecode
  <2>3. QED
    BY <2>1, <2>2 DEF ProxyInv, ProxyTypeOK, Steps, SentInv, AskDecode, Advance, Raise,
       writer
<1>6. QED
  BY <1>1, <1>2, <1>3, <1>4, <1>5 DEF ProxyInv

LEMMA RelayStatusKeeps ==
    ASSUME ProxyInv, NEW r \in Requests, RelayStatus(r)
    PROVE  ProxyInv'
<1>1. ProxyTypeOK' /\ LockInv'
  BY EmitStepsLemma DEF ProxyInv, ProxyTypeOK, Steps, LockInv, RelayStatus, Advance,
       Raise, writer, servers
<1>2. LinesInv'
  BY EmitStepsLemma DEF ProxyInv, ProxyTypeOK, LinesInv, RelayStatus, Advance, Raise,
       writer, servers
<1>3. PrefillInv'
  BY EmitStepsLemma DEF ProxyInv, ProxyTypeOK, LinesInv, PrefillInv, RelayStatus,
       Advance, Raise, writer, servers
<1>4. DecodeInv'
  BY EmitStepsLemma DEF ProxyInv, ProxyTypeOK, LinesInv, PrefillInv, DecodeInv,
       RelayStatus, Advance, Raise, writer, servers
<1>5. SentInv'
  BY EmitStepsLemma DEF ProxyInv, ProxyTypeOK, Steps, DecodeInv, SentInv,
       RelayStatus, Advance, Raise, writer, servers
<1>6. QED
  BY <1>1, <1>2, <1>3, <1>4, <1>5 DEF ProxyInv

LEMMA DecodeFailsKeeps ==
    ASSUME ProxyInv, NEW r \in Requests, DecodeFails(r)
    PROVE  ProxyInv'
<1>1. ProxyTypeOK' /\ LockInv'
  BY EmitStepsLemma DEF ProxyInv, ProxyTypeOK, Steps, LockInv, DecodeFails, Raise,
       writer, servers, Advance
<1>2. LinesInv'
  BY EmitStepsLemma DEF ProxyInv, ProxyTypeOK, LinesInv, DecodeFails, Raise,
       writer, servers, Advance
<1>3. PrefillInv'
  BY EmitStepsLemma DEF ProxyInv, ProxyTypeOK, LinesInv, PrefillInv, DecodeFails,
       Raise, writer, servers, Advance
<1>4. DecodeInv'
  BY EmitStepsLemma DEF ProxyInv, ProxyTypeOK, LinesInv, PrefillInv, DecodeInv,
       DecodeFails, Raise, writer, servers, Advance
<1>5. SentInv'
  BY EmitStepsLemma DEF ProxyInv, ProxyTypeOK, Steps, DecodeInv, SentInv,
       DecodeFails, Raise, writer, servers, Advance
<1>6. QED
  BY <1>1, <1>2, <1>3, <1>4, <1>5 DEF ProxyInv

LEMMA RelayDoneKeeps ==
    ASSUME ProxyInv, NEW r \in Requests, RelayDone(r)
    PROVE  ProxyInv'
<1>1. ProxyTypeOK' /\ LockInv' /\ LinesInv' /\ PrefillInv'
  BY EmitStepsLemma DEF ProxyInv, ProxyTypeOK, Steps, LockInv, LinesInv,
       PrefillInv, RelayDone, writer
<1>2. DecodeInv'
  <2>1. Len(file[r]) = 6 /\ prefill[r] = "kv"
    BY DEF ProxyInv, LinesInv, PrefillInv, RelayDone
  <2>2. decode'[r] = "streamed" /\ point[r] = "relay"
    BY DEF ProxyInv, ProxyTypeOK, RelayDone
  <2>3. \A s \in Requests \ {r} : decode'[s] = decode[s]
    BY DEF ProxyInv, ProxyTypeOK, RelayDone
  <2>4. point' = point /\ file' = file /\ prefill' = prefill
    BY DEF RelayDone, writer
  <2>5. QED
    BY <2>1, <2>2, <2>3, <2>4, EmitStepsLemma DEF ProxyInv, DecodeInv
<1>3. SentInv'
  BY DEF ProxyInv, ProxyTypeOK, SentInv, RelayDone, writer
<1>4. QED
  BY <1>1, <1>2, <1>3 DEF ProxyInv

LEMMA RelayEndsKeeps ==
    ASSUME ProxyInv, NEW r \in Requests, RelayEnds(r)
    PROVE  ProxyInv'
<1>1. ProxyTypeOK' /\ LockInv'
  BY EmitStepsLemma DEF ProxyInv, ProxyTypeOK, Steps, LockInv, RelayEnds, Advance,
       writer
<1>2. LinesInv'
  BY EmitStepsLemma DEF ProxyInv, ProxyTypeOK, LinesInv, RelayEnds, Advance, writer
<1>3. PrefillInv'
  BY EmitStepsLemma DEF ProxyInv, ProxyTypeOK, LinesInv, PrefillInv, RelayEnds,
       Advance, writer
<1>4. DecodeInv'
  BY EmitStepsLemma DEF ProxyInv, ProxyTypeOK, LinesInv, PrefillInv, DecodeInv,
       RelayEnds, Advance, writer
<1>5. SentInv'
  BY EmitStepsLemma DEF ProxyInv, ProxyTypeOK, Steps, DecodeInv, SentInv,
       RelayEnds, Advance, writer
<1>6. QED
  BY <1>1, <1>2, <1>3, <1>4, <1>5 DEF ProxyInv

LEMMA RelayFailsKeeps ==
    ASSUME ProxyInv, NEW r \in Requests, RelayFails(r)
    PROVE  ProxyInv'
<1>1. ProxyTypeOK' /\ LockInv'
  BY EmitStepsLemma DEF ProxyInv, ProxyTypeOK, Steps, LockInv, RelayFails, Raise,
       writer, servers, Advance
<1>2. LinesInv'
  BY EmitStepsLemma DEF ProxyInv, ProxyTypeOK, LinesInv, RelayFails, Raise, writer,
       servers, Advance
<1>3. PrefillInv'
  BY EmitStepsLemma DEF ProxyInv, ProxyTypeOK, LinesInv, PrefillInv, RelayFails,
       Raise, writer, servers, Advance
<1>4. DecodeInv'
  BY EmitStepsLemma DEF ProxyInv, ProxyTypeOK, LinesInv, PrefillInv, DecodeInv,
       RelayFails, Raise, writer, servers, Advance
<1>5. SentInv'
  BY EmitStepsLemma DEF ProxyInv, ProxyTypeOK, Steps, DecodeInv, SentInv,
       RelayFails, Raise, writer, servers, Advance
<1>6. QED
  BY <1>1, <1>2, <1>3, <1>4, <1>5 DEF ProxyInv

LEMMA Answer502Keeps ==
    ASSUME ProxyInv, NEW r \in Requests, Answer502(r)
    PROVE  ProxyInv'
<1>1. ProxyTypeOK' /\ LockInv'
  BY EmitStepsLemma DEF ProxyInv, ProxyTypeOK, Steps, LockInv, Answer502, Advance,
       writer, servers
<1>2. LinesInv'
  BY EmitStepsLemma DEF ProxyInv, ProxyTypeOK, LinesInv, Answer502, Advance, writer,
       servers
<1>3. PrefillInv'
  BY EmitStepsLemma DEF ProxyInv, ProxyTypeOK, LinesInv, PrefillInv, Answer502,
       Advance, writer, servers
<1>4. DecodeInv'
  BY EmitStepsLemma DEF ProxyInv, ProxyTypeOK, LinesInv, PrefillInv, DecodeInv,
       Answer502, Advance, writer, servers
<1>5. SentInv'
  BY EmitStepsLemma DEF ProxyInv, ProxyTypeOK, Steps, DecodeInv, SentInv,
       Answer502, Advance, writer, servers
<1>6. QED
  BY <1>1, <1>2, <1>3, <1>4, <1>5 DEF ProxyInv


\* Every handler under way comes to its end, and nothing is taken up again.
LEMMA ProxyDiesKeeps ==
    ASSUME ProxyInv, ProxyDies
    PROVE  ProxyInv'
<1>1. ProxyTypeOK' /\ LockInv'
  BY EmitStepsLemma DEF ProxyInv, ProxyTypeOK, Steps, LockInv, ProxyDies, servers
<1>2. LinesInv'
  BY EmitStepsLemma DEF ProxyInv, ProxyTypeOK, LinesInv, ProxyDies, servers
<1>3. PrefillInv'
  BY EmitStepsLemma DEF ProxyInv, ProxyTypeOK, LinesInv, PrefillInv, ProxyDies, servers
<1>4. DecodeInv'
  BY EmitStepsLemma DEF ProxyInv, ProxyTypeOK, LinesInv, DecodeInv, ProxyDies, servers
<1>5. SentInv'
  BY EmitStepsLemma DEF ProxyInv, ProxyTypeOK, Steps, SentInv, ProxyDies, servers
<1>6. QED
  BY <1>1, <1>2, <1>3, <1>4, <1>5 DEF ProxyInv

\* The invariant holds before the first request.
LEMMA ProxyStarts == ProxyInit => ProxyInv
BY EmitStepsLemma, ProxyAssumption
DEF ProxyInit, ProxyInv, ProxyTypeOK, Steps, LockInv, LinesInv, PrefillInv, DecodeInv, SentInv

\* Every step of the proxy, its servers and its clients preserves it.
LEMMA ProxyKeeps == ProxyInv /\ [ProxyNext]_proxyVars => ProxyInv'
<1> SUFFICES ASSUME ProxyInv, [ProxyNext]_proxyVars
             PROVE  ProxyInv'
  OBVIOUS
<1>1. CASE UNCHANGED proxyVars
  BY <1>1 DEF ProxyInv, ProxyTypeOK, LockInv, LinesInv, PrefillInv, DecodeInv, SentInv,
              proxyVars, writer, servers
<1>2. CASE ProxyDies
  BY <1>2, ProxyDiesKeeps
<1>3. ASSUME NEW r \in Requests, Ask(r) \/ Client(r)
      PROVE  ProxyInv'
  BY <1>3, AskKeeps, ReadsDoneKeeps, GivesUpKeeps DEF Client
<1>4. ASSUME NEW r \in Requests, Take(r) \/ Write(r) \/ WriteFails(r)
      PROVE  ProxyInv'
  BY <1>4, TakeKeeps, WriteKeeps, WriteFailsKeeps
<1>5. ASSUME NEW r \in Requests, AskPrefill(r) \/ PrefillAnswers(r) \/ PrefillFails(r)
      PROVE  ProxyInv'
  BY <1>5, AskPrefillKeeps, PrefillAnswersKeeps, PrefillFailsKeeps
<1>6. ASSUME NEW r \in Requests, AskDecode(r) \/ RelayStatus(r) \/ DecodeFails(r)
      PROVE  ProxyInv'
  BY <1>6, AskDecodeKeeps, RelayStatusKeeps, DecodeFailsKeeps
<1>7. ASSUME NEW r \in Requests,
             RelayDone(r) \/ RelayEnds(r) \/ RelayFails(r) \/ Answer502(r)
      PROVE  ProxyInv'
  BY <1>7, RelayDoneKeeps, RelayEndsKeeps, RelayFailsKeeps, Answer502Keeps
<1>8. QED
  BY <1>1, <1>2, <1>3, <1>4, <1>5, <1>6, <1>7 DEF ProxyNext, Handler

-----------------------------------------------------------------------------
(* What the proxy guarantees                                               *)

\* Where n lines of a request are in the file, these are its first n markers.
LEMMA MarkedLemma ==
    ASSUME ProxyInv, NEW r \in Requests, NEW n \in Nat, Len(file[r]) = n,
           NEW m \in 1 .. 7
    PROVE  Marked(r, m) <=> m <= n
<1>1. DOMAIN file[r] = 1 .. n
  BY MarkersLemma DEF ProxyInv, ProxyTypeOK
<1>2. \A i \in 1 .. n : file[r][i] = i
  BY DEF ProxyInv, LinesInv
<1> HIDE DEF ProxyInv
<1>3. QED
  BY <1>1, <1>2 DEF Marked

\* The inductive invariant implies the four invariants of the proxy.
LEMMA ProxyImplies ==
    ProxyInv => ProxyTypeOK /\ MarkersArePrefix /\ WorkIsBracketed /\ AnswersAreServed
<1> SUFFICES ASSUME ProxyInv
             PROVE  ProxyTypeOK /\ MarkersArePrefix /\ WorkIsBracketed /\ AnswersAreServed
  OBVIOUS
<1>1. ProxyTypeOK
  BY DEF ProxyInv
<1>2. \A r \in Requests : DOMAIN file[r] = 1 .. Len(file[r]) /\ Len(file[r]) \in Nat
  BY MarkersLemma DEF ProxyInv, ProxyTypeOK
<1>3. MarkersArePrefix
  BY <1>2 DEF ProxyInv, LinesInv, MarkersArePrefix
<1>4. ASSUME NEW r \in Requests, prefill[r] = "working"
      PROVE  Marked(r, 2) /\ ~Marked(r, 3)
  <2>1. Len(file[r]) = 2
    BY <1>4 DEF ProxyInv, PrefillInv
  <2>2. \A m \in 1 .. 7 : Marked(r, m) <=> m <= 2
    BY <2>1, MarkedLemma
  <2>3. QED
    BY <2>2
<1>5. ASSUME NEW r \in Requests, decode[r] = "working"
      PROVE  Marked(r, 6) /\ ~Marked(r, 7)
  <2>1. Len(file[r]) = 6
    BY <1>5 DEF ProxyInv, DecodeInv
  <2>2. \A m \in 1 .. 7 : Marked(r, m) <=> m <= 6
    BY <2>1, MarkedLemma
  <2>3. QED
    BY <2>2
<1>6. ASSUME NEW r \in Requests, client[r] = "ok"
      PROVE  prefill[r] = "kv" /\ decode[r] = "streamed" /\ \A m \in 1 .. 6 : Marked(r, m)
  <2>1. prefill[r] = "kv" /\ decode[r] = "streamed" /\ Len(file[r]) >= 6
    BY <1>6 DEF ProxyInv, DecodeInv, SentInv
  <2>2. \A m \in 1 .. 7 : Marked(r, m) <=> m <= Len(file[r])
    BY <1>2, MarkedLemma
  <2>3. QED
    BY <2>1, <2>2, <1>2
<1>7. QED
  BY <1>1, <1>3, <1>4, <1>5, <1>6 DEF WorkIsBracketed, AnswersAreServed

\* The file grows by lines with higher numbers only.
LEMMA LineIsNewer ==
    ProxyInv /\ [ProxyNext]_proxyVars => [last' # last => last < last']_proxyVars
<1> SUFFICES ASSUME ProxyInv, [ProxyNext]_proxyVars, last' # last
             PROVE  last < last'
  OBVIOUS
<1>1. PICK r \in Requests : Write(r)
  BY DEF ProxyNext, Client, Handler, ProxyDies, Ask, ReadsDone, GivesUp, Take, WriteFails,
         AskPrefill, PrefillAnswers, PrefillFails, AskDecode, RelayStatus, DecodeFails,
         RelayDone, RelayEnds, RelayFails, Answer502, proxyVars, writer
<1>2. QED
  BY <1>1 DEF ProxyInv, LockInv, Write

\* Whatever the proxy, its servers and its clients do, the inductive invariant
\* holds.
LEMMA ProxyAlways == ProxySpec => []ProxyInv
BY ProxyStarts, ProxyKeeps, PTL DEF ProxySpec

\* The markers of every request are a prefix of the sequence, a server works on
\* it only between its markers, and no client has an answer it was not served.
THEOREM ProxyIsSafe ==
    ProxySpec => [](ProxyTypeOK /\ MarkersArePrefix /\ WorkIsBracketed /\ AnswersAreServed)
BY ProxyAlways, ProxyImplies, PTL

\* The lines of all handlers are in the order of their numbers.
THEOREM ProxyLinesAreOrdered == ProxySpec => LinesAreOrdered
BY ProxyAlways, LineIsNewer, PTL DEF ProxySpec, LinesAreOrdered

-----------------------------------------------------------------------------
(* The wave                                                                *)

\* A thread that asks has passed the barrier, which nobody passed without all.
GateInv ==
    /\ \A r \in Requests : thread[r] = "run" <=> client[r] # "idle"
    /\ gate = "open" => \A r \in Requests : thread[r] \in {"gate", "run"}
    /\ \A r \in Requests : thread[r] = "run" => gate = "open"

\* What the runner has seen stays so: it goes on when all clients are over.
RunnerInv ==
    /\ runner # "dispatch" => \A r \in Requests : Over(r)
    /\ runner \in {"drain", "drained"} => \A r \in Requests : client[r] = "ok"
    /\ runner = "drained" => \A r \in Requests : Len(file[r]) = 7

WaveInv == WaveTypeOK /\ ProxyInv /\ GateInv /\ RunnerInv

\* A step of the wave is a step of the proxy or none that it notices.
LEMMA WaveStepsTheProxy == [WaveNext]_allVars => [ProxyNext]_proxyVars
BY DEF WaveNext, ProxyNext, Judge, Drain, Thread, Arrive, NoThread, GateTimeout, Send,
       allVars, waveVars

\* A wave shows only behaviours of the proxy: all that holds of Proxy holds here.
THEOREM WaveImplementsProxy == WaveSpec => ProxySpec
<1>1. WaveInit => ProxyInit
  BY DEF WaveInit
<1>2. QED
  BY <1>1, WaveStepsTheProxy, PTL DEF WaveSpec, ProxySpec

\* The steps of the threads, of their clients and of the runner.
LEMMA ThreadKeeps ==
    ASSUME WaveInv, NEW r \in Requests, Thread(r), ProxyInv'
    PROVE  WaveInv'
<1>1. CASE Arrive(r)
  <2>1. WaveTypeOK' /\ GateInv'
    BY <1>1 DEF WaveInv, WaveTypeOK, GateInv, ProxyInv, Arrive, Become, proxyVars
  <2>2. RunnerInv'
    BY <1>1 DEF WaveInv, WaveTypeOK, GateInv, RunnerInv, Over, Arrive, Become, proxyVars,
                writer
  <2>3. QED
    BY <2>1, <2>2 DEF WaveInv
<1>2. CASE NoThread(r)
  <2>1. WaveTypeOK' /\ GateInv'
    BY <1>2 DEF WaveInv, WaveTypeOK, GateInv, ProxyInv, NoThread, Become, proxyVars
  <2>2. RunnerInv'
    BY <1>2 DEF WaveInv, WaveTypeOK, GateInv, RunnerInv, Over, NoThread, Become, proxyVars,
                writer
  <2>3. QED
    BY <2>1, <2>2 DEF WaveInv
<1>3. CASE GateTimeout(r)
  <2>1. WaveTypeOK' /\ GateInv'
    BY <1>3 DEF WaveInv, WaveTypeOK, GateInv, ProxyInv, GateTimeout, Become, proxyVars
  <2>2. RunnerInv'
    BY <1>3 DEF WaveInv, WaveTypeOK, GateInv, RunnerInv, Over, GateTimeout, Become,
                proxyVars, writer
  <2>3. QED
    BY <2>1, <2>2 DEF WaveInv
<1>4. CASE Send(r)
  <2>1. WaveTypeOK' /\ GateInv'
    BY <1>4 DEF WaveInv, WaveTypeOK, GateInv, ProxyInv, ProxyTypeOK, Send, Become, Ask
  <2>2. RunnerInv'
    BY <1>4 DEF WaveInv, WaveTypeOK, GateInv, RunnerInv, Over, Send, Become, Ask
  <2>3. QED
    BY <2>1, <2>2 DEF WaveInv
<1>5. QED
  BY <1>1, <1>2, <1>3, <1>4 DEF Thread

\* The wave is judged when all its threads are over, and the drain ends well
\* when the last marker of each request is there.
LEMMA RunnerKeeps ==
    ASSUME WaveInv, Judge \/ Drain, ProxyInv'
    PROVE  WaveInv'
<1>1. WaveTypeOK' /\ GateInv'
  BY DEF WaveInv, WaveTypeOK, GateInv, ProxyInv, Judge, Drain, proxyVars
<1>2. CASE Judge
  BY <1>1, <1>2 DEF WaveInv, RunnerInv, Over, Judge, proxyVars
<1>3. CASE Drain
  <2>1. ASSUME Complete, NEW r \in Requests
        PROVE  Len(file[r]) = 7
    <3> DEFINE n == Len(file[r])
    <3>1. Marked(r, 7)
      BY <2>1 DEF Complete
    <3>2. n \in Nat /\ n <= 7
      BY MarkersLemma DEF WaveInv, ProxyInv, ProxyTypeOK, LinesInv
    <3>3. Marked(r, 7) <=> 7 <= n
      BY <3>2, MarkedLemma DEF WaveInv
    <3> HIDE DEF n
    <3>4. n = 7
      BY <3>1, <3>2, <3>3
    <3>5. QED
      BY <3>4 DEF n
  <2>2. RunnerInv'
    BY <1>3, <2>1 DEF WaveInv, RunnerInv, Over, Drain, proxyVars, writer
  <2>3. QED
    BY <1>1, <2>2 DEF WaveInv
<1>4. QED
  BY <1>2, <1>3

\* A client that is over stays so, and a file that is whole is not added to.
LEMMA ClientsStayOver ==
    ASSUME WaveInv, ProxyDies \/ \E r \in Requests : Client(r) \/ Handler(r)
    PROVE  /\ \A r \in Requests : client[r] # "idle" <=> client'[r] # "idle"
           /\ \A r \in Requests : client[r] # "asking" => client'[r] = client[r]
           /\ \A r \in Requests : Len(file[r]) = 7 => file'[r] = file[r]
<1>1. CASE ProxyDies
  BY <1>1 DEF ProxyDies
<1>2. CASE \E r \in Requests : Client(r)
  BY <1>2 DEF Client, ReadsDone, GivesUp, WaveInv, ProxyInv, ProxyTypeOK, writer
<1>3. CASE \E r \in Requests : Write(r)
  <2>1. PICK r \in Requests : Write(r)
    BY <1>3
  <2> DEFINE n == Len(file[r])
  <2>2. /\ point[r] \in EmitSteps
        /\ point[r] \in {"received", "prefillStart", "prefillEnd"} => n \in 0 .. 2
        /\ point[r] \in {"exportStart", "exportEnd", "handoff", "done"} => n \in 3 .. 6
    BY <2>1 DEF Write, WaveInv, ProxyInv, LinesInv
  <2> HIDE DEF n
  <2>3. n # 7
    BY <2>2, EmitStepsLemma
  <2> USE DEF n
  <2>4. QED
    BY <2>1, <2>3 DEF Write, WaveInv, ProxyInv, ProxyTypeOK
<1>4. CASE \E r \in Requests : Handler(r) /\ ~Write(r)
  BY <1>4 DEF Handler, Take, WriteFails, AskPrefill, PrefillAnswers, PrefillFails,
              AskDecode, RelayStatus, DecodeFails, RelayDone, RelayEnds, RelayFails,
              Answer502, writer
<1>5. QED
  BY <1>1, <1>2, <1>3, <1>4

\* The steps of the proxy, its servers and its clients during a wave.
LEMMA ProxyKeepsWave ==
    ASSUME WaveInv, UNCHANGED waveVars, ProxyInv',
           ProxyDies \/ \E r \in Requests : Client(r) \/ Handler(r)
    PROVE  WaveInv'
<1>1. WaveTypeOK' /\ GateInv'
  BY ClientsStayOver DEF WaveInv, WaveTypeOK, GateInv, ProxyInv, waveVars
<1>2. RunnerInv'
  BY ClientsStayOver DEF WaveInv, GateInv, RunnerInv, Over, waveVars
<1>3. QED
  BY <1>1, <1>2 DEF WaveInv

\* The inductive invariant of the wave.
LEMMA WaveAlways == WaveSpec => []WaveInv
<1>1. WaveInit => WaveInv
  BY ProxyStarts
  DEF WaveInit, WaveInv, WaveTypeOK, GateInv, RunnerInv, ProxyInv, ProxyInit
<1>2. WaveInv /\ [WaveNext]_allVars => WaveInv'
  <2> SUFFICES ASSUME WaveInv, [WaveNext]_allVars
               PROVE  WaveInv'
    OBVIOUS
  <2>1. ProxyInv'
    BY WaveStepsTheProxy, ProxyKeeps DEF WaveInv
  <2>2. CASE UNCHANGED allVars
    BY <2>1, <2>2 DEF WaveInv, WaveTypeOK, ProxyInv, GateInv, RunnerInv, Over, allVars,
                      waveVars, proxyVars, writer
  <2>3. CASE Judge \/ Drain
    BY <2>1, <2>3, RunnerKeeps
  <2>4. CASE \E r \in Requests : Thread(r)
    BY <2>1, <2>4, ThreadKeeps
  <2>5. CASE /\ ProxyDies \/ \E r \in Requests : Client(r) \/ Handler(r)
             /\ UNCHANGED waveVars
    BY <2>1, <2>5, ProxyKeepsWave
  <2>6. QED
    BY <2>2, <2>3, <2>4, <2>5 DEF WaveNext
<1>3. QED
  BY <1>1, <1>2, PTL DEF WaveSpec

\* The inductive invariant implies the invariants of the wave.
LEMMA WaveImplies ==
    WaveInv => WaveTypeOK /\ WavesAreWhole /\ NoneInFlight /\ DrainedIsComplete
<1> SUFFICES ASSUME WaveInv
             PROVE  WaveTypeOK /\ WavesAreWhole /\ NoneInFlight /\ DrainedIsComplete
  OBVIOUS
<1>1. WaveTypeOK
  BY DEF WaveInv
<1>2. WavesAreWhole
  BY DEF WaveInv, GateInv, WavesAreWhole
<1>3. NoneInFlight
  BY DEF WaveInv, GateInv, RunnerInv, Over, NoneInFlight
<1>4. ASSUME runner = "drained", NEW r \in Requests
      PROVE  /\ prefill[r] = "kv" /\ decode[r] = "streamed"
             /\ \A m \in 1 .. 7 : Marked(r, m)
  <2>1. prefill[r] = "kv" /\ decode[r] = "streamed"
    BY <1>4 DEF WaveInv, RunnerInv, ProxyInv, DecodeInv, SentInv
  <2>2. Len(file[r]) = 7
    BY <1>4 DEF WaveInv, RunnerInv
  <2>3. \A m \in 1 .. 7 : Marked(r, m) <=> m <= 7
    BY <2>2, MarkedLemma DEF WaveInv
  <2>4. QED
    BY <2>1, <2>3
<1>5. QED
  BY <1>1, <1>2, <1>3, <1>4 DEF DrainedIsComplete

\* No request of a wave is sent unless all of them may be, whoever times out.
THEOREM WaveIsWhole == WaveSpec => [](WaveTypeOK /\ WavesAreWhole)
BY WaveAlways, WaveImplies, PTL

\* The runner leaves no client under way behind, and a drain that ends well
\* finds the whole sequence of every request.
THEOREM WaveIsDrained == WaveSpec => [](NoneInFlight /\ DrainedIsComplete)
BY WaveAlways, WaveImplies, PTL

-----------------------------------------------------------------------------
(* Telemetry: the workers, the coordinator and the tickets between them     *)

\* While the coordinator starts threads the ones ahead of it have not run.
StartingInOrder ==
    phase = "start" => \A w \in Workers : w >= turn => poller[w] = "unstarted"

\* A ticket is active only during a poll.
ActiveInPoll ==
    \A w \in Workers :
        poller[w] \in {"unstarted", "idle", "exited"} => active[w] = NoTicket

\* No poll finishes between the request of a ticket and the poll answering it.
TicketsAreFresh ==
    \A w \in Workers :
        /\ pending[w] # NoTicket => pending[w].generation = generation[w]
        /\ active[w] # NoTicket => active[w].generation = generation[w]

\* A poll is numbered by the generation, so the log has one of each number,
\* and the poll that answers a ticket is the one after the request.
LogIsNumbered ==
    \A w \in Workers :
        /\ completed[w] \subseteq {s \in log[w] : s.ticket # NoTicket}
        /\ \A s \in log[w] :
             /\ s.seq <= generation[w]
             /\ s.ticket = NoTicket => s.role = "background"
             /\ s.ticket # NoTicket => /\ s.role = s.ticket.role
                                       /\ s.seq = s.ticket.generation + 1
        /\ \A s, t \in log[w] : s.seq = t.seq => s = t

\* Worker w has been given its ticket of this boundary and the coordinator has
\* not collected the answer.
Owed(w) == \/ phase = "wait" /\ turn <= w
           \/ phase = "request" /\ w < turn

\* The baseline comes before the final boundary.
Stages ==
    /\ phase \in {"start", "ready"} => boundaries = {}
    /\ phase \in {"request", "wait"} =>
           boundaries = IF role = "baseline" THEN {} ELSE {"baseline"}
    /\ phase = "measuring" => boundaries = {"baseline"}

\* No capture has failed, and none can fail any more.
Regular == \/ phase \in {"start", "ready", "request", "wait", "measuring"}
           \/ boundaries = Boundary

\* In a regular run the only tickets around are the owed ones.
TicketsAreOwed ==
    /\ Regular => \A w \in Workers :
           ~Owed(w) => pending[w] = NoTicket /\ active[w] = NoTicket
    /\ \A w \in Workers :
           Owed(w) => /\ ticket[w] \in Ticket /\ ticket[w].role = role
                      /\ pending[w] \in {NoTicket, ticket[w]}
                      /\ active[w] \in {NoTicket, ticket[w]}

\* The coordinator holds role r of worker w.
Holds(r, w) == r \in boundaries \/ (phase = "wait" /\ r = role /\ w < turn)

HeldIsLogged ==
    \A r \in Boundary, w \in Workers : Holds(r, w) =>
        /\ readings[r][w] \in log[w] /\ readings[r][w].role = r
        /\ readings[r][w].ticket # NoTicket
        /\ readings[r][w].kind \in IF r \in boundaries THEN {"records"}
                                                   ELSE {"records", "empty"}

\* In a regular run every boundary sample is held or waits for collection.
SamplesAccounted ==
    Regular => \A w \in Workers : \A s \in log[w] :
        s.role # "background" =>
            \/ \E r \in Boundary : Holds(r, w) /\ s = readings[r][w]
            \/ Owed(w) /\ s \in Answered(w)

\* The final poll of a worker comes after its baseline one.
BaselineFirst ==
    \A w \in Workers :
        /\ role = "final" /\ Owed(w) =>
               readings["baseline"][w].seq <= ticket[w].generation
        /\ Holds("baseline", w) /\ Holds("final", w) =>
               readings["baseline"][w].seq < readings["final"][w].seq

StartFailed ==
    <<"run", 0>> \in runErrors /\ \E v \in Workers : poller[v] = "unstarted"

\* A thread that runs after stop has gone past it is on record.
LooseThreadsReported ==
    /\ late # {} => phase = "done"
    /\ \A w \in Workers :
        poller[w] \notin {"unstarted", "exited"} =>
        /\ \/ phase \in {"close", "settle"}
           \/ phase \in {"stop", "join"} /\ w < turn
           => <<"thread", w>> \in telErrors \/ StartFailed
        /\ phase = "done" => <<"thread", w>> \in runErrors \/ StartFailed

-----------------------------------------------------------------------------
(* Types                                                                   *)

\* The sample a poll publishes is one, and it is numbered next.
LEMMA OutcomeType ==
    ASSUME TelemetryTypeOK, NEW w \in Workers, NEW kind \in Kinds
    PROVE  /\ Outcome(w, kind) \in Reading
           /\ Outcome(w, kind).seq = generation[w] + 1
           /\ Outcome(w, kind).kind = kind
           /\ Outcome(w, kind).ticket = Answers(w)
           /\ Answers(w) = NoTicket => Outcome(w, kind).role = "background"
           /\ Answers(w) # NoTicket => Outcome(w, kind).role = Answers(w).role
  BY DEF TelemetryTypeOK, Outcome, Answers, Reading, Ticket, Kinds

\* The initial values have their types.
LEMMA TypeInit == TelemetryInit => TelemetryTypeOK
  BY TelemetryAssumption
  DEF TelemetryInit, TelemetryTypeOK, Workers, Boundary

\* Publishing keeps the types of all it changes.
LEMMA TypePublish ==
    ASSUME TelemetryTypeOK, NEW w \in Workers, NEW kind \in Kinds, Publish(w, kind)
    PROVE  /\ poller' \in [Workers -> {"unstarted", "idle", "taken", "polling",
                                       "refused", "exited"}]
           /\ failed' \in [Workers -> BOOLEAN]
           /\ complete' \in [Workers -> BOOLEAN]
           /\ generation' \in [Workers -> Nat]
           /\ pending' \in [Workers -> Ticket \cup {NoTicket}]
           /\ active' \in [Workers -> Ticket \cup {NoTicket}]
           /\ completed' \in [Workers -> SUBSET Reading]
           /\ log' \in [Workers -> SUBSET Reading]
           /\ telErrors' \subseteq TelErrors
           /\ late' \subseteq Workers
  <1> DEFINE s == Outcome(w, kind)
  <1>1. s \in Reading /\ s.seq \in Nat
    BY OutcomeType DEF TelemetryTypeOK
  <1> HIDE DEF s
  <1>2. /\ pending' = [pending EXCEPT ![w] = NoTicket]
        /\ active' = [active EXCEPT ![w] = NoTicket]
        /\ generation' = [generation EXCEPT ![w] = s.seq]
        /\ log' = [log EXCEPT ![w] = @ \cup {s}]
        /\ completed' = [completed EXCEPT ![w] =
                           IF s.ticket = NoTicket THEN @ ELSE @ \cup {s}]
        /\ complete' = [complete EXCEPT ![w] = @ \/ s.role = "final"]
        /\ failed' = [failed EXCEPT ![w] = @ \/ kind = "error"]
        /\ telErrors' = IF kind = "error" THEN telErrors \cup {<<"poll", w>>}
                                          ELSE telErrors
        /\ poller' = [poller EXCEPT ![w] =
                        IF kind = "error" \/ complete'[w] THEN "exited" ELSE "idle"]
        /\ late' = IF phase = "done" THEN late \cup {w} ELSE late
    BY DEF Publish, s
  <1> QED BY <1>1, <1>2 DEF TelemetryTypeOK, TelErrors

\* Every step of a thread or of the coordinator keeps the types.
LEMMA TypeStep == TelemetryTypeOK /\ [TelemetryNext]_telemetryVars => TelemetryTypeOK'
  <1> SUFFICES ASSUME TelemetryTypeOK, [TelemetryNext]_telemetryVars PROVE TelemetryTypeOK'
    OBVIOUS
  <1>0. Devices \in Nat \ {0} /\ 1 <= Devices /\ 1 \in 1 .. Devices + 1 /\ Workers = 1 .. Devices
    BY TelemetryAssumption DEF Workers
  <1>1. CASE StartThread
    <2>1. turn \in Workers /\ turn + 1 \in 1 .. Devices + 1
      BY <1>0, <1>1 DEF TelemetryTypeOK, StartThread
    <2> QED BY <2>1, <1>0, <1>1 DEF TelemetryTypeOK, StartThread, Proceed, captureVars
  <1>2. CASE StartThreadRaises \/ RunFails
    BY <1>0, <1>2 DEF TelemetryTypeOK, StartThreadRaises, RunFails, Proceed, captureVars,
                workerVars
  <1>3. CASE Capture
    BY <1>0, <1>3 DEF TelemetryTypeOK, Capture, Proceed, workerVars, Boundary
  <1>4. CASE Request
    <2>1. /\ turn \in Workers /\ turn + 1 \in 1 .. Devices + 1
          /\ turn # Devices => turn + 1 <= Devices
      BY <1>0, <1>4 DEF TelemetryTypeOK, Request
    <2>2. [role |-> role, generation |-> generation[turn]] \in Ticket
      BY <2>1 DEF TelemetryTypeOK, Ticket
    <2>3. /\ pending' \in [Workers -> Ticket \cup {NoTicket}]
          /\ ticket' \in [Workers -> Ticket \cup {NoTicket}]
      BY <2>2, <1>4 DEF TelemetryTypeOK, Request
    <2>4. phase' \in {"wait", "request"} /\ turn' \in 1 .. Devices + 1
          /\ (phase' = "request" => turn' <= Devices)
      BY <2>1, <1>0, <1>4 DEF Request, Proceed
    <2> QED BY <2>3, <2>4, <1>4 DEF TelemetryTypeOK, Request
  <1>5. CASE RequestRaises \/ WaitRaises \/ StoreRaises
    BY <1>0, <1>5 DEF TelemetryTypeOK, RequestRaises, WaitRaises, StoreRaises,
                      CaptureFails, Proceed, workerVars
  <1>6. CASE Await
    <2>1. PICK s \in Answered(turn) :
            /\ completed' = [completed EXCEPT ![turn] = @ \ {s}]
            /\ IF s.kind = "error"
               THEN CaptureFails /\ UNCHANGED readings
               ELSE /\ readings' = [readings EXCEPT ![role][turn] = s]
                    /\ Proceed("wait", turn + 1)
                    /\ UNCHANGED <<role, ticket, boundaries, runErrors>>
      BY <1>6 DEF Await
    <2>2. turn \in Workers /\ turn + 1 \in 1 .. Devices + 1
      BY <1>0, <1>6 DEF TelemetryTypeOK, Await
    <2>3. s \in Reading
      BY <2>1, <2>2 DEF TelemetryTypeOK, Answered
    <2>4. readings' \in [Boundary -> [Workers -> Reading \cup {NoTicket}]]
      BY <2>1, <2>2, <2>3 DEF TelemetryTypeOK
    <2>5. completed' \in [Workers -> SUBSET Reading]
      BY <2>1 DEF TelemetryTypeOK
    <2>6. phase' \in {"wait", "stop"} /\ turn' \in 1 .. Devices + 1
          /\ (phase' = "stop" => turn' <= Devices)
      BY <2>1, <2>2, <1>0 DEF CaptureFails, Proceed
    <2>7. /\ role' \in Boundary
          /\ ticket' \in [Workers -> Ticket \cup {NoTicket}]
          /\ boundaries' \subseteq Boundary
          /\ runErrors' \subseteq {<<"run", 0>>} \cup TelErrors
      BY <2>1 DEF TelemetryTypeOK, CaptureFails
    <2> QED BY <2>4, <2>5, <2>6, <2>7, <1>6 DEF TelemetryTypeOK, Await
  <1>7. CASE Store
    BY <1>0, <1>7 DEF TelemetryTypeOK, Store, Proceed, workerVars
  <1>8. CASE StopWorker
    BY <1>0, <1>8 DEF TelemetryTypeOK, StopWorker, Proceed, captureVars
  <1>9. CASE Join \/ JoinTimesOut
    <2>1. /\ turn \in Workers /\ turn + 1 \in 1 .. Devices + 1
          /\ turn # Devices => turn + 1 <= Devices
      BY <1>0, <1>9 DEF TelemetryTypeOK, Join, JoinTimesOut
    <2>2. phase' \in {"close", "stop"} /\ turn' \in 1 .. Devices + 1
          /\ (phase' = "stop" => turn' <= Devices)
      BY <2>1, <1>0, <1>9 DEF Join, JoinTimesOut, Joined, Proceed
    <2>3. telErrors' \subseteq TelErrors
      BY <2>1, <1>9 DEF TelemetryTypeOK, Join, JoinTimesOut, TelErrors
    <2> QED BY <2>2, <2>3, <1>9
            DEF TelemetryTypeOK, Join, JoinTimesOut, workerVars, captureVars
  <1>10. CASE Close
    <2>1. coll' \in [Workers -> {"running", "stopped", "failed"}]
      BY <1>10 DEF Close
    <2>2. telErrors' \subseteq TelErrors
      BY <1>10 DEF TelemetryTypeOK, Close, TelErrors
    <2> QED BY <2>1, <2>2, <1>0, <1>10
            DEF TelemetryTypeOK, Close, Proceed, workerVars, captureVars
  <1>11. CASE Settle
    BY <1>0, <1>11 DEF TelemetryTypeOK, Settle, Proceed, workerVars, captureVars
  <1>12. ASSUME NEW w \in Workers, Begin(w) \/ Query(w) \/ Exit(w)
         PROVE  TelemetryTypeOK'
    BY <1>12 DEF TelemetryTypeOK, Begin, Query, Exit, captureVars
  <1>13. ASSUME NEW w \in Workers, PollEnds(w) \/ Refused(w)
         PROVE  TelemetryTypeOK'
    <2>1. \E kind \in Kinds : Publish(w, kind)
      BY <1>13 DEF PollEnds, Refused, Kinds
    <2>2. coll' \in [Workers -> {"running", "stopped", "failed"}]
      BY <1>13 DEF TelemetryTypeOK, PollEnds, Refused
    <2>3. UNCHANGED <<stopping, phase, turn, captureVars, runErrors>>
      BY <1>13 DEF PollEnds, Refused
    <2> QED BY <2>1, <2>2, <2>3, TypePublish DEF TelemetryTypeOK, captureVars
  <1>14. CASE UNCHANGED telemetryVars
    BY <1>14 DEF TelemetryTypeOK, telemetryVars, workerVars, captureVars
  <1> QED
    BY <1>1, <1>2, <1>3, <1>4, <1>5, <1>6, <1>7, <1>8, <1>9, <1>10, <1>11,
       <1>12, <1>13, <1>14
    DEF TelemetryNext, Coordinator, Worker

\* Every variable of the workers and of the coordinator keeps its type.
THEOREM TelemetryTypeCorrect == TelemetrySpec => []TelemetryTypeOK
  BY TypeInit, TypeStep, PTL DEF TelemetrySpec

-----------------------------------------------------------------------------
(* The threads                                                             *)

\* What a finished poll does to its worker, pointwise; the others keep still.
LEMMA PublishEffect ==
    ASSUME TelemetryTypeOK, NEW w \in Workers, PollEnds(w) \/ Refused(w)
    PROVE  /\ poller[w] \in {"polling", "refused"}
           /\ poller'[w] \in {"idle", "exited"}
           /\ pending'[w] = NoTicket /\ active'[w] = NoTicket
           /\ generation'[w] = generation[w] + 1
           /\ \E s \in Reading :
                /\ log'[w] = log[w] \cup {s}
                /\ completed'[w] = IF s.ticket = NoTicket THEN completed[w]
                                   ELSE completed[w] \cup {s}
                /\ s.seq = generation[w] + 1 /\ s.kind \in Kinds
                /\ s.ticket = Answers(w)
                /\ s.ticket = NoTicket => s.role = "background"
                /\ s.ticket # NoTicket => s.role = s.ticket.role
                /\ s.role = "final" => poller'[w] = "exited"
           /\ \A v \in Workers \ {w} :
                /\ poller'[v] = poller[v] /\ pending'[v] = pending[v]
                /\ active'[v] = active[v] /\ generation'[v] = generation[v]
                /\ log'[v] = log[v] /\ completed'[v] = completed[v]
           /\ UNCHANGED <<stopping, phase, turn, captureVars, runErrors>>
           /\ telErrors \subseteq telErrors'
           /\ late' = IF phase = "done" THEN late \cup {w} ELSE late
  <1>1. PICK kind \in Kinds : Publish(w, kind)
    BY DEF PollEnds, Refused, Kinds
  <1>2. poller[w] \in {"polling", "refused"}
        /\ UNCHANGED <<stopping, phase, turn, captureVars, runErrors>>
    BY DEF PollEnds, Refused
  <1> DEFINE s == Outcome(w, kind)
  <1>3. /\ s \in Reading /\ s.seq = generation[w] + 1 /\ s.kind \in Kinds
        /\ s.ticket = Answers(w)
        /\ s.ticket = NoTicket => s.role = "background"
        /\ s.ticket # NoTicket => s.role = s.ticket.role
    BY OutcomeType
  <1> HIDE DEF s
  <1>4. /\ pending' = [pending EXCEPT ![w] = NoTicket]
        /\ active' = [active EXCEPT ![w] = NoTicket]
        /\ generation' = [generation EXCEPT ![w] = s.seq]
        /\ log' = [log EXCEPT ![w] = @ \cup {s}]
        /\ completed' = [completed EXCEPT ![w] =
                           IF s.ticket = NoTicket THEN @ ELSE @ \cup {s}]
        /\ complete' = [complete EXCEPT ![w] = @ \/ s.role = "final"]
        /\ poller' = [poller EXCEPT ![w] =
                        IF kind = "error" \/ complete'[w] THEN "exited" ELSE "idle"]
        /\ telErrors \subseteq telErrors'
        /\ late' = IF phase = "done" THEN late \cup {w} ELSE late
    BY <1>1 DEF Publish, s
  <1>5. complete'[w] = (complete[w] \/ s.role = "final")
    BY <1>4 DEF TelemetryTypeOK
  <1>6. /\ log'[w] = log[w] \cup {s}
        /\ completed'[w] = IF s.ticket = NoTicket THEN completed[w]
                           ELSE completed[w] \cup {s}
        /\ poller'[w] \in {"idle", "exited"}
        /\ s.role = "final" => poller'[w] = "exited"
        /\ pending'[w] = NoTicket /\ active'[w] = NoTicket
        /\ generation'[w] = generation[w] + 1
    BY <1>3, <1>4, <1>5 DEF TelemetryTypeOK
  <1>7. \A v \in Workers \ {w} :
                /\ poller'[v] = poller[v] /\ pending'[v] = pending[v]
                /\ active'[v] = active[v] /\ generation'[v] = generation[v]
                /\ log'[v] = log[v] /\ completed'[v] = completed[v]
    BY <1>4 DEF TelemetryTypeOK
  <1> QED BY <1>2, <1>3, <1>4, <1>6, <1>7

ThreadInv ==
    /\ StartingInOrder /\ ActiveInPoll /\ OneTicket /\ TicketsAreFresh
    /\ FinalIsTerminal /\ LogIsNumbered

\* No poll has been made at the start.
LEMMA ThreadInit == TelemetryInit => ThreadInv
  BY DEF TelemetryInit, ThreadInv, StartingInOrder, ActiveInPoll, OneTicket,
         TicketsAreFresh, FinalIsTerminal, LogIsNumbered

\* The polling threads number their polls and answer one ticket at a time,
\* whatever the coordinator does meanwhile.
LEMMA ThreadStep == TelemetryTypeOK /\ ThreadInv /\ [TelemetryNext]_telemetryVars => ThreadInv'
  <1> SUFFICES ASSUME TelemetryTypeOK, ThreadInv, [TelemetryNext]_telemetryVars PROVE ThreadInv'
    OBVIOUS
  <1> USE DEF StartingInOrder, ActiveInPoll, OneTicket, TicketsAreFresh,
              FinalIsTerminal, LogIsNumbered
  <1>1. CASE StartThread
    <2>1. turn \in Workers /\ poller[turn] = "unstarted"
      BY <1>1, TelemetryAssumption DEF TelemetryTypeOK, StartThread, ThreadInv, Workers
    <2>2. StartingInOrder'
      BY <2>1, <1>1 DEF TelemetryTypeOK, StartThread, Proceed, ThreadInv, Workers
    <2> QED BY <2>1, <2>2, <1>1 DEF TelemetryTypeOK, StartThread, ThreadInv
  <1>2. CASE StartThreadRaises \/ RunFails \/ Capture \/ RequestRaises
             \/ WaitRaises \/ Store \/ StoreRaises \/ StopWorker \/ Join
             \/ JoinTimesOut \/ Close \/ Settle
    <2>1. /\ UNCHANGED <<poller, pending, active, generation, log, completed>>
          /\ phase' # "start"
      BY <1>2 DEF StartThreadRaises, RunFails, Capture, RequestRaises,
                  WaitRaises, Store, StoreRaises, StopWorker, Join, Joined,
                  JoinTimesOut, Close, Settle, CaptureFails, Proceed,
                  workerVars
    <2> QED BY <2>1 DEF ThreadInv
  <1>3. CASE Request
    <2> DEFINE t == [role |-> role, generation |-> generation[turn]]
    <2>1. /\ turn \in Workers /\ active[turn] = NoTicket
          /\ t.generation = generation[turn] /\ phase' # "start"
          /\ pending' = [pending EXCEPT ![turn] = t]
          /\ UNCHANGED <<poller, active, generation, log, completed>>
      BY <1>3, TelemetryAssumption
      DEF TelemetryTypeOK, Request, Refuses, Proceed, Workers
    <2> HIDE DEF t
    <2> QED BY <2>1 DEF TelemetryTypeOK, ThreadInv
  <1>4. CASE Await
    <2>1. PICK s : completed' = [completed EXCEPT ![turn] = @ \ {s}]
      BY <1>4 DEF Await
    <2>2. /\ UNCHANGED <<poller, pending, active, generation, log>>
          /\ phase' # "start"
      BY <1>4 DEF Await, CaptureFails, Proceed
    <2>3. \A w \in Workers : completed'[w] \subseteq completed[w]
      BY <2>1 DEF TelemetryTypeOK
    <2> QED BY <2>2, <2>3 DEF ThreadInv
  <1>5. ASSUME NEW w \in Workers, Begin(w)
        PROVE  ThreadInv'
    BY <1>5 DEF TelemetryTypeOK, Begin, ThreadInv
  <1>6. ASSUME NEW w \in Workers, Query(w) \/ Exit(w)
        PROVE  ThreadInv'
    BY <1>6 DEF TelemetryTypeOK, Query, Exit, ThreadInv
  <1>7. ASSUME NEW w \in Workers, PollEnds(w) \/ Refused(w)
        PROVE  ThreadInv'
    <2>1. PICK s \in Reading :
                /\ log'[w] = log[w] \cup {s}
                /\ completed'[w] = IF s.ticket = NoTicket THEN completed[w]
                                   ELSE completed[w] \cup {s}
                /\ s.seq = generation[w] + 1
                /\ s.ticket = Answers(w)
                /\ s.ticket = NoTicket => s.role = "background"
                /\ s.ticket # NoTicket => s.role = s.ticket.role
                /\ s.role = "final" => poller'[w] = "exited"
      BY <1>7, PublishEffect
    <2>2. /\ poller[w] \in {"polling", "refused"}
          /\ poller'[w] \in {"idle", "exited"}
          /\ pending'[w] = NoTicket /\ active'[w] = NoTicket
          /\ generation'[w] = generation[w] + 1
          /\ \A v \in Workers \ {w} :
                /\ poller'[v] = poller[v] /\ pending'[v] = pending[v]
                /\ active'[v] = active[v] /\ generation'[v] = generation[v]
                /\ log'[v] = log[v] /\ completed'[v] = completed[v]
          /\ UNCHANGED <<phase, turn>>
      BY <1>7, PublishEffect
    <2>3. generation[w] \in Nat /\ \A r \in log[w] : r.seq \in Nat
      BY DEF TelemetryTypeOK, Reading
    <2>4. StartingInOrder' /\ ActiveInPoll' /\ OneTicket' /\ TicketsAreFresh'
      BY <2>2 DEF ThreadInv
    <2>5. \A r \in log'[w] : r.role = "final" =>
                r.seq = generation'[w] /\ poller'[w] = "exited"
      BY <2>1, <2>2 DEF ThreadInv
    <2>6. FinalIsTerminal'
      BY <2>2, <2>5 DEF ThreadInv
    <2>7. s.ticket # NoTicket => s.ticket.generation = generation[w]
      BY <2>1 DEF ThreadInv, Answers
    <2>8. completed'[w] \subseteq {r \in log'[w] : r.ticket # NoTicket}
      BY <2>1 DEF ThreadInv
    <2>9. \A r \in log'[w] :
             /\ r.seq <= generation'[w]
             /\ r.ticket = NoTicket => r.role = "background"
             /\ r.ticket # NoTicket => /\ r.role = r.ticket.role
                                       /\ r.seq = r.ticket.generation + 1
      BY <2>1, <2>2, <2>3, <2>7 DEF ThreadInv
    <2>10. \A r, t \in log'[w] : r.seq = t.seq => r = t
      BY <2>1, <2>2, <2>3 DEF ThreadInv
    <2>11. LogIsNumbered'
      BY <2>2, <2>8, <2>9, <2>10 DEF ThreadInv
    <2> QED BY <2>4, <2>6, <2>11 DEF ThreadInv
  <1>8. CASE UNCHANGED telemetryVars
    BY <1>8 DEF telemetryVars, workerVars, ThreadInv
  <1> QED
    BY <1>1, <1>2, <1>3, <1>4, <1>5, <1>6, <1>7, <1>8
    DEF TelemetryNext, Coordinator, Worker


-----------------------------------------------------------------------------
(* The tickets                                                             *)

TicketInv == Stages /\ TicketsAreOwed /\ NoTicketLost

\* Nobody is owed an answer at the start.
LEMMA TicketInit == TelemetryInit => TicketInv
  BY DEF TelemetryInit, TicketInv, Stages, TicketsAreOwed, NoTicketLost, Owed, Regular,
         Boundary

\* A requested ticket moves from pending to active to completed, and only the
\* coordinator takes it from there.
LEMMA TicketStep == TelemetryTypeOK /\ ThreadInv /\ TicketInv /\ [TelemetryNext]_telemetryVars => TicketInv'
  <1> SUFFICES ASSUME TelemetryTypeOK, ThreadInv, TicketInv, [TelemetryNext]_telemetryVars
               PROVE  TicketInv'
    OBVIOUS
  <1>0. Devices \in Nat \ {0} /\ Workers = 1 .. Devices /\ NoTicket \notin Ticket
    BY TelemetryAssumption DEF Workers
  <1>1. CASE StartThread
    <2>1. /\ UNCHANGED <<pending, active, completed, ticket, boundaries, role>>
          /\ phase = "start" /\ phase' \in {"start", "ready"}
      BY <1>1 DEF StartThread, Proceed, captureVars
    <2> QED BY <2>1
            DEF TicketInv, Stages, TicketsAreOwed, NoTicketLost, Owed, Regular
  <1>2. CASE StartThreadRaises \/ RunFails \/ RequestRaises \/ WaitRaises
             \/ StoreRaises
    <2>1. /\ UNCHANGED <<pending, active, completed, boundaries, role>>
          /\ phase' \in {"close", "stop"} /\ boundaries # Boundary
      BY <1>2
      DEF StartThreadRaises, RunFails, RequestRaises, WaitRaises, StoreRaises,
          CaptureFails, Proceed, workerVars, captureVars, TicketInv, Stages,
          Boundary
    <2> QED BY <2>1
            DEF TicketInv, Stages, TicketsAreOwed, NoTicketLost, Owed, Regular
  <1>3. CASE Capture
    <2>1. /\ UNCHANGED <<pending, active, completed, boundaries>>
          /\ phase \in {"ready", "measuring"} /\ phase' = "request" /\ turn' = 1
          /\ phase = "ready" => role' = "baseline"
          /\ phase = "measuring" => role' = "final"
      BY <1>3 DEF Capture, Proceed, workerVars
    <2>2. \A w \in Workers : ~(w < 1)
      BY <1>0
    <2> QED BY <2>1, <2>2
            DEF TicketInv, Stages, TicketsAreOwed, NoTicketLost, Owed, Regular
  <1>4. CASE Request
    <2> DEFINE t == [role |-> role, generation |-> generation[turn]]
    <2>1. /\ turn \in Workers /\ active[turn] = NoTicket /\ phase = "request"
          /\ pending' = [pending EXCEPT ![turn] = t]
          /\ ticket' = [ticket EXCEPT ![turn] = t]
          /\ UNCHANGED <<active, completed, boundaries, role>>
          /\ IF turn = Devices THEN phase' = "wait" /\ turn' = 1
                       ELSE phase' = "request" /\ turn' = turn + 1
      BY <1>0, <1>4 DEF TelemetryTypeOK, Request, Refuses, Proceed
    <2>2. t \in Ticket /\ t.role = role
      BY <2>1 DEF TelemetryTypeOK, Ticket
    <2> HIDE DEF t
    <2>3. \A w \in Workers : Owed(w)' <=> Owed(w) \/ w = turn
      BY <1>0, <2>1 DEF Owed
    <2>4. Stages'
      BY <2>1 DEF TicketInv, Stages
    <2>5. TicketsAreOwed'
      BY <2>1, <2>2, <2>3 DEF TelemetryTypeOK, TicketInv, TicketsAreOwed, Regular
    <2>6. \A w \in Workers : Owed(w)' =>
             \/ ticket'[w] \in {pending'[w], active'[w]}
             \/ \E s \in completed'[w] : s.ticket = ticket'[w]
      BY <2>1, <2>3 DEF TelemetryTypeOK, TicketInv, NoTicketLost, Owed, Answered
    <2>7. NoTicketLost'
      BY <2>6 DEF NoTicketLost, Owed, Answered
    <2> QED BY <2>4, <2>5, <2>7 DEF TicketInv
  <1>5. CASE Await
    <2>1. /\ UNCHANGED <<pending, active>> /\ phase = "wait" /\ turn \in Workers
          /\ UNCHANGED <<boundaries, role, ticket>>
          /\ \/ phase' = "stop"
             \/ phase' = "wait" /\ turn' = turn + 1
      BY <1>0, <1>5 DEF TelemetryTypeOK, Await, CaptureFails, Proceed
    <2>2. \A w \in Workers : w # turn => completed'[w] = completed[w]
      BY <1>5 DEF TelemetryTypeOK, Await
    <2>3. CASE phase' = "stop"
      <3>1. boundaries # Boundary
        BY <2>1 DEF TicketInv, Stages, Boundary
      <3> QED BY <2>1, <2>3, <3>1
              DEF TicketInv, Stages, TicketsAreOwed, NoTicketLost, Owed, Regular
    <2>4. CASE phase' = "wait"
      <3>1. /\ turn' = turn + 1 /\ \A w \in Workers : Owed(w)' <=> Owed(w) /\ w # turn
        BY <1>0, <2>1, <2>4 DEF Owed
      <3>2. turn \in Workers => Answered(turn) # {}
        BY <1>5 DEF Await
      <3>3. Stages' /\ Regular
        BY <2>1, <2>4 DEF TicketInv, Stages, Regular
      <3>4. \A w \in Workers : Owed(w) /\ w # turn =>
             \/ ticket'[w] \in {pending'[w], active'[w]}
             \/ \E s \in completed'[w] : s.ticket = ticket'[w]
        BY <2>1, <2>2 DEF TicketInv, NoTicketLost, Owed, Answered
      <3>5. NoTicketLost'
        BY <3>1, <3>4 DEF NoTicketLost, Owed, Answered
      <3>6. pending[turn] = NoTicket /\ active[turn] = NoTicket
        <4>1. PICK s \in completed[turn] : s.ticket = ticket[turn]
          BY <2>1, <3>2 DEF Answered
        <4>2. /\ ticket[turn] \in Ticket /\ pending[turn] \in {NoTicket, ticket[turn]}
              /\ active[turn] \in {NoTicket, ticket[turn]}
          BY <2>1, <1>0 DEF TicketInv, TicketsAreOwed, Owed
        <4>3. /\ s.seq = ticket[turn].generation + 1 /\ s.seq <= generation[turn]
              /\ ticket[turn].generation \in Nat /\ generation[turn] \in Nat
          BY <1>0, <2>1, <4>1, <4>2 DEF ThreadInv, LogIsNumbered, TelemetryTypeOK, Ticket
        <4> QED BY <1>0, <2>1, <4>2, <4>3
                DEF ThreadInv, TicketsAreFresh
      <3>7. TicketsAreOwed'
        BY <2>1, <3>1, <3>3, <3>6 DEF TicketInv, TicketsAreOwed
      <3> QED BY <3>3, <3>5, <3>7 DEF TicketInv
    <2> QED BY <2>1, <2>3, <2>4
  <1>6. CASE Store
    <2>1. /\ UNCHANGED <<pending, active, completed, role, ticket>>
          /\ phase = "wait" /\ turn = Devices + 1 /\ boundaries' = boundaries \cup {role}
          /\ IF role = "baseline" THEN phase' = "measuring" ELSE phase' = "stop"
      BY <1>6 DEF Store, Proceed, workerVars
    <2>2. \A w \in Workers : ~Owed(w) /\ ~Owed(w)'
      BY <1>0, <2>1 DEF Owed
    <2> QED BY <2>1, <2>2
            DEF TelemetryTypeOK, Boundary, TicketInv, Stages, TicketsAreOwed,
                NoTicketLost, Owed, Regular
  <1>7. CASE StopWorker \/ Join \/ JoinTimesOut \/ Close \/ Settle
    <2>1. /\ UNCHANGED <<pending, active, completed, boundaries, role, ticket>>
          /\ phase \in {"stop", "join", "close", "settle"}
          /\ phase' \in {"stop", "join", "close", "settle", "done"}
      BY <1>7 DEF StopWorker, Join, JoinTimesOut, Joined, Close, Settle,
                  Proceed, workerVars, captureVars
    <2> QED BY <2>1
            DEF TicketInv, Stages, TicketsAreOwed, NoTicketLost, Owed, Regular
  <1>8. ASSUME NEW w \in Workers, Begin(w)
        PROVE  TicketInv'
    <2>1. /\ active[w] = NoTicket
          /\ pending'[w] = NoTicket /\ active'[w] = pending[w]
          /\ \A v \in Workers \ {w} :
               pending'[v] = pending[v] /\ active'[v] = active[v]
          /\ UNCHANGED <<phase, turn, role, ticket, boundaries, completed>>
      BY <1>8 DEF TelemetryTypeOK, Begin, ThreadInv, ActiveInPoll, captureVars
    <2> QED BY <2>1
            DEF TicketInv, Stages, TicketsAreOwed, NoTicketLost, Owed, Regular,
                Answered
  <1>9. ASSUME NEW w \in Workers, Query(w) \/ Exit(w)
        PROVE  TicketInv'
    <2>1. UNCHANGED <<pending, active, completed, phase, turn, role, ticket,
                      boundaries>>
      BY <1>9 DEF Query, Exit, captureVars
    <2> QED BY <2>1
            DEF TicketInv, Stages, TicketsAreOwed, NoTicketLost, Owed, Regular,
                Answered
  <1>10. ASSUME NEW w \in Workers, PollEnds(w) \/ Refused(w)
        PROVE  TicketInv'
    <2>1. PICK s \in Reading :
                /\ completed'[w] = IF s.ticket = NoTicket THEN completed[w]
                                   ELSE completed[w] \cup {s}
                /\ s.ticket = Answers(w)
      BY <1>10, PublishEffect
    <2>2. /\ pending'[w] = NoTicket /\ active'[w] = NoTicket
          /\ \A v \in Workers \ {w} :
                /\ pending'[v] = pending[v] /\ active'[v] = active[v]
                /\ completed'[v] = completed[v]
          /\ UNCHANGED <<phase, turn, role, ticket, boundaries>>
      BY <1>10, PublishEffect DEF captureVars
    <2>3. Stages' /\ TicketsAreOwed'
      BY <2>2 DEF TicketInv, Stages, TicketsAreOwed, Owed, Regular
    <2>4. Owed(w) => \E r \in completed'[w] : r.ticket = ticket[w]
      <3>1. SUFFICES ASSUME Owed(w)
                     PROVE  \E r \in completed'[w] : r.ticket = ticket[w]
        OBVIOUS
      <3>2. ticket[w] # NoTicket
        BY <1>0, <3>1 DEF TicketInv, TicketsAreOwed
      <3>3. CASE ticket[w] \in {pending[w], active[w]}
        <4>1. s.ticket = ticket[w]
          BY <2>1, <3>2, <3>3 DEF Answers, ThreadInv, OneTicket
        <4> QED BY <2>1, <3>2, <4>1
      <3>4. CASE Answered(w) # {}
        BY <2>1, <3>4 DEF Answered
      <3> QED BY <3>1, <3>3, <3>4 DEF TicketInv, NoTicketLost, Owed
    <2>5. \A v \in Workers : Owed(v) =>
             \/ ticket[v] \in {pending'[v], active'[v]}
             \/ \E r \in completed'[v] : r.ticket = ticket[v]
      BY <2>2, <2>4 DEF TicketInv, NoTicketLost, Owed, Answered
    <2>6. NoTicketLost'
      BY <2>2, <2>5 DEF NoTicketLost, Owed, Answered
    <2> QED BY <2>3, <2>6 DEF TicketInv
  <1>11. CASE UNCHANGED telemetryVars
    BY <1>11 DEF telemetryVars, workerVars, captureVars, TicketInv, Stages,
                 TicketsAreOwed, NoTicketLost, Owed, Regular, Answered
  <1> QED
    BY <1>1, <1>2, <1>3, <1>4, <1>5, <1>6, <1>7, <1>8, <1>9, <1>10, <1>11
    DEF TelemetryNext, Coordinator, Worker


-----------------------------------------------------------------------------
(* The samples                                                             *)

SampleInv == HeldIsLogged /\ SamplesAccounted /\ BaselineFirst

\* No sample is held at the start.
LEMMA SampleInit == TelemetryInit => SampleInv
  BY DEF TelemetryInit, SampleInv, HeldIsLogged, SamplesAccounted, BaselineFirst, Holds,
         Owed

\* A boundary sample reaches the log as the answer to the one owed ticket, and
\* is held when it is collected.
LEMMA SampleStep ==
    TelemetryTypeOK /\ ThreadInv /\ TicketInv /\ SampleInv /\ [TelemetryNext]_telemetryVars => SampleInv'
  <1> SUFFICES ASSUME TelemetryTypeOK, ThreadInv, TicketInv, SampleInv, [TelemetryNext]_telemetryVars
               PROVE  SampleInv'
    OBVIOUS
  <1>0. Devices \in Nat \ {0} /\ Workers = 1 .. Devices /\ NoTicket \notin Ticket
    BY TelemetryAssumption DEF Workers
  <1>1. CASE StartThread \/ StopWorker \/ Join \/ JoinTimesOut \/ Close \/ Settle
    <2>1. /\ UNCHANGED <<log, readings, ticket, boundaries, completed, role>>
          /\ phase \notin {"wait", "request"} /\ phase' \notin {"wait", "request"}
          /\ Regular' => Regular
      BY <1>1 DEF StartThread, StopWorker, Join, JoinTimesOut, Joined, Close,
                  Settle, Proceed, workerVars, captureVars, Regular
    <2> QED BY <2>1 DEF SampleInv, HeldIsLogged, SamplesAccounted,
                        BaselineFirst, Holds, Owed
  <1>2. CASE StartThreadRaises \/ RunFails \/ RequestRaises \/ WaitRaises
             \/ StoreRaises
    <2>1. /\ UNCHANGED <<log, readings, boundaries>>
          /\ phase' \in {"stop", "close"} /\ boundaries # Boundary
      BY <1>2 DEF StartThreadRaises, RunFails, RequestRaises, WaitRaises,
                  StoreRaises, CaptureFails, Proceed, workerVars, captureVars,
                  TicketInv, Stages, Boundary
    <2> QED BY <2>1 DEF SampleInv, HeldIsLogged, SamplesAccounted, Regular,
                        BaselineFirst, Holds, Owed
  <1>3. CASE Capture
    <2>1. /\ UNCHANGED <<log, readings, boundaries>>
          /\ phase \in {"ready", "measuring"} /\ phase' = "request" /\ turn' = 1
      BY <1>3 DEF Capture, Proceed, workerVars
    <2>2. \A w \in Workers : ~(w < 1)
      BY <1>0
    <2> QED BY <2>1, <2>2 DEF SampleInv, HeldIsLogged, SamplesAccounted,
                        BaselineFirst, Holds, Owed, Regular
  <1>4. CASE Request
    <2>1. /\ turn \in Workers /\ phase = "request"
          /\ ticket' = [ticket EXCEPT ![turn] =
                  [role |-> role, generation |-> generation[turn]]]
          /\ UNCHANGED <<log, readings, completed, boundaries, role>>
          /\ IF turn = Devices THEN phase' = "wait" /\ turn' = 1
                       ELSE phase' = "request" /\ turn' = turn + 1
      BY <1>0, <1>4 DEF TelemetryTypeOK, Request, Proceed
    <2>2. \A w \in Workers : /\ Owed(w)' <=> Owed(w) \/ w = turn
                             /\ Owed(w) => w # turn
                             /\ \A r \in Boundary : Holds(r, w)' <=> Holds(r, w)
      BY <1>0, <2>1 DEF Owed, Holds
    <2>3. /\ ticket'[turn].generation = generation[turn]
          /\ \A w \in Workers : w # turn => ticket'[w] = ticket[w]
      BY <2>1 DEF TelemetryTypeOK
    <2>4. role = "final" => readings["baseline"][turn].seq <= generation[turn]
      BY <2>1 DEF TicketInv, Stages, SampleInv, HeldIsLogged, Holds, Boundary,
                  ThreadInv, LogIsNumbered
    <2>5. HeldIsLogged'
      BY <2>1, <2>2 DEF SampleInv, HeldIsLogged
    <2>6. SamplesAccounted'
      BY <2>1, <2>2, <2>3 DEF SampleInv, SamplesAccounted, Answered, Regular
    <2>7. BaselineFirst'
      BY <2>1, <2>2, <2>3, <2>4 DEF SampleInv, BaselineFirst, Boundary
    <2> QED BY <2>5, <2>6, <2>7 DEF SampleInv
  <1>5. CASE Await
    <2>1. PICK s \in Answered(turn) :
            /\ completed' = [completed EXCEPT ![turn] = @ \ {s}]
            /\ IF s.kind = "error"
               THEN CaptureFails /\ UNCHANGED readings
               ELSE /\ readings' = [readings EXCEPT ![role][turn] = s]
                    /\ Proceed("wait", turn + 1)
                    /\ UNCHANGED <<role, ticket, boundaries, runErrors>>
      BY <1>5 DEF Await
    <2>2. /\ phase = "wait" /\ turn \in Workers
          /\ UNCHANGED <<log, boundaries, role, ticket>>
      BY <1>0, <1>5 DEF TelemetryTypeOK, Await, CaptureFails
    <2>3. role \notin boundaries /\ boundaries # Boundary
          /\ (role = "baseline" => "final" \notin boundaries)
          /\ role \in Boundary
      BY <2>2 DEF TelemetryTypeOK, TicketInv, Stages, Boundary
    <2>4. CASE s.kind = "error"
      <3>1. phase' = "stop" /\ UNCHANGED readings
        BY <2>1, <2>4 DEF CaptureFails, Proceed
      <3> QED BY <2>2, <2>3, <3>1
              DEF SampleInv, HeldIsLogged, SamplesAccounted, BaselineFirst,
                  Holds, Owed, Regular
    <2>5. CASE s.kind # "error"
      <3>1. /\ readings' = [readings EXCEPT ![role][turn] = s]
            /\ phase' = "wait" /\ turn' = turn + 1
        BY <2>1, <2>5 DEF Proceed
      <3>2. /\ s \in log[turn] /\ s.ticket = ticket[turn] /\ s.ticket # NoTicket
            /\ s.role = role /\ s.kind \in {"records", "empty"}
            /\ s.seq = ticket[turn].generation + 1
        <4>1. s \in completed[turn] /\ s.ticket = ticket[turn] /\ Owed(turn)
          BY <1>0, <2>1, <2>2 DEF Answered, Owed
        <4>2. s.kind \in Kinds
          BY <2>2, <4>1 DEF TelemetryTypeOK, Reading
        <4>3. s \in log[turn] /\ s.ticket # NoTicket /\ s.role = s.ticket.role
              /\ s.seq = s.ticket.generation + 1
          BY <2>2, <4>1 DEF ThreadInv, LogIsNumbered
        <4>4. ticket[turn].role = role
          BY <2>2, <4>1 DEF TicketInv, TicketsAreOwed
        <4> QED BY <2>5, <4>1, <4>2, <4>3, <4>4 DEF Kinds
      <3>3. \A r \in Boundary, w \in Workers :
               readings'[r][w] = IF r = role /\ w = turn THEN s ELSE readings[r][w]
        BY <2>2, <2>3, <3>1 DEF TelemetryTypeOK
      <3>4. \A r \in Boundary, w \in Workers :
               /\ Holds(r, w)' <=> Holds(r, w) \/ (r = role /\ w = turn)
               /\ ~Holds(role, turn)
        BY <1>0, <2>2, <2>3, <3>1 DEF Holds
      <3>5. \A w \in Workers : /\ Owed(w)' <=> Owed(w) /\ w # turn
                               /\ w # turn => completed'[w] = completed[w]
        BY <1>0, <2>1, <2>2, <3>1 DEF TelemetryTypeOK, Owed
      <3>6. HeldIsLogged'
        BY <2>2, <2>3, <3>2, <3>3, <3>4 DEF SampleInv, HeldIsLogged
      <3>7. ASSUME NEW w \in Workers, w = turn,
                   NEW r \in log[w], r.role # "background"
            PROVE  \E b \in Boundary : Holds(b, w)' /\ r = readings'[b][w]
        <4>2. \/ \E b \in Boundary : Holds(b, turn) /\ r = readings[b][turn]
              \/ r \in Answered(turn)
          BY <2>2, <3>7 DEF SampleInv, SamplesAccounted, Regular
        <4>3. CASE \E b \in Boundary : Holds(b, turn) /\ r = readings[b][turn]
          BY <3>7, <3>3, <3>4, <4>3
        <4>4. CASE r \in Answered(turn)
          <5>1. r.ticket = s.ticket /\ r.ticket # NoTicket
            BY <3>2, <4>4 DEF Answered
          <5>2. r.seq = s.seq
            BY <2>2, <3>2, <3>7, <5>1 DEF ThreadInv, LogIsNumbered
          <5>3. r = s
            BY <2>2, <3>2, <3>7, <5>2 DEF ThreadInv, LogIsNumbered
          <5> QED BY <2>3, <3>3, <3>4, <3>7, <5>3
        <4> QED BY <4>2, <4>3, <4>4
      <3>8. SamplesAccounted'
        <4>1. SUFFICES ASSUME NEW w \in Workers, NEW r \in log[w],
                              r.role # "background"
                       PROVE  \/ \E b \in Boundary :
                                     Holds(b, w)' /\ r = readings'[b][w]
                              \/ Owed(w)' /\ r \in Answered(w)'
          BY <2>2 DEF SamplesAccounted
        <4>2. CASE w = turn
          BY <3>7, <4>1, <4>2
        <4>3. CASE w # turn
          BY <2>2, <3>3, <3>4, <3>5, <4>1, <4>3
          DEF SampleInv, SamplesAccounted, Answered, Regular
        <4> QED BY <4>2, <4>3
      <3>9. BaselineFirst'
        <4>1. role = "final" => readings["baseline"][turn].seq <= ticket[turn].generation
          BY <1>0, <2>2 DEF SampleInv, BaselineFirst, Owed
        <4>2. /\ ticket[turn] \in Ticket
              /\ Holds("baseline", turn) => readings["baseline"][turn] \in Reading
          BY <1>0, <2>2 DEF TicketInv, TicketsAreOwed, Owed, SampleInv,
                       HeldIsLogged, TelemetryTypeOK, Boundary
        <4>3. role = "final" => Holds("baseline", turn)
          BY <2>2 DEF TicketInv, Stages, Holds
        <4>4. ASSUME NEW w \in Workers, w = turn
              PROVE  Holds("baseline", w)' /\ Holds("final", w)' =>
                         readings'["baseline"][w].seq < readings'["final"][w].seq
          <5>1. CASE role = "final"
            <6>1. readings'["final"][w] = s
                  /\ readings'["baseline"][w] = readings["baseline"][w]
              BY <3>3, <4>4, <5>1 DEF Boundary
            <6> QED BY <4>4, <3>2, <4>1, <4>2, <4>3, <5>1, <6>1 DEF Ticket, Reading
          <5>2. CASE role = "baseline"
            <6>1. ~Holds("final", w)'
              BY <2>2, <2>3, <5>2 DEF Holds
            <6> QED BY <6>1
          <5> QED BY <2>3, <5>1, <5>2 DEF Boundary
        <4>5. \A w \in Workers : w # turn =>
                 (Holds("baseline", w)' /\ Holds("final", w)' =>
                  readings'["baseline"][w].seq < readings'["final"][w].seq)
          BY <3>3, <3>4 DEF SampleInv, BaselineFirst, Boundary
        <4>6. \A w \in Workers : role = "final" /\ Owed(w)' =>
                 readings'["baseline"][w].seq <= ticket'[w].generation
          BY <2>2, <3>3, <3>5 DEF SampleInv, BaselineFirst, Boundary
        <4> QED BY <2>2, <4>4, <4>5, <4>6 DEF BaselineFirst
      <3> QED BY <3>6, <3>8, <3>9 DEF SampleInv
    <2> QED BY <2>4, <2>5
  <1>6. CASE Store
    <2>1. /\ UNCHANGED <<log, readings, completed, role, ticket>>
          /\ phase = "wait" /\ turn = Devices + 1 /\ boundaries' = boundaries \cup {role}
          /\ phase' \in {"measuring", "stop"}
          /\ \A w \in Workers : readings[role][w].kind # "empty"
      BY <1>6 DEF Store, Proceed, workerVars
    <2>2. \A w \in Workers : ~Owed(w) /\ ~Owed(w)'
      BY <1>0, <2>1 DEF Owed
    <2>3. \A r \in Boundary, w \in Workers : Holds(r, w)' <=> Holds(r, w)
      BY <1>0, <2>1 DEF Holds
    <2> QED BY <2>1, <2>2, <2>3
            DEF SampleInv, HeldIsLogged, SamplesAccounted, BaselineFirst,
                Regular, Boundary
  <1>7. ASSUME NEW w \in Workers, Begin(w) \/ Query(w) \/ Exit(w)
        PROVE  SampleInv'
    <2>1. UNCHANGED <<log, readings, ticket, boundaries, completed, role, phase, turn>>
      BY <1>7 DEF Begin, Query, Exit, captureVars
    <2> QED BY <2>1 DEF SampleInv, HeldIsLogged, SamplesAccounted,
                        BaselineFirst, Holds, Owed, Regular, Answered
  <1>8. ASSUME NEW w \in Workers, PollEnds(w) \/ Refused(w)
        PROVE  SampleInv'
    <2>1. PICK s \in Reading :
                /\ log'[w] = log[w] \cup {s}
                /\ completed'[w] = IF s.ticket = NoTicket THEN completed[w]
                                   ELSE completed[w] \cup {s}
                /\ s.ticket = Answers(w)
                /\ s.ticket = NoTicket => s.role = "background"
      BY <1>8, PublishEffect
    <2>2. /\ \A v \in Workers \ {w} :
                log'[v] = log[v] /\ completed'[v] = completed[v]
          /\ UNCHANGED <<phase, turn, role, ticket, readings, boundaries>>
      BY <1>8, PublishEffect DEF captureVars
    <2>3. \A v \in Workers : log[v] \subseteq log'[v]
                             /\ completed[v] \subseteq completed'[v]
      BY <2>1, <2>2
    <2>4. HeldIsLogged' /\ BaselineFirst'
      BY <2>2, <2>3 DEF SampleInv, HeldIsLogged, BaselineFirst, Holds, Owed
    <2>5. Regular /\ s.role # "background" => Owed(w) /\ s \in Answered(w)'
      <3>1. SUFFICES ASSUME Regular, s.role # "background"
                     PROVE  Owed(w) /\ s \in Answered(w)'
        OBVIOUS
      <3>2. s.ticket # NoTicket /\ s.ticket \in {pending[w], active[w]}
        BY <2>1, <3>1 DEF Answers
      <3>3. Owed(w) /\ s.ticket = ticket[w]
        BY <3>1, <3>2 DEF TicketInv, TicketsAreOwed
      <3> QED BY <2>1, <2>2, <3>2, <3>3 DEF Answered
    <2>6. SamplesAccounted'
      BY <2>1, <2>2, <2>3, <2>5
      DEF SampleInv, SamplesAccounted, Holds, Owed, Regular, Answered
    <2> QED BY <2>4, <2>6 DEF SampleInv
  <1>9. CASE UNCHANGED telemetryVars
    BY <1>9 DEF telemetryVars, workerVars, captureVars, SampleInv, HeldIsLogged,
       SamplesAccounted, BaselineFirst, Holds, Owed, Regular, Answered
  <1> QED
    BY <1>1, <1>2, <1>3, <1>4, <1>5, <1>6, <1>7, <1>8, <1>9
    DEF TelemetryNext, Coordinator, Worker


-----------------------------------------------------------------------------
(* What the run knows of its threads                                       *)

ReportInv == LooseThreadsReported /\ LateSampleIsReported

\* Nothing was published late at the start.
LEMMA ReportInit == TelemetryInit => ReportInv
  BY DEF TelemetryInit, ReportInv, LooseThreadsReported, LateSampleIsReported

\* A thread the coordinator goes past without its exit is put on record.
LEMMA ReportStep ==
    TelemetryTypeOK /\ ThreadInv /\ ReportInv /\ [TelemetryNext]_telemetryVars => ReportInv'
  <1> SUFFICES ASSUME TelemetryTypeOK, ThreadInv, ReportInv, [TelemetryNext]_telemetryVars
               PROVE  ReportInv'
    OBVIOUS
  <1>0. Devices \in Nat \ {0} /\ Workers = 1 .. Devices
    BY TelemetryAssumption DEF Workers
  <1>1. CASE StartThread \/ RunFails \/ Capture \/ Request \/ RequestRaises
             \/ Await \/ WaitRaises \/ Store \/ StoreRaises
    <2>1. /\ late' = late /\ phase # "done"
          /\ \/ phase' \in {"start", "ready", "request", "wait", "measuring"}
             \/ phase' = "stop" /\ turn' = 1
      BY <1>1 DEF StartThread, RunFails, Capture, Request, RequestRaises, Await,
                  WaitRaises, Store, StoreRaises, CaptureFails, Proceed,
                  workerVars
    <2>2. \A w \in Workers : ~(w < 1)
      BY <1>0
    <2> QED BY <2>1, <2>2
            DEF ReportInv, LooseThreadsReported, LateSampleIsReported
  <1>2. CASE StartThreadRaises
    <2>1. /\ phase = "start" /\ phase' = "close" /\ UNCHANGED <<poller, late>>
          /\ <<"run", 0>> \in runErrors' /\ turn \in Workers
      BY <1>0, <1>2 DEF TelemetryTypeOK, StartThreadRaises, Proceed, workerVars
    <2>2. poller'[turn] = "unstarted"
      BY <1>0, <2>1 DEF ThreadInv, StartingInOrder
    <2>3. StartFailed'
      BY <2>1, <2>2 DEF StartFailed
    <2> QED BY <2>1, <2>3
            DEF ReportInv, LooseThreadsReported, LateSampleIsReported
  <1>3. CASE StopWorker \/ Join \/ JoinTimesOut
    <2>1. /\ turn \in Workers /\ UNCHANGED <<poller, late, runErrors>>
          /\ phase \in {"stop", "join"} /\ telErrors \subseteq telErrors'
          /\ \/ phase' = "join" /\ turn' = turn
             \/ phase' = "close" /\ turn = Devices
             \/ phase' = "stop" /\ turn' = turn + 1
      BY <1>0, <1>3 DEF TelemetryTypeOK, StopWorker, Join, JoinTimesOut, Joined,
                        Proceed, workerVars, captureVars
    <2>2. phase' = "join" \/ poller[turn] = "exited" \/ <<"thread", turn>> \in telErrors'
      BY <1>3 DEF StopWorker, Join, JoinTimesOut, Proceed
    <2>3. late' = {}
      BY <2>1 DEF ReportInv, LooseThreadsReported
    <2>4. ASSUME NEW w \in Workers, poller'[w] \notin {"unstarted", "exited"},
                 \/ phase' = "close"
                 \/ phase' \in {"stop", "join"} /\ w < turn'
          PROVE  <<"thread", w>> \in telErrors' \/ StartFailed'
      <3>1. w < turn \/ (w = turn /\ phase' # "join")
        BY <1>0, <2>1, <2>4
      <3> QED BY <2>1, <2>2, <2>4, <3>1
              DEF ReportInv, LooseThreadsReported, StartFailed
    <2> QED BY <2>1, <2>3, <2>4
            DEF ReportInv, LooseThreadsReported, LateSampleIsReported
  <1>4. CASE Close
    <2>1. /\ phase = "close" /\ phase' = "settle" /\ UNCHANGED <<poller, late, runErrors>>
          /\ telErrors \subseteq telErrors'
      BY <1>4 DEF Close, Proceed, workerVars, captureVars
    <2> QED BY <2>1 DEF ReportInv, LooseThreadsReported, LateSampleIsReported,
                        StartFailed
  <1>5. CASE Settle
    <2>1. /\ phase = "settle" /\ phase' = "done" /\ UNCHANGED <<poller, late>>
          /\ runErrors' = runErrors \cup telErrors
      BY <1>5 DEF Settle, Proceed, workerVars, captureVars
    <2> QED BY <2>1 DEF ReportInv, LooseThreadsReported, LateSampleIsReported,
                        StartFailed
  <1>6. ASSUME NEW w \in Workers, Begin(w) \/ Query(w) \/ Exit(w)
        PROVE  ReportInv'
    <2>1. /\ UNCHANGED <<phase, turn, telErrors, runErrors, late>>
          /\ poller[w] \notin {"unstarted", "exited"}
          /\ poller'[w] # "unstarted"
          /\ \A v \in Workers \ {w} : poller'[v] = poller[v]
      BY <1>6 DEF TelemetryTypeOK, Begin, Query, Exit
    <2> QED BY <2>1 DEF ReportInv, LooseThreadsReported, LateSampleIsReported,
                        StartFailed
  <1>7. ASSUME NEW w \in Workers, PollEnds(w) \/ Refused(w)
        PROVE  ReportInv'
    <2>1. /\ UNCHANGED <<phase, turn, runErrors>>
          /\ telErrors \subseteq telErrors'
          /\ late' = IF phase = "done" THEN late \cup {w} ELSE late
          /\ poller[w] \in {"polling", "refused"}
          /\ poller'[w] \in {"idle", "exited"}
          /\ \A v \in Workers \ {w} : poller'[v] = poller[v]
      BY <1>7, PublishEffect
    <2> QED BY <2>1 DEF ReportInv, LooseThreadsReported, LateSampleIsReported,
                        StartFailed
  <1>8. CASE UNCHANGED telemetryVars
    BY <1>8 DEF telemetryVars, workerVars, ReportInv, LooseThreadsReported,
                LateSampleIsReported, StartFailed
  <1> QED
    BY <1>1, <1>2, <1>3, <1>4, <1>5, <1>6, <1>7, <1>8
    DEF TelemetryNext, Coordinator, Worker

-----------------------------------------------------------------------------
(* The theorems                                                            *)

TelemetryInv == TelemetryTypeOK /\ ThreadInv /\ TicketInv /\ SampleInv /\ ReportInv

\* The inductive invariant holds, whatever the threads and timeouts do.
THEOREM TelemetryInvHolds == TelemetrySpec => []TelemetryInv
  <1>1. TelemetryInit => TelemetryInv
    BY TypeInit, ThreadInit, TicketInit, SampleInit, ReportInit DEF TelemetryInv
  <1>2. TelemetryInv /\ [TelemetryNext]_telemetryVars => TelemetryInv'
    BY TypeStep, ThreadStep, TicketStep, SampleStep, ReportStep DEF TelemetryInv
  <1> QED BY <1>1, <1>2, PTL DEF TelemetrySpec

\* TelemetryWorker never owes two boundary answers, so a poll that clears both
\* the pending and the active ticket forgets none.
THEOREM OneTicketHolds == TelemetrySpec => []OneTicket
  <1>1. TelemetryInv => OneTicket
    BY DEF TelemetryInv, ThreadInv
  <1> QED BY <1>1, TelemetryInvHolds, PTL

\* The request of a boundary is never lost between request and wait.
THEOREM NoTicketLostHolds == TelemetrySpec => []NoTicketLost
  <1>1. TelemetryInv => NoTicketLost
    BY DEF TelemetryInv, TicketInv
  <1> QED BY <1>1, TelemetryInvHolds, PTL

\* The final sample is the last one of its device.
THEOREM FinalIsTerminalHolds == TelemetrySpec => []FinalIsTerminal
  <1>1. TelemetryInv => FinalIsTerminal
    BY DEF TelemetryInv, ThreadInv
  <1> QED BY <1>1, TelemetryInvHolds, PTL

\* A stored boundary is made of the first polls to finish after the requests.
THEOREM BoundaryIsNextPollHolds == TelemetrySpec => []BoundaryIsNextPoll
  <1>1. TelemetryInv => BoundaryIsNextPoll
    <2> SUFFICES ASSUME TelemetryInv, NEW r \in boundaries, NEW w \in Workers
                 PROVE  LET s == readings[r][w]
                        IN  /\ s \in log[w] /\ s.role = r /\ s.kind = "records"
                            /\ s.seq = s.ticket.generation + 1
      BY DEF BoundaryIsNextPoll
    <2>1. r \in Boundary /\ Holds(r, w)
      BY DEF TelemetryInv, TelemetryTypeOK, Holds
    <2>2. /\ readings[r][w] \in log[w] /\ readings[r][w].role = r
          /\ readings[r][w].kind = "records" /\ readings[r][w].ticket # NoTicket
      BY <2>1 DEF TelemetryInv, SampleInv, HeldIsLogged
    <2> QED BY <2>2 DEF TelemetryInv, ThreadInv, LogIsNumbered
  <1> QED BY <1>1, TelemetryInvHolds, PTL

\* Between the baseline and the final sample of a device there are background
\* polls only, and they are in this order.
THEOREM BoundariesBracketRunHolds == TelemetrySpec => []BoundariesBracketRun
  <1>1. TelemetryInv => BoundariesBracketRun
    <2> SUFFICES ASSUME TelemetryInv, boundaries = Boundary, NEW w \in Workers
                 PROVE  /\ readings["baseline"][w].seq < readings["final"][w].seq
                        /\ \A s \in log[w] : s.role # "background" =>
                             s \in {readings["baseline"][w], readings["final"][w]}
      BY DEF BoundariesBracketRun
    <2>1. Holds("baseline", w) /\ Holds("final", w) /\ Regular
      BY DEF Holds, Boundary, Regular
    <2>2. ~Owed(w)
      BY DEF TelemetryInv, TicketInv, Stages, Owed, Boundary
    <2>3. readings["baseline"][w].seq < readings["final"][w].seq
      BY <2>1 DEF TelemetryInv, SampleInv, BaselineFirst
    <2>4. ASSUME NEW s \in log[w], s.role # "background"
          PROVE  s \in {readings["baseline"][w], readings["final"][w]}
      BY <2>1, <2>2, <2>4 DEF TelemetryInv, SampleInv, SamplesAccounted, Boundary
    <2> QED BY <2>3, <2>4
  <1> QED BY <1>1, TelemetryInvHolds, PTL

\* Records that arrive after telemetry was stopped are never unknown to the run.
THEOREM LateSampleIsReportedHolds == TelemetrySpec => []LateSampleIsReported
  <1>1. TelemetryInv => LateSampleIsReported
    BY DEF TelemetryInv, ReportInv
  <1> QED BY <1>1, TelemetryInvHolds, PTL
=============================================================================
