-------------------------------- MODULE Wave --------------------------------
(***************************************************************************)
(* tools/evaluation/concurrent_wave.py: a wave of requests to the proxy,   *)
(* one thread each, released together by a barrier; and the wait for       *)
(* completion markers of php/hybrid/runner.py, which follows the last      *)
(* wave. A wave may also fail for what its timestamps and token counts     *)
(* say, which is left open here.                                           *)
(***************************************************************************)
EXTENDS Proxy

VARIABLES
    thread,  \* of each request: new, gate, run, over (without having asked)
    gate,    \* the barrier: closed, open, broken
    runner   \* dispatch, drain, drained, late, failed

waveVars == <<thread, gate, runner>>
allVars == <<proxyVars, waveVars>>

WaveTypeOK ==
    /\ ProxyTypeOK
    /\ thread \in [Requests -> {"new", "gate", "run", "over"}]
    /\ gate \in {"closed", "open", "broken"}
    /\ runner \in {"dispatch", "drain", "drained", "late", "failed"}

WaveInit ==
    /\ ProxyInit /\ thread = [r \in Requests |-> "new"]
    /\ gate = "closed" /\ runner = "dispatch"

Become(r, s) == thread' = [thread EXCEPT ![r] = s]

\* barrier.wait: the last to arrive opens the barrier, a broken one raises.
Arrive(r) ==
    /\ thread[r] = "new" /\ Become(r, IF gate = "broken" THEN "over" ELSE "gate")
    /\ gate' = IF gate = "closed" /\ \A s \in Requests : thread'[s] = "gate"
               THEN "open" ELSE gate
    /\ UNCHANGED <<runner, proxyVars>>

\* executor.submit cannot start a thread: the wave waits for the others.
NoThread(r) ==
    /\ thread[r] = "new" /\ Become(r, "over")
    /\ UNCHANGED <<gate, runner, proxyVars>>

\* Mutant: whoever has waited long enough goes on.
GateTimeoutSends(r) ==
    /\ thread[r] = "gate" /\ gate = "closed"
    /\ gate' = "broken" /\ Become(r, "run") /\ Ask(r)
    /\ UNCHANGED runner

\* Mutant: the barrier is waited for without a timeout.
GateNeverTimesOut(r) ==
    /\ thread[r] = "gate" /\ gate = "broken" /\ Become(r, "over")
    /\ UNCHANGED <<gate, runner, proxyVars>>

\* The timeout of one breaks the barrier for all.
GateTimeout(r) ==
    /\ thread[r] = "gate" /\ gate \in {"closed", "broken"}
    /\ gate' = "broken" /\ Become(r, "over")
    /\ UNCHANGED <<runner, proxyVars>>

Send(r) ==
    /\ thread[r] = "gate" /\ gate = "open"
    /\ Become(r, "run") /\ Ask(r)
    /\ UNCHANGED <<gate, runner>>

Over(r) ==
    \/ thread[r] = "over"
    \/ thread[r] = "run" /\ client[r] \in {"ok", "error"}

\* _dispatch returns when every thread is over.
Judge ==
    /\ runner = "dispatch" /\ \A r \in Requests : Over(r)
    /\ \/ runner' = "drain" /\ \A r \in Requests : client[r] = "ok"
       \/ runner' = "failed"
    /\ UNCHANGED <<thread, gate, proxyVars>>

\* Mutant: the markers of one request will do.
CompleteAny == \E r \in Requests : Marked(r, 7)

Complete == \A r \in Requests : Marked(r, 7)

\* _wait_runtime_marker_completion: until response_done and decode_loop_end of
\* every request are there, or too late. The NPU writes the latter on its own.
Drain ==
    /\ runner = "drain"
    /\ \/ Complete /\ runner' = "drained"
       \/ runner' = "late"
    /\ UNCHANGED <<thread, gate, proxyVars>>

Thread(r) == Arrive(r) \/ NoThread(r) \/ GateTimeout(r) \/ Send(r)

WaveNext ==
    \/ Judge \/ Drain \/ \E r \in Requests : Thread(r)
    \/ /\ ProxyDies \/ \E r \in Requests : Client(r) \/ Handler(r)
       /\ UNCHANGED waveVars

\* The threads run and all their waits have timeouts: of the client, of the
\* barrier, of the handler towards either server. The servers promise nothing.
WaveFairness ==
    /\ WF_allVars(Judge) /\ WF_allVars(Drain)
    /\ \A r \in Requests :
        /\ WF_allVars(Thread(r))
        /\ WF_allVars(Client(r) /\ UNCHANGED waveVars)
        /\ WF_allVars(Handler(r) /\ UNCHANGED waveVars)

WaveSpec == WaveInit /\ [][WaveNext]_allVars /\ WaveFairness

-----------------------------------------------------------------------------
(* Properties                                                              *)

\* No request of a wave is sent unless every thread of the wave gets to send
\* its own: a wave is never measured with less than its concurrency.
WavesAreWhole ==
    \A r, s \in Requests : client[r] # "idle" =>
        gate = "open" /\ thread[s] \in {"gate", "run"}

\* When the runner goes on, no client of the wave is under way any more.
NoneInFlight ==
    runner # "dispatch" => \A r \in Requests : client[r] # "asking"

\* When the drain has ended well, the file holds the whole sequence of every
\* request, and both servers have done with it.
DrainedIsComplete ==
    runner = "drained" => \A r \in Requests :
        /\ prefill[r] = "kv" /\ decode[r] = "streamed"
        /\ \A m \in 1 .. 7 : Marked(r, m)

\* The runner gets through the wave and the drain.
WaveEnds == <>(runner \in {"drained", "late", "failed"})
=============================================================================
