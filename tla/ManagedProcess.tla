--------------------------- MODULE ManagedProcess ---------------------------
(***************************************************************************)
(* collectors/process.py: one explicitly launched child, the leader of a   *)
(* process group of its own, and the calls that wait for it and stop it.   *)
(*                                                                         *)
(* The calling thread runs one call at a time (`step`); every system call of *)
(* it is a step, and between two of them the leader and its descendants    *)
(* may exit or fork, and once the group is empty and its leader has been   *)
(* reaped the kernel may give the group id to a stranger (PidReuse).       *)
(***************************************************************************)
EXTENDS Naturals, FiniteSets

CONSTANTS
    Kids,        \* names of the leader's descendants, all in its group
    Timed,       \* spec.timeout_sec is not None
    PidReuse,    \* the kernel may recycle the group id
    MaxCalls     \* bound on the calls of wait / stop / stop_leader_first

ASSUME ProcessAssumption ==
    /\ IsFiniteSet(Kids)
    /\ Timed \in BOOLEAN /\ PidReuse \in BOOLEAN
    /\ MaxCalls \in Nat

VARIABLES
    leader,      \* the child: absent, running, exited (a zombie) or reaped
    kids,        \* the descendants alive in the group
    foreign,     \* the group id names a group this object did not create
    hit,         \* the signals that reached such a group
    step,        \* where the calling thread is
    call,        \* the method it is in
    report,      \* the locals terminated and killed of that method
    warned,      \* argument term_already_sent of _finish_remaining_group
    missed,      \* SIGKILL was due but the leader was found exited
    outputs,     \* the stdout and stderr files: closed or open
    calls        \* calls made so far

osVars == <<leader, kids, foreign, hit>>
processVars == <<osVars, step, call, report, warned, missed, outputs, calls>>

Methods == {"wait", "stop", "stop_leader_first"}
Finishing == {"probe", "term", "sleep", "probe2", "kill"}

ProcessTypeOK ==
    /\ leader \in {"absent", "running", "exited", "reaped"}
    /\ kids \subseteq Kids
    /\ foreign \in BOOLEAN
    /\ hit \subseteq {"TERM", "KILL"}
    /\ step \in {"new", "abort", "failed", "ready", "waiting", "leadSignal",
               "leadWait", "termPoll", "termSend", "grace", "killPoll",
               "killSend", "reap"} \cup Finishing
    /\ call \in Methods \cup {"none"}
    /\ report \in [terminated : BOOLEAN, killed : BOOLEAN]
    /\ warned \in BOOLEAN
    /\ missed \in BOOLEAN
    /\ outputs \in {"closed", "open"}
    /\ calls \in 0 .. MaxCalls

ProcessInit ==
    /\ leader = "absent" /\ kids = {} /\ foreign = FALSE /\ hit = {}
    /\ step = "new" /\ call = "none"
    /\ report = [terminated |-> FALSE, killed |-> FALSE]
    /\ warned = FALSE /\ missed = FALSE /\ outputs = "closed" /\ calls = 0

-----------------------------------------------------------------------------
(* The operating system                                                    *)

\* The child exits and stays a zombie until this object waits for it.
LeaderExits == leader = "running" /\ leader' = "exited"
               /\ UNCHANGED <<kids, foreign, hit>>

KidExits == \E k \in kids : kids' = kids \ {k}
                            /\ UNCHANGED <<leader, foreign, hit>>

Fork == /\ leader = "running" \/ kids # {}
        /\ \E k \in Kids \ kids : kids' = kids \cup {k}
        /\ UNCHANGED <<leader, foreign, hit>>

\* The id of an empty group whose leader has been reaped is free again.
Reuse == /\ PidReuse /\ leader = "reaped" /\ kids = {} /\ ~foreign
         /\ foreign' = TRUE
         /\ UNCHANGED <<leader, kids, hit>>

Environment ==
    /\ LeaderExits \/ KidExits \/ Fork \/ Reuse
    /\ UNCHANGED <<step, call, report, warned, missed, outputs, calls>>

\* os.killpg finds a process, if only a zombie, under the group id.
GroupExists == leader \in {"running", "exited"} \/ kids # {} \/ foreign

\* What killpg(SIGTERM) and killpg(SIGKILL) do to the group: the first may be
\* ignored, the second ends every member at once.
Deliver(sig) ==
    /\ hit' = IF foreign THEN hit \cup {sig} ELSE hit
    /\ IF sig = "KILL"
       THEN /\ kids' = {}
            /\ leader' = IF leader = "running" THEN "exited" ELSE leader
       ELSE UNCHANGED <<kids, leader>>
    /\ UNCHANGED foreign

\* Popen.poll() and Popen.wait() reap the zombie.
Reap == leader' = "reaped" /\ UNCHANGED <<kids, foreign, hit>>
HasExited == leader \in {"exited", "reaped"}

-----------------------------------------------------------------------------
(* start                                                                   *)

Continue(p) == step' = p

StartSucceeds ==
    /\ step = "new"
    /\ leader' = "running" /\ outputs' = "open" /\ Continue("ready")
    /\ UNCHANGED <<kids, foreign, hit, call, report, warned, missed, calls>>

\* Popen raises: the files are closed and the object stays without a child.
\* A second start then stops at open("xb") of the existing stdout file.
StartRaises ==
    /\ step = "new" /\ Continue("failed")
    /\ UNCHANGED <<osVars, call, report, warned, missed, outputs, calls>>

\* getpgid raises or names another group: terminate the leader and wait.
StartRefusesGroup ==
    /\ step = "new"
    /\ leader' = "running" /\ outputs' = "open" /\ Continue("abort")
    /\ UNCHANGED <<kids, foreign, hit, call, report, warned, missed, calls>>

StartAborts ==
    /\ step = "abort" /\ HasExited
    /\ Reap /\ outputs' = "closed" /\ Continue("failed")
    /\ UNCHANGED <<call, report, warned, missed, calls>>

StartCall == StartSucceeds \/ StartRaises \/ StartRefusesGroup \/ StartAborts

-----------------------------------------------------------------------------
(* The calls                                                               *)

Enter(m) ==
    /\ step = "ready" /\ calls < MaxCalls
    /\ calls' = calls + 1 /\ call' = m
    /\ report' = [terminated |-> FALSE, killed |-> FALSE]
    /\ warned' = FALSE /\ missed' = FALSE
    /\ UNCHANGED outputs

\* The `finally` clause of every call closes the files.
Return ==
    /\ Continue("ready") /\ call' = "none" /\ outputs' = "closed"
    /\ UNCHANGED <<warned, missed, calls>>

Quiet == UNCHANGED <<call, warned, missed, outputs, calls>>

WaitCall == Enter("wait") /\ Continue("waiting") /\ UNCHANGED osVars

\* stop: poll first; a child that has exited is reaped and only its remaining
\* group is finished.
StopCall ==
    /\ Enter("stop")
    /\ IF HasExited THEN Continue("probe") /\ Reap
                    ELSE Continue("termPoll") /\ UNCHANGED osVars

StopLeaderFirstCall ==
    /\ Enter("stop_leader_first")
    /\ IF HasExited THEN Continue("probe") /\ Reap
                    ELSE Continue("leadSignal") /\ UNCHANGED osVars

\* wait: the child ends by itself, then what is left of its group is finished.
WaitEnds ==
    /\ step = "waiting" /\ HasExited
    /\ Reap /\ Continue("probe") /\ UNCHANGED report /\ Quiet

WaitTimesOut ==
    /\ step = "waiting" /\ Timed /\ ~HasExited
    /\ Continue("termPoll") /\ UNCHANGED <<osVars, report>> /\ Quiet

\* stop_leader_first: send_signal polls before it signals, so a leader that
\* has just exited is reaped instead; terminated is set in either case.
LeaderSignal ==
    /\ step = "leadSignal" /\ Continue("leadWait")
    /\ report' = [report EXCEPT !.terminated = TRUE]
    /\ (IF HasExited THEN Reap ELSE UNCHANGED osVars)
    /\ Quiet

LeaderWaitEnds ==
    /\ step = "leadWait" /\ HasExited
    /\ Reap /\ Continue("probe") /\ UNCHANGED report /\ Quiet

LeaderWaitTimesOut ==
    /\ step = "leadWait" /\ ~HasExited
    /\ Continue("termPoll") /\ UNCHANGED <<osVars, report>> /\ Quiet

-----------------------------------------------------------------------------
(* _signal_owned_group while the leader is unreaped: poll and verify the   *)
(* group, then killpg                                                      *)

\* Mutant: the group is signalled without looking at the leader's exit.
TermPollUnchecked ==
    /\ step = "termPoll" /\ Continue("termSend")
    /\ (IF HasExited THEN Reap ELSE UNCHANGED osVars)
    /\ UNCHANGED report /\ Quiet

TermPoll ==
    /\ step = "termPoll"
    /\ IF HasExited THEN Reap /\ Continue("grace")
                    ELSE UNCHANGED osVars /\ Continue("termSend")
    /\ UNCHANGED report /\ Quiet

TermSend ==
    /\ step = "termSend" /\ Continue("grace")
    /\ Deliver("TERM")
    /\ report' = [report EXCEPT !.terminated = TRUE]
    /\ Quiet

\* Mutant: return as soon as the leader has exited.
GraceEndsAtOnce ==
    /\ step = "grace" /\ HasExited
    /\ Reap /\ Return /\ UNCHANGED report

\* _wait_out_grace: the leader exits within the grace period...
GraceEnds ==
    /\ step = "grace" /\ HasExited
    /\ Reap /\ Continue("probe") /\ warned' = TRUE
    /\ UNCHANGED <<report, call, missed, outputs, calls>>

\* ... or it does not, and SIGKILL is due
GraceTimesOut ==
    /\ step = "grace" /\ ~HasExited
    /\ Continue("killPoll") /\ UNCHANGED <<osVars, report>> /\ Quiet

KillPoll ==
    /\ step = "killPoll"
    /\ IF HasExited
       THEN Reap /\ Continue("reap") /\ missed' = TRUE
       ELSE UNCHANGED <<osVars, missed>> /\ Continue("killSend")
    /\ UNCHANGED <<call, report, warned, outputs, calls>>

\* Mutant: the escalation repeats SIGTERM.
KillSendTerm ==
    /\ step = "killSend" /\ Continue("reap")
    /\ Deliver("TERM")
    /\ report' = [report EXCEPT !.killed = TRUE]
    /\ Quiet

KillSend ==
    /\ step = "killSend" /\ Continue("reap")
    /\ Deliver("KILL")
    /\ report' = [report EXCEPT !.killed = TRUE]
    /\ Quiet

ReapAndReturn ==
    /\ step = "reap" /\ HasExited
    /\ Reap /\ Return /\ UNCHANGED report

-----------------------------------------------------------------------------
(* _finish_remaining_group, after the leader has been reaped               *)

Probe ==
    /\ step = "probe"
    /\ IF GroupExists
       THEN /\ Continue(IF warned THEN "sleep" ELSE "term")
            /\ report' = [report EXCEPT !.terminated = TRUE]
            /\ Quiet
       ELSE Return /\ UNCHANGED report
    /\ UNCHANGED osVars

FinishTerm ==
    /\ step = "term" /\ Continue("sleep")
    /\ Deliver("TERM") /\ UNCHANGED report /\ Quiet

Sleep ==
    /\ step = "sleep" /\ Continue("probe2")
    /\ UNCHANGED <<osVars, report>> /\ Quiet

ProbeAgain ==
    /\ step = "probe2"
    /\ IF GroupExists THEN Continue("kill") /\ Quiet ELSE Return
    /\ UNCHANGED <<osVars, report>>

FinishKill ==
    /\ step = "kill"
    /\ Deliver("KILL")
    /\ report' = [report EXCEPT !.killed = TRUE]
    /\ Return

\* killpg on a stranger's group of another user: EPERM, a RuntimeError.
Denied ==
    /\ step \in Finishing \ {"sleep"} /\ foreign
    /\ Return /\ UNCHANGED <<osVars, report>>

Finish == Probe \/ FinishTerm \/ Sleep \/ ProbeAgain \/ FinishKill \/ Denied

-----------------------------------------------------------------------------

Calls == WaitCall \/ StopCall \/ StopLeaderFirstCall

Running ==
    \/ WaitEnds \/ WaitTimesOut
    \/ LeaderSignal \/ LeaderWaitEnds \/ LeaderWaitTimesOut
    \/ TermPoll \/ TermSend \/ GraceEnds \/ GraceTimesOut
    \/ KillPoll \/ KillSend \/ ReapAndReturn
    \/ Finish

ProcessNext == Environment \/ StartCall \/ Calls \/ Running

\* A thread inside a call keeps running, and its timeouts elapse; nothing is
\* assumed of the child or of its descendants.
ProcessFairness == WF_processVars(Running)

ProcessSpec == ProcessInit /\ [][ProcessNext]_processVars /\ ProcessFairness

-----------------------------------------------------------------------------
(* Properties                                                              *)

Returned == step = "ready" /\ calls > 0

\* A call that returns leaves no zombie, and leaves descendants alive only
\* when the leader exited between the end of the grace period and SIGKILL:
\* every other path of wait, stop and stop_leader_first empties the group.
OnlyMissedKillLeavesSurvivors ==
    Returned => leader = "reaped" /\ (kids # {} => missed)

\* _wait_out_grace: "Either way the owned descendants are finished before
\* returning" - no call returns while a member of the group is alive.
DescendantsFinished == Returned => kids = {}

\* A CommandResult never says killed without saying terminated: SIGKILL is
\* only an escalation of a termination that was reported.
KilledImpliesTerminated == Returned /\ report.killed => report.terminated

\* While the leader is unreaped the poll and the group check keep every signal
\* away from a recycled group id; only the finishing of a group whose leader
\* is gone can reach a stranger.
VerifiedSignalsStayHome == [][hit' # hit => step \in Finishing]_processVars

\* stop and stop_leader_first return, and so does wait when the command has a
\* timeout, even if the leader and its descendants ignore SIGTERM and fork.
CallReturns ==
    (call \in {"stop", "stop_leader_first"} \/ (call = "wait" /\ Timed))
        ~> (call = "none")
=============================================================================
