----------------------------- MODULE Checkpoint -----------------------------
(***************************************************************************)
(* tools/evaluation/checkpoint.py: the attempt history an experiment keeps *)
(* on disk, how a record enters it, and which new history may replace an   *)
(* old one.                                                                *)
(*                                                                         *)
(* A record keeps the trial and the attempt number (its attempt_id and its *)
(* directory are made from them), the status, and of the failure class     *)
(* whether experiment.RETRYABLE holds it.                                  *)
(***************************************************************************)
EXTENDS Naturals, Sequences

CONSTANTS
    NumTrials,   \* logical trials, numbered in schedule order
    MaxAttempts  \* max_hardware_attempts

ASSUME CheckpointAssumption ==
    /\ NumTrials \in Nat \ {0}
    /\ MaxAttempts \in Nat /\ MaxAttempts >= NumTrials

Trials == 1 .. NumTrials
Status == {"running", "succeeded", "failed", "partial"}
Class == {"none", "retryable", "final"}

\* AttemptRecord: failure data exactly on failed and partial attempts.
Record == {r \in [trial : Trials, number : {1, 2}, status : Status, class : Class] :
              r.class # "none" <=> r.status \in {"failed", "partial"}}

Terminal(r) == r.status # "running"
SameAttempt(r, s) == r.trial = s.trial /\ r.number = s.number

\* _validate_attempt_history: attempt numbers of a trial count up from one, at
\* most one retry, nothing after a success; and the hardware budget.
SoundHistory(h) ==
    /\ Len(h) <= MaxAttempts
    /\ \A i, j \in DOMAIN h : i < j /\ h[i].trial = h[j].trial =>
           h[i].number < h[j].number /\ h[i].status # "succeeded"
    /\ \A j \in DOMAIN h : h[j].number = 2 =>
           \E i \in DOMAIN h : i < j /\ h[i].trial = h[j].trial

Of(h, t) == {i \in DOMAIN h : h[i].trial = t}

\* The number of the next attempt of t in a sound history.
NextNumber(h, t) == IF Of(h, t) = {} THEN 1
                    ELSE IF \E i \in Of(h, t) : h[i].number = 2 THEN 3 ELSE 2

\* with_attempt, a new record.
MayAppend(h, r) ==
    /\ Len(h) < MaxAttempts
    /\ \A i \in Of(h, r.trial) : h[i].status \notin {"running", "succeeded"}
    /\ r.number = NextNumber(h, r.trial)

\* _validate_attempt_record_transition
MayBecome(r, s) ==
    /\ SameAttempt(r, s)
    /\ Terminal(r) => r = s
    /\ s.status = "running" => r = s

\* with_attempt: the history with the record appended, or in the place of the
\* record of the same attempt.
MayRecord(h, r) ==
    IF \E i \in DOMAIN h : SameAttempt(h[i], r)
    THEN \A i \in DOMAIN h : SameAttempt(h[i], r) => MayBecome(h[i], r)
    ELSE MayAppend(h, r)

WithAttempt(h, r) ==
    IF \E i \in DOMAIN h : SameAttempt(h[i], r)
    THEN [i \in DOMAIN h |-> IF SameAttempt(h[i], r) THEN r ELSE h[i]]
    ELSE Append(h, r)

\* validate_checkpoint_transition, on the histories.
MayReplace(old, new) ==
    /\ Len(new) \in {Len(old), Len(old) + 1}
    /\ \A i \in DOMAIN old : MayBecome(old[i], new[i])
=============================================================================
