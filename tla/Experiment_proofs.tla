------------------------- MODULE Experiment_proofs -------------------------
(***************************************************************************)
(* Proofs about Experiment, for any number of trials, pilots, attempts,    *)
(* crashes and damaged artifacts: checkpoint.json is the log that          *)
(* AttemptHistory specifies, so it inherits what holds of such a log.      *)
(*                                                                         *)
(* Kept is the invariant of the log in the terms of Experiment. Control    *)
(* says what the runner may rely on at each step: that what it remembers   *)
(* is what is on disk, whether an attempt is under way, and that the       *)
(* checks made before an attempt still hold when it is recorded.           *)
(* Directories, at the end, says what is true of the attempt directories.  *)
(***************************************************************************)
EXTENDS Experiment, TLAPS, FiniteSetTheorems

OnlyLastRuns == \A i \in DOMAIN ckpt : i # Len(ckpt) => Terminal(ckpt[i])

Kept == /\ ckpt \in Seq(Record) /\ SoundHistory(ckpt)
        /\ OnlyLastRuns /\ RetriesAreRetryable /\ FormalsAfterPilots

AllFinished == \A i \in DOMAIN ckpt : Terminal(ckpt[i])

\* What the checks before an attempt of t have established.
Admitted(t) ==
    /\ \A i \in Of(ckpt, t) : ckpt[i].number = 1 /\ ckpt[i].class = "retryable"
    /\ Formal(t) => Pilots \subseteq Succeeded(ckpt)

Working == {"preflight", "hardware", "finalize"}

Control ==
    /\ root # "ready" => ckpt = << >>
    /\ pc = "init" => root = "partial"
    /\ pc \notin {"down", "init"} => root = "ready" /\ mem = ckpt
    /\ \A i \in DOMAIN ckpt : ckpt[i].status # "partial"
    /\ pc \notin Working \cup {"down"} => AllFinished
    /\ pc \in Working => ckpt # << >> /\ ~Terminal(ckpt[Len(ckpt)])
    /\ pc \in Working \cup {"trialFile"} =>
           ckpt # << >> /\ ckpt[Len(ckpt)].trial = cur
    /\ pc \in {"mkdir", "plan", "record"} => Admitted(cur)
    /\ pc \notin {"down", "init"} =>
           succ \subseteq Succeeded(ckpt) /\ Succeeded(ckpt) \subseteq succ \cup {cur}
    /\ pc = "next" => Succeeded(ckpt) \subseteq succ

Inv == TypeOK /\ Kept /\ Control

-----------------------------------------------------------------------------
(* The log                                                                 *)

\* The invariant of the log, in the terms of Experiment.
LEMMA KeptIsLogInv == Kept <=> History!Inv
BY DEF Kept, OnlyLastRuns, RetriesAreRetryable, FormalsAfterPilots, SoundHistory,
       Formal, Pilots, Record, Status, Class, Trials, Terminal, History!Inv,
       History!LastMayRun, History!RetriesFollowFailures, History!PilotsComeFirst,
       History!SoundHistory, History!Record, History!Status, History!Class,
       History!Trials, History!Terminal

\* What Admitted and the other checks admit is what the log calls an attempt.
Begins(r) ==
    /\ AllFinished /\ Len(ckpt) < MaxAttempts /\ Admitted(r.trial)
    /\ r.status = "running"
    /\ r.number = IF Of(ckpt, r.trial) = {} THEN 1 ELSE 2
    /\ ckpt' = Append(ckpt, r)

Ends(s) ==
    /\ ckpt # << >> /\ ~Terminal(ckpt[Len(ckpt)])
    /\ Terminal(s) /\ SameAttempt(ckpt[Len(ckpt)], s)
    /\ ckpt' = [ckpt EXCEPT ![Len(ckpt)] = s]

\* The two steps of the log, in the terms of Experiment.
LEMMA LogSteps ==
    ckpt \in Seq(Record) => /\ History!Begin <=> \E r \in Record : Begins(r)
                            /\ History!End <=> \E s \in Record : Ends(s)
<1> SUFFICES ASSUME ckpt \in Seq(Record)
             PROVE  /\ History!Begin <=> \E r \in Record : Begins(r)
                    /\ History!End <=> \E s \in Record : Ends(s)
  OBVIOUS
<1>1. History!Record = Record
  BY DEF Record, Status, Class, Trials, History!Record, History!Status,
         History!Class, History!Trials
<1>2. ASSUME NEW r \in Record
      PROVE  Admitted(r.trial) <=>
                 /\ \A i \in History!Of(ckpt, r.trial) :
                        ckpt[i].number = 1 /\ ckpt[i].class = "retryable"
                 /\ r.trial > NumPilots => \A p \in 1 .. NumPilots : History!Succeeds(p)
  BY DEF Admitted, Formal, Pilots, Succeeded, Of, History!Of, History!Succeeds
<1>3. AllFinished <=> History!Settled
  BY DEF AllFinished, Terminal, History!Settled, History!Terminal
<1>4. \A t : Of(ckpt, t) = History!Of(ckpt, t)
  BY DEF Of, History!Of
<1>5. History!Begin <=> \E r \in Record : Begins(r)
  BY <1>1, <1>2, <1>3, <1>4 DEF Begins, History!Begin
<1>6. History!End <=> \E s \in Record : Ends(s)
  BY <1>1 DEF Ends, Terminal, SameAttempt, History!End, History!Terminal,
              History!SameAttempt
<1> QED BY <1>5, <1>6

\* Appending a record to a sequence of records.
LEMMA AppendRecord ==
    ASSUME NEW h \in Seq(Record), NEW r \in Record
    PROVE  /\ Append(h, r) \in Seq(Record)
           /\ Len(Append(h, r)) = Len(h) + 1
           /\ DOMAIN Append(h, r) = 1 .. Len(h) + 1
           /\ \A i \in 1 .. Len(h) : Append(h, r)[i] = h[i]
           /\ Append(h, r)[Len(h) + 1] = r
BY DEF Record

\* Replacing the last record of a sequence of records.
LEMMA ReplaceLast ==
    ASSUME NEW h \in Seq(Record), h # << >>, NEW s \in Record
    PROVE  LET g == [h EXCEPT ![Len(h)] = s]
           IN  /\ g \in Seq(Record) /\ Len(g) = Len(h) /\ DOMAIN g = DOMAIN h
               /\ \A i \in DOMAIN h : g[i] = IF i = Len(h) THEN s ELSE h[i]
OBVIOUS

\* A new attempt keeps every promise of the log.
LEMMA BeginKeeps ==
    ASSUME Kept, NEW r \in Record, Begins(r) PROVE Kept'
<1> USE DEF Kept
<1> DEFINE n == Len(ckpt) + 1
<1>1. /\ ckpt' \in Seq(Record) /\ Len(ckpt') = n /\ DOMAIN ckpt' = 1 .. n
      /\ \A i \in DOMAIN ckpt : ckpt'[i] = ckpt[i]
      /\ ckpt'[n] = r
      /\ DOMAIN ckpt = 1 .. n - 1 /\ n \in Nat \ {0}
  BY AppendRecord DEF Begins
<1> HIDE DEF n
<1>2. \A i \in DOMAIN ckpt : ckpt[i] \in Record
  OBVIOUS
<1>3. \A i \in DOMAIN ckpt : ckpt[i].trial = r.trial =>
          /\ ckpt[i].number = 1 /\ ckpt[i].class = "retryable"
          /\ ckpt[i].status # "succeeded" /\ r.number = 2
  BY <1>2 DEF Begins, Admitted, Of, Record
<1>4. SoundHistory(ckpt')
  <2>1. Len(ckpt') <= MaxAttempts
    BY <1>1, CheckpointAssumption DEF n, Begins
  <2>2. \A i, j \in DOMAIN ckpt' :
            i < j /\ ckpt'[i].trial = ckpt'[j].trial =>
                ckpt'[i].number < ckpt'[j].number
                /\ ckpt'[i].status # "succeeded"
    BY <1>1, <1>3 DEF SoundHistory
  <2>3. \A j \in DOMAIN ckpt' : ckpt'[j].number = 2 =>
            \E i \in DOMAIN ckpt' : i < j /\ ckpt'[i].trial = ckpt'[j].trial
    BY <1>1, <1>3 DEF SoundHistory, Of, Begins
  <2> QED BY <2>1, <2>2, <2>3 DEF SoundHistory
<1>5. OnlyLastRuns'
  BY <1>1 DEF OnlyLastRuns, AllFinished, Begins
<1>6. RetriesAreRetryable'
  BY <1>1, <1>3 DEF RetriesAreRetryable
<1>7. FormalsAfterPilots'
  BY <1>1 DEF FormalsAfterPilots, Begins, Admitted, Succeeded
<1> QED BY <1>1, <1>4, <1>5, <1>6, <1>7

\* So does the end of an attempt.
LEMMA EndKeeps ==
    ASSUME Kept, NEW s \in Record, Ends(s) PROVE Kept'
<1> USE DEF Kept
<1> DEFINE n == Len(ckpt)
<1>1. ckpt # << >> /\ n \in DOMAIN ckpt /\ n \in Nat
  BY DEF Ends
<1>2. /\ ckpt' \in Seq(Record) /\ Len(ckpt') = n
      /\ DOMAIN ckpt' = DOMAIN ckpt /\ DOMAIN ckpt = 1 .. n
      /\ \A i \in DOMAIN ckpt : ckpt'[i] = IF i = n THEN s ELSE ckpt[i]
  BY <1>1, ReplaceLast DEF Ends
<1>3. \A i \in DOMAIN ckpt : /\ ckpt'[i].trial = ckpt[i].trial
                             /\ ckpt'[i].number = ckpt[i].number
  BY <1>2 DEF SameAttempt, Ends, n
<1>4. ~Terminal(ckpt[n]) /\ Terminal(s)
  BY DEF Ends
<1> HIDE DEF n
<1>5. SoundHistory(ckpt')
  BY <1>1, <1>2, <1>3, <1>4 DEF SoundHistory, n
<1>6. OnlyLastRuns'
  BY <1>2, <1>4 DEF OnlyLastRuns, n
<1>7. RetriesAreRetryable'
  BY <1>1, <1>2, <1>3 DEF RetriesAreRetryable
<1>8. FormalsAfterPilots'
  BY <1>1, <1>2, <1>3, <1>4 DEF FormalsAfterPilots, Terminal
<1> QED BY <1>2, <1>5, <1>6, <1>7, <1>8

\* Recording a new attempt is a step of the log.
LEMMA BeginsAttempt ==
    ASSUME ckpt \in Seq(Record), NEW r \in Record, Begins(r) PROVE History!Begin
BY LogSteps

\* Finishing the attempt under way is one, too.
LEMMA EndsAttempt ==
    ASSUME ckpt \in Seq(Record), NEW s \in Record, Ends(s) PROVE History!End
BY LogSteps

\* Steps of the log keep what has been kept.
LEMMA StepsKeep == Kept /\ (History!Next \/ UNCHANGED ckpt) => Kept'
<1>1. Kept /\ UNCHANGED ckpt => Kept'
  BY DEF Kept, SoundHistory, OnlyLastRuns, RetriesAreRetryable, FormalsAfterPilots
<1>2. Kept /\ History!Begin => Kept'
  BY LogSteps, BeginKeeps DEF Kept
<1>3. Kept /\ History!End => Kept'
  BY LogSteps, EndKeeps DEF Kept
<1> QED BY <1>1, <1>2, <1>3 DEF History!Next

\* Whoever keeps a history as this log keeps a sound one, whose retries follow
\* retryable failures and whose formal trials follow the pilots.
THEOREM LogIsSound == History!Spec => []History!Inv
<1>1. History!Init => Kept
  BY CheckpointAssumption
     DEF History!Init, Kept, SoundHistory, OnlyLastRuns, RetriesAreRetryable,
         FormalsAfterPilots
<1>2. Kept /\ [History!Next]_ckpt => Kept'
  BY StepsKeep
<1> QED BY <1>1, <1>2, KeptIsLogInv, PTL DEF History!Spec

-----------------------------------------------------------------------------
(* What the updates of the checkpoint do                                   *)

\* The attempt of an admitted trial is a new record with the next number.
LEMMA AdmittedAttempt ==
    ASSUME Inv, mem = ckpt, Admitted(cur)
    PROVE  /\ Attempt(cur) \in Record
           /\ Attempt(cur).trial = cur /\ Attempt(cur).status = "running"
           /\ Attempt(cur).number = IF Of(ckpt, cur) = {} THEN 1 ELSE 2
           /\ WithAttempt(mem, Attempt(cur)) = Append(ckpt, Attempt(cur))
           /\ MayRecord(mem, Attempt(cur)) <=> MayAppend(ckpt, Attempt(cur))
<1> DEFINE r == Attempt(cur)
<1>1. r.number = IF Of(ckpt, cur) = {} THEN 1 ELSE 2
  BY DEF Attempt, NextNumber, Admitted
<1>2. r.trial = cur /\ r.status = "running" /\ r.class = "none"
  BY DEF Attempt
<1>3. r \in Record
  BY <1>1 DEF Attempt, Record, Inv, TypeOK, HistoryTypes, Status, Class, NextNumber, Admitted
<1>4. ~ \E i \in DOMAIN ckpt : SameAttempt(ckpt[i], r)
  BY <1>1, <1>2 DEF SameAttempt, Of, Admitted
<1> QED BY <1>1, <1>2, <1>3, <1>4 DEF WithAttempt, MayRecord

\* The unfinished attempt of the current trial is the last record.
LEMMA RunningIsLast ==
    ASSUME Inv, mem = ckpt, pc \in Working
    PROVE  Running = Len(ckpt) /\ Len(ckpt) \in DOMAIN ckpt
<1>1. Len(ckpt) \in DOMAIN ckpt
  BY DEF Inv, Kept, Control
<1>2. \A i \in DOMAIN ckpt : (ckpt[i].trial = cur /\ ~Terminal(ckpt[i])) <=> i = Len(ckpt)
  BY <1>1 DEF Inv, Kept, OnlyLastRuns, Control
<1> QED BY <1>1, <1>2 DEF Running

\* In a sound history the last attempt is the only one of its number.
LEMMA ReplacesLast ==
    ASSUME Kept, ckpt # << >>, NEW s, SameAttempt(ckpt[Len(ckpt)], s)
    PROVE  WithAttempt(ckpt, s) = [ckpt EXCEPT ![Len(ckpt)] = s]
<1> DEFINE n == Len(ckpt)
<1>1. n \in DOMAIN ckpt /\ DOMAIN ckpt = 1 .. n
  BY DEF Kept
<1>2. \A i \in DOMAIN ckpt : SameAttempt(ckpt[i], s) <=> i = n
  <2> TAKE i \in DOMAIN ckpt
  <2>1. SameAttempt(ckpt[i], s) /\ i # n => i < n /\ ckpt[i].trial = ckpt[n].trial
    BY <1>1 DEF SameAttempt
  <2>2. SameAttempt(ckpt[i], s) => ckpt[i].number = ckpt[n].number
    BY DEF SameAttempt
  <2>3. ckpt[n].number \in {1, 2}
    BY <1>1 DEF Kept, Record
  <2> QED BY <1>1, <2>1, <2>2, <2>3 DEF Kept, SoundHistory
<1>3. WithAttempt(ckpt, s) = [i \in DOMAIN ckpt |-> IF SameAttempt(ckpt[i], s) THEN s ELSE ckpt[i]]
  BY <1>1, <1>2 DEF WithAttempt
<1>4. [ckpt EXCEPT ![n] = s] = [i \in DOMAIN ckpt |-> IF i = n THEN s ELSE ckpt[i]]
  BY <1>1 DEF Kept
<1> QED BY <1>2, <1>3, <1>4

\* When trial.json is written the last record is the latest of its trial.
LEMMA LatestIsLast ==
    ASSUME Inv, mem = ckpt, pc = "trialFile"
    PROVE  Latest = Len(ckpt) /\ Len(ckpt) \in DOMAIN ckpt
<1>1. Len(ckpt) \in DOMAIN ckpt /\ ckpt[Len(ckpt)].trial = cur
  BY DEF Inv, Kept, Control
<1>2. \A i \in Of(mem, cur) : (\A j \in Of(mem, cur) : j <= i) <=> i = Len(ckpt)
  BY <1>1 DEF Inv, Kept, Of
<1> QED BY <1>1, <1>2 DEF Latest, Of

\* The attempts the runner names have a directory of their own.
LEMMA NamedAttempts ==
    ASSUME Inv
    PROVE  /\ mem = ckpt /\ Admitted(cur) => IdOf(Attempt(cur)) \in Ids
           /\ mem = ckpt /\ pc \in Working => RunningId \in Ids
<1>1. \A r \in Record : IdOf(r) \in Ids
  BY DEF IdOf, Ids, Record
<1>2. ASSUME mem = ckpt, pc \in Working PROVE mem[Running] \in Record
  BY <1>2, RunningIsLast DEF Inv, Kept
<1> QED BY <1>1, <1>2, AdmittedAttempt DEF RunningId

\* What becomes of the attempt under way is a finished record of it.
LEMMA FinishedRecords ==
    ASSUME NEW r \in Record
    PROVE  /\ Final(r) \in Record /\ Terminal(Final(r)) /\ SameAttempt(r, Final(r))
           /\ Final(r).status # "partial"
           /\ Interrupted(r) \in Record /\ Terminal(Interrupted(r))
           /\ SameAttempt(r, Interrupted(r)) /\ Interrupted(r).status # "partial"
BY DEF Final, Interrupted, Record, Status, Class, Terminal, SameAttempt

\* Finalizing the attempt replaces the last record.
LEMMA FinalizeReplaces ==
    ASSUME Inv, Finalize
    PROVE  /\ ckpt[Len(ckpt)] \in Record
           /\ ckpt' = [ckpt EXCEPT ![Len(ckpt)] = Final(ckpt[Len(ckpt)])]
           /\ ckpt' \in Seq(Record) /\ mem' = ckpt' /\ History!End
<1>1. mem = ckpt /\ pc \in Working
  BY DEF Inv, Control, Finalize, Working
<1>2. Running = Len(ckpt) /\ Len(ckpt) \in DOMAIN ckpt
  BY <1>1, RunningIsLast
<1>3. ckpt[Len(ckpt)] \in Record
  BY <1>2 DEF Inv, Kept
<1>4. ckpt' = [ckpt EXCEPT ![Len(ckpt)] = Final(ckpt[Len(ckpt)])]
  BY <1>1, <1>2, <1>3, FinishedRecords, ReplacesLast DEF Finalize, Inv, Control
<1>5. History!End
  BY <1>1, <1>3, <1>4, FinishedRecords, EndsAttempt DEF Ends, Inv, Kept, Control
<1>6. ckpt' \in Seq(Record)
  BY <1>5, StepsKeep DEF Inv, Kept, History!Next
<1> QED BY <1>3, <1>4, <1>5, <1>6 DEF Finalize

\* A resume finishes the last record, or finds it finished.
LEMMA ResumeReplaces ==
    ASSUME Inv, Resume
    PROVE  /\ ckpt' \in Seq(Record) /\ Len(ckpt') = Len(ckpt)
           /\ \A i \in DOMAIN ckpt' : /\ Terminal(ckpt'[i])
                                      /\ ckpt'[i].status # "partial"
           /\ mem' = ckpt' /\ succ' = Succeeded(ckpt')
           /\ Succeeded(ckpt') \subseteq Trials
           /\ History!End \/ UNCHANGED ckpt
<1> DEFINE n == Len(ckpt)
<1> DEFINE h == [i \in DOMAIN ckpt |-> IF Terminal(ckpt[i]) THEN ckpt[i]
                                       ELSE Interrupted(ckpt[i])]
<1>1. ckpt' = h /\ mem' = h /\ succ' = Succeeded(h)
  BY DEF Resume
<1>2. ckpt \in Seq(Record) /\ n \in Nat /\ DOMAIN ckpt = 1 .. n
      /\ \A i \in DOMAIN ckpt : ckpt[i] \in Record
  BY DEF Inv, Kept
<1>3. \A i \in DOMAIN ckpt : h[i] \in Record /\ Terminal(h[i]) /\ h[i].status # "partial"
  BY <1>2, FinishedRecords DEF Inv, Control
<1>4. h \in Seq(Record) /\ Len(h) = n /\ DOMAIN h = DOMAIN ckpt
  BY <1>2, <1>3
<1>5. \A g \in Seq(Record) : Succeeded(g) \subseteq Trials
  BY DEF Succeeded, Record
<1>6. CASE AllFinished
  <2>1. h = ckpt
    BY <1>2, <1>6 DEF AllFinished
  <2> QED BY <1>1, <1>3, <1>4, <1>5, <2>1
<1>7. CASE ~AllFinished
  <2>1. ckpt # << >> /\ n \in DOMAIN ckpt /\ ~Terminal(ckpt[n])
    BY <1>2, <1>7 DEF AllFinished, Inv, Kept, OnlyLastRuns
  <2>2. h = [ckpt EXCEPT ![n] = Interrupted(ckpt[n])]
    BY <1>2, <2>1 DEF Inv, Kept, OnlyLastRuns
  <2>3. History!End
    BY <1>1, <1>2, <2>1, <2>2, FinishedRecords, EndsAttempt DEF Ends
  <2> QED BY <1>1, <1>3, <1>4, <1>5, <2>3
<1> QED BY <1>6, <1>7

-----------------------------------------------------------------------------
(* Steps                                                                   *)

\* Recording an attempt of the current trial begins it in the log.
LEMMA RecordBegins ==
    ASSUME Inv, RecordRunning
    PROVE  \/ UNCHANGED <<ckpt, mem>> /\ pc' = "down"
           \/ /\ Attempt(cur) \in Record /\ ckpt' = Append(ckpt, Attempt(cur))
              /\ mem' = ckpt' /\ pc' = "preflight" /\ History!Begin
<1>1. pc = "record" /\ mem = ckpt /\ AllFinished /\ Admitted(cur)
  BY DEF Inv, Control, RecordRunning, Working
<1>2. CASE ~MayRecord(mem, Attempt(cur))
  BY <1>2 DEF RecordRunning, Raise
<1>3. CASE MayRecord(mem, Attempt(cur))
  <2>1. mem' = WithAttempt(mem, Attempt(cur)) /\ ckpt' = mem' /\ pc' = "preflight"
    BY <1>3 DEF RecordRunning, Goto
  <2>2. Len(ckpt) < MaxAttempts
    BY <1>1, <1>3, AdmittedAttempt DEF MayAppend
  <2> QED
    BY <1>1, <2>1, <2>2, AdmittedAttempt, BeginsAttempt DEF Begins, Inv, Kept
<1> QED BY <1>2, <1>3

\* Every step of the experiment is a step of the log or leaves it alone.
LEMMA StepsOfLog == Inv /\ [Next]_vars => History!Next \/ UNCHANGED ckpt
<1> SUFFICES ASSUME Inv, [Next]_vars PROVE History!Next \/ UNCHANGED ckpt
  OBVIOUS
<1>1. CASE RecordRunning
  BY <1>1, RecordBegins DEF History!Next
<1>2. CASE Finalize
  BY <1>2, FinalizeReplaces DEF History!Next
<1>3. CASE Resume
  BY <1>3, ResumeReplaces DEF History!Next
<1>4. CASE New \/ Initialize \/ ResumeRaises \/ NextTrial \/ NextRaises \/ NextEnds \/ Mkdir \/ Plan \/ Preflight \/ Hardware \/ TrialFile \/ Validate \/ Report \/ Manifest \/ ManifestValidation \/ Crash \/ HardwareFreed \/ Corrupt
  BY <1>4 DEF New, Initialize, ResumeRaises, NextTrial, NextRaises, NextEnds, Mkdir, Plan, Preflight, Hardware, TrialFile, Validate, Report, Manifest, ManifestValidation, Crash, HardwareFreed, Corrupt, disk
<1> QED BY <1>1, <1>2, <1>3, <1>4 DEF Next, Operator, Runner, vars, disk

\* The types are kept.
LEMMA TypesStay == Inv /\ [Next]_vars => TypeOK'
<1> SUFFICES ASSUME Inv, [Next]_vars PROVE TypeOK'
  OBVIOUS
<1> USE CheckpointAssumption, ExperimentAssumption DEF Inv, TypeOK, disk, local, bounds
<1>1. CASE New
  <2> USE <1>1 DEF New, Goto
  <2>1. HistoryTypes' BY DEF HistoryTypes
  <2>2. FileTypes' BY DEF FileTypes, Closing
  <2>3. StepTypes' BY DEF StepTypes, Steps
  <2>4. FlagTypes' BY DEF FlagTypes
  <2> QED BY <2>1, <2>2, <2>3, <2>4
<1>2. CASE ResumeRaises
  <2> USE <1>2 DEF ResumeRaises
  <2>1. HistoryTypes' BY DEF HistoryTypes
  <2>2. FileTypes' BY DEF FileTypes, Closing
  <2>3. StepTypes' BY DEF StepTypes, Steps
  <2>4. FlagTypes' BY DEF FlagTypes
  <2> QED BY <2>1, <2>2, <2>3, <2>4
<1>3. CASE Initialize
  <2> USE <1>3 DEF Initialize, Goto
  <2>1. HistoryTypes' BY DEF HistoryTypes
  <2>2. FileTypes' BY DEF FileTypes, Closing
  <2>3. StepTypes' BY DEF StepTypes, Steps
  <2>4. FlagTypes' BY DEF FlagTypes
  <2> QED BY <2>1, <2>2, <2>3, <2>4
<1>4. CASE NextTrial
  <2> USE <1>4 DEF NextTrial, Goto
  <2>1. HistoryTypes' BY DEF HistoryTypes
  <2>2. FileTypes' BY DEF FileTypes, Closing
  <2>3. StepTypes' BY DEF StepTypes, Steps
  <2>4. FlagTypes' BY DEF FlagTypes
  <2> QED BY <2>1, <2>2, <2>3, <2>4
<1>5. CASE NextRaises
  <2> USE <1>5 DEF NextRaises, Raise
  <2>1. HistoryTypes' BY DEF HistoryTypes
  <2>2. FileTypes' BY DEF FileTypes, Closing
  <2>3. StepTypes' BY DEF StepTypes, Steps
  <2>4. FlagTypes' BY DEF FlagTypes
  <2> QED BY <2>1, <2>2, <2>3, <2>4
<1>6. CASE NextEnds
  <2> USE <1>6 DEF NextEnds, Goto
  <2>1. HistoryTypes' BY DEF HistoryTypes
  <2>2. FileTypes' BY DEF FileTypes, Closing
  <2>3. StepTypes' BY DEF StepTypes, Steps
  <2>4. FlagTypes' BY DEF FlagTypes
  <2> QED BY <2>1, <2>2, <2>3, <2>4
<1>7. CASE Mkdir
  <2> USE <1>7 DEF Mkdir, Raise, Goto
  <2>1. HistoryTypes' BY DEF HistoryTypes
  <2>2. FileTypes'
    BY NamedAttempts DEF FileTypes, Closing, Control, Working
  <2>3. StepTypes' BY DEF StepTypes, Steps
  <2>4. FlagTypes' BY DEF FlagTypes
  <2> QED BY <2>1, <2>2, <2>3, <2>4
<1>8. CASE Plan
  <2> USE <1>8 DEF Plan, Goto
  <2>1. HistoryTypes' BY DEF HistoryTypes
  <2>2. FileTypes' BY DEF FileTypes, Closing
  <2>3. StepTypes' BY DEF StepTypes, Steps
  <2>4. FlagTypes' BY DEF FlagTypes
  <2> QED BY <2>1, <2>2, <2>3, <2>4
<1>9. CASE Preflight
  <2> USE <1>9 DEF Preflight, Goto
  <2>1. HistoryTypes' BY DEF HistoryTypes
  <2>2. FileTypes' BY DEF FileTypes, Closing
  <2>3. StepTypes'
    <3>1. /\ pc' \in {"finalize", "hardware"} /\ outcome' \in {"final", outcome}
          /\ UNCHANGED <<root, exit, crashes, corruptions>>
      OBVIOUS
    <3>2. pc' \in Steps /\ outcome' \in AllOutcomes \cup {"none"}
      BY <3>1 DEF StepTypes, Steps, AllOutcomes
    <3> QED BY <3>1, <3>2 DEF StepTypes
  <2>4. FlagTypes' BY DEF FlagTypes
  <2> QED BY <2>1, <2>2, <2>3, <2>4
<1>10. CASE Hardware
  <2> USE <1>10 DEF Hardware, Goto
  <2>1. HistoryTypes' BY DEF HistoryTypes
  <2>2. FileTypes'
    BY NamedAttempts DEF FileTypes, Closing, Control, Working
  <2>3. StepTypes'
    <3>1. /\ pc' = "finalize" /\ outcome' \in AllOutcomes
          /\ UNCHANGED <<root, exit, crashes, corruptions>>
      OBVIOUS
    <3> QED BY <3>1 DEF StepTypes, Steps
  <2>4. FlagTypes' BY DEF FlagTypes
  <2> QED BY <2>1, <2>2, <2>3, <2>4
<1>11. CASE Validate
  <2> USE <1>11 DEF Validate, Raise, Goto
  <2>1. HistoryTypes' BY DEF HistoryTypes
  <2>2. FileTypes' BY DEF FileTypes, Closing
  <2>3. StepTypes' BY DEF StepTypes, Steps
  <2>4. FlagTypes' BY DEF FlagTypes
  <2> QED BY <2>1, <2>2, <2>3, <2>4
<1>12. CASE Report
  <2> USE <1>12 DEF Report, Goto
  <2>1. HistoryTypes' BY DEF HistoryTypes
  <2>2. FileTypes' BY DEF FileTypes, Closing
  <2>3. StepTypes' BY DEF StepTypes, Steps
  <2>4. FlagTypes' BY DEF FlagTypes
  <2> QED BY <2>1, <2>2, <2>3, <2>4
<1>13. CASE Manifest
  <2> USE <1>13 DEF Manifest, Raise, Goto
  <2>1. HistoryTypes' BY DEF HistoryTypes
  <2>2. FileTypes' BY DEF FileTypes, Closing
  <2>3. StepTypes' BY DEF StepTypes, Steps
  <2>4. FlagTypes' BY DEF FlagTypes
  <2> QED BY <2>1, <2>2, <2>3, <2>4
<1>14. CASE ManifestValidation
  <2> USE <1>14 DEF ManifestValidation
  <2>1. HistoryTypes' BY DEF HistoryTypes
  <2>2. FileTypes' BY DEF FileTypes, Closing
  <2>3. StepTypes' BY DEF StepTypes, Steps
  <2>4. FlagTypes' BY DEF FlagTypes
  <2> QED BY <2>1, <2>2, <2>3, <2>4
<1>15. CASE Crash
  <2> USE <1>15 DEF Crash
  <2>1. HistoryTypes' BY DEF HistoryTypes
  <2>2. FileTypes' BY DEF FileTypes, Closing
  <2>3. StepTypes' BY DEF StepTypes, Steps
  <2>4. FlagTypes' BY DEF FlagTypes
  <2> QED BY <2>1, <2>2, <2>3, <2>4
<1>16. CASE HardwareFreed
  <2> USE <1>16 DEF HardwareFreed
  <2>1. HistoryTypes' BY DEF HistoryTypes
  <2>2. FileTypes' BY DEF FileTypes, Closing
  <2>3. StepTypes' BY DEF StepTypes, Steps
  <2>4. FlagTypes' BY DEF FlagTypes
  <2> QED BY <2>1, <2>2, <2>3, <2>4
<1>17. CASE Corrupt
  <2> USE <1>17 DEF Corrupt
  <2>1. HistoryTypes' BY DEF HistoryTypes
  <2>2. FileTypes' BY DEF FileTypes, Closing
  <2>3. StepTypes' BY DEF StepTypes, Steps
  <2>4. FlagTypes' BY DEF FlagTypes
  <2> QED BY <2>1, <2>2, <2>3, <2>4
<1>18. CASE TrialFile
  <2> USE <1>18 DEF TrialFile, Goto, Raise
  <2>1. HistoryTypes' BY DEF HistoryTypes
  <2>2. FileTypes'
    <3>1. mem = ckpt /\ AllFinished
      BY DEF Control, Working
    <3>2. mem[Latest].status \in {"succeeded", "failed"}
      BY <3>1, LatestIsLast DEF Kept, AllFinished, Terminal, Control, Record, Status
    <3> QED BY <3>2 DEF FileTypes, Closing
  <2>3. StepTypes' BY DEF StepTypes, Steps
  <2>4. FlagTypes' BY DEF FlagTypes
  <2> QED BY <2>1, <2>2, <2>3, <2>4
<1>19. CASE RecordRunning
  <2> USE <1>19 DEF RecordRunning, Goto, Raise
  <2>1. HistoryTypes'
    <3>1. \A r \in Record : Append(ckpt, r) \in Seq(Record)
      BY DEF HistoryTypes
    <3> QED BY <3>1, RecordBegins DEF HistoryTypes
  <2>2. FileTypes' BY DEF FileTypes, Closing
  <2>3. StepTypes' BY DEF StepTypes, Steps
  <2>4. FlagTypes' BY DEF FlagTypes
  <2> QED BY <2>1, <2>2, <2>3, <2>4
<1>20. CASE Finalize
  <2> USE <1>20 DEF Finalize, Goto
  <2>1. HistoryTypes'
    BY FinalizeReplaces DEF HistoryTypes
  <2>2. FileTypes' BY DEF FileTypes, Closing
  <2>3. StepTypes' BY DEF StepTypes, Steps
  <2>4. FlagTypes' BY DEF FlagTypes
  <2> QED BY <2>1, <2>2, <2>3, <2>4
<1>21. CASE Resume
  <2> USE <1>21 DEF Resume, Goto
  <2>1. HistoryTypes'
    BY ResumeReplaces DEF HistoryTypes
  <2>2. FileTypes' BY DEF FileTypes, Closing
  <2>3. StepTypes' BY DEF StepTypes, Steps
  <2>4. FlagTypes' BY DEF FlagTypes
  <2> QED BY <2>1, <2>2, <2>3, <2>4
<1>22. CASE UNCHANGED vars
  BY <1>22 DEF vars, HistoryTypes, FileTypes, StepTypes, FlagTypes
<1> QED BY <1>1, <1>2, <1>3, <1>4, <1>5, <1>6, <1>7, <1>8, <1>9, <1>10, <1>11, <1>12, <1>13, <1>14, <1>15, <1>16, <1>17, <1>18, <1>19, <1>20, <1>21, <1>22 DEF Next, Operator, Runner

-----------------------------------------------------------------------------
(* What the runner relies on                                               *)

Closes == {"validate", "report", "manifest", "manifestValidation"}

\* Steps that touch neither the history nor what the runner remembers of it.
LEMMA ControlUnmoved ==
    ASSUME Control, UNCHANGED <<root, ckpt, mem, succ, cur>>,
           \/ pc' \in {pc, "down"}
           \/ pc = "mkdir" /\ pc' = "plan"
           \/ pc = "plan" /\ pc' = "record"
           \/ pc \in Working /\ pc' \in Working
           \/ pc \in Closes \cup {"next"} /\ pc' \in Closes
    PROVE  Control'
<1>1. /\ AllFinished' <=> AllFinished
      /\ Admitted(cur)' <=> Admitted(cur)
      /\ Succeeded(ckpt)' = Succeeded(ckpt)
  BY DEF AllFinished, Admitted, Succeeded
<1> QED BY <1>1 DEF Control, Working, Closes

\* A new attempt has not succeeded.
LEMMA AppendedSuccesses ==
    ASSUME NEW h \in Seq(Record), NEW r \in Record, r.status # "succeeded"
    PROVE  Succeeded(Append(h, r)) = Succeeded(h)
BY DEF Succeeded

\* Finishing the last record leaves the other successes alone.
LEMMA ReplacedSuccesses ==
    ASSUME NEW h \in Seq(Record), h # << >>, NEW s \in Record,
           h[Len(h)].status # "succeeded", SameAttempt(h[Len(h)], s)
    PROVE  LET g == [h EXCEPT ![Len(h)] = s]
           IN  /\ Succeeded(h) \subseteq Succeeded(g)
               /\ Succeeded(g) \subseteq Succeeded(h) \cup {s.trial}
<1> DEFINE g == [h EXCEPT ![Len(h)] = s]
<1>1. DOMAIN g = DOMAIN h /\ Len(h) \in DOMAIN h
  OBVIOUS
<1>2. g[Len(h)] = s /\ \A i \in DOMAIN h : i # Len(h) => g[i] = h[i]
  BY <1>1
<1>3. Succeeded(h) \subseteq Succeeded(g)
  BY <1>1, <1>2 DEF Succeeded
<1>4. Succeeded(g) \subseteq Succeeded(h) \cup {s.trial}
  BY <1>1, <1>2 DEF Succeeded
<1> QED BY <1>3, <1>4

\* A trial that passes the checks of the loop is admitted.
LEMMA NextAdmits ==
    ASSUME Inv, pc = "next", NEW t \in Trials, First(t), MayAttempt(t)
    PROVE  Admitted(t)
<1>1. mem = ckpt /\ AllFinished /\ succ = Succeeded(ckpt)
  BY DEF Inv, Control, Working
<1>2. ASSUME NEW i \in Of(ckpt, t)
      PROVE  ckpt[i].number = 1 /\ ckpt[i].class = "retryable"
  <2>1. i \in DOMAIN ckpt /\ ckpt[i].trial = t /\ ckpt[i] \in Record
    BY DEF Of, Inv, Kept
  <2>2. ckpt[i].status # "succeeded"
    BY <1>1, <2>1 DEF First, Remaining, Succeeded
  <2>3. ckpt[i].status = "failed"
    BY <1>1, <2>1, <2>2 DEF AllFinished, Terminal, Inv, Control, Record, Status
  <2> QED BY <1>1, <2>3 DEF MayAttempt, Retriable
<1>3. Formal(t) => Pilots \subseteq Succeeded(ckpt)
  BY <1>1 DEF MayAttempt, Unlocked
<1> QED BY <1>2, <1>3 DEF Admitted

\* So is the trial whose first attempt has just failed for a retryable reason.
LEMMA RetryAdmits ==
    ASSUME Inv, pc = "trialFile", ckpt[Len(ckpt)].class = "retryable",
           ckpt[Len(ckpt)].number = 1
    PROVE  Admitted(cur)
<1> DEFINE n == Len(ckpt)
<1>1. n \in DOMAIN ckpt /\ ckpt[n].trial = cur /\ DOMAIN ckpt = 1 .. n /\ n \in Nat
  BY DEF Inv, Control, Kept
<1>2. ASSUME NEW i \in Of(ckpt, cur) PROVE i = n
  <2>1. i \in 1 .. n /\ ckpt[i].trial = cur /\ ckpt[i].number \in {1, 2}
    BY <1>1 DEF Of, Inv, Kept, Record
  <2>2. i < n => ckpt[i].number < ckpt[n].number
    BY <1>1, <2>1 DEF Inv, Kept, SoundHistory
  <2>3. ckpt[n].number = 1
    OBVIOUS
  <2>4. ~(i < n)
    BY <2>1, <2>2, <2>3
  <2>5. \A m \in Nat : \A k \in 1 .. m : k < m \/ k = m
    OBVIOUS
  <2> QED BY <1>1, <2>1, <2>4, <2>5
<1>3. Formal(cur) => Pilots \subseteq Succeeded(ckpt)
  <2> SUFFICES ASSUME Formal(cur), NEW p \in Pilots PROVE p \in Succeeded(ckpt)
    OBVIOUS
  <2>1. PICK j \in 1 .. n - 1 : ckpt[j].trial = p /\ ckpt[j].status = "succeeded"
    BY <1>1 DEF Inv, Kept, FormalsAfterPilots
  <2> QED BY <1>1, <2>1 DEF Succeeded
<1> QED BY <1>2, <1>3 DEF Admitted

\* A log that is recorded as begun or finished gives the runner what it needs.
LEMMA ControlStays == Inv /\ [Next]_vars => Control'
<1> SUFFICES ASSUME Inv, [Next]_vars PROVE Control'
  OBVIOUS
<1> USE DEF Inv
<1>1. CASE New
  BY <1>1 DEF New, Goto, local, Control, Working, AllFinished
<1>2. CASE Initialize
  BY <1>2 DEF Initialize, Goto, Control, Working, AllFinished, Succeeded
<1>3. CASE ResumeRaises \/ NextRaises \/ Crash
  BY <1>3, ControlUnmoved
     DEF ResumeRaises, NextRaises, Raise, Crash, disk, local
<1>4. CASE HardwareFreed \/ Corrupt
  BY <1>4, ControlUnmoved DEF HardwareFreed, Corrupt, disk, local
<1>5. CASE NextEnds
  BY <1>5, ControlUnmoved DEF NextEnds, Goto, disk, local, Closes
<1>6. CASE Mkdir
  BY <1>6, ControlUnmoved DEF Mkdir, Goto, Raise, local
<1>7. CASE Plan
  BY <1>7, ControlUnmoved DEF Plan, Goto, local
<1>8. CASE Preflight
  BY <1>8, ControlUnmoved DEF Preflight, Goto, disk, Working
<1>9. CASE Hardware
  BY <1>9, ControlUnmoved DEF Hardware, Goto, Working
<1>10. CASE Validate \/ Report \/ Manifest \/ ManifestValidation
  BY <1>10, ControlUnmoved
     DEF Validate, Report, Manifest, ManifestValidation, Goto, Raise, local, Closes
<1>11. CASE NextTrial
  <2>1. PICK t \in Trials : First(t) /\ MayAttempt(t) /\ cur' = t
    BY <1>11 DEF NextTrial
  <2>2. pc = "next" /\ pc' = "mkdir" /\ UNCHANGED <<root, ckpt, mem, succ>>
    BY <1>11 DEF NextTrial, Goto, disk
  <2>3. Admitted(cur)'
    BY <2>1, <2>2, NextAdmits DEF Admitted, Succeeded
  <2>4. AllFinished' <=> AllFinished
    BY <2>2 DEF AllFinished
  <2>5. Succeeded(ckpt)' = Succeeded(ckpt)
    BY <2>2 DEF Succeeded
  <2> QED BY <2>2, <2>3, <2>4, <2>5 DEF Control, Working
<1>12. CASE RecordRunning
  <2>1. CASE UNCHANGED <<ckpt, mem>> /\ pc' = "down"
    BY <1>12, <2>1, ControlUnmoved DEF RecordRunning
  <2>2. ASSUME Attempt(cur) \in Record, ckpt' = Append(ckpt, Attempt(cur)),
               mem' = ckpt', pc' = "preflight"
        PROVE  Control'
    <3> DEFINE r == Attempt(cur)
    <3>1. r.trial = cur /\ r.status = "running"
      BY DEF Attempt
    <3>2. pc = "record" /\ UNCHANGED <<root, succ, cur>>
      BY <1>12 DEF RecordRunning
    <3>3. /\ Len(ckpt') = Len(ckpt) + 1 /\ DOMAIN ckpt' = 1 .. Len(ckpt) + 1
          /\ ckpt'[Len(ckpt')] = r
          /\ \A i \in DOMAIN ckpt : ckpt'[i] = ckpt[i]
      BY <2>2 DEF Kept
    <3>4. \A i \in DOMAIN ckpt' : ckpt'[i].status # "partial"
      BY <3>1, <3>3 DEF Control, Kept
    <3>5. Succeeded(ckpt') = Succeeded(ckpt)
      BY <2>2, <3>1, AppendedSuccesses DEF Kept
    <3>6. ckpt' # << >> /\ ckpt'[Len(ckpt')].trial = cur' /\ ~Terminal(ckpt'[Len(ckpt')])
      BY <3>1, <3>2, <3>3 DEF Terminal, Kept
    <3> QED BY <2>2, <3>2, <3>4, <3>5, <3>6 DEF Control, Working
  <2> QED BY <1>12, <2>1, <2>2, RecordBegins
<1>13. CASE Finalize
  <2> DEFINE n == Len(ckpt)
  <2> DEFINE s == Final(ckpt[n])
  <2>1. /\ ckpt[n] \in Record /\ ckpt' = [ckpt EXCEPT ![n] = s] /\ mem' = ckpt'
    BY <1>13, FinalizeReplaces
  <2>2. /\ pc = "finalize" /\ pc' = "trialFile" /\ UNCHANGED <<root, succ, cur>>
    BY <1>13 DEF Finalize, Goto
  <2>3. /\ s \in Record /\ Terminal(s) /\ SameAttempt(ckpt[n], s) /\ s.status # "partial"
    BY <2>1, FinishedRecords
  <2>4. /\ n \in DOMAIN ckpt /\ ckpt # << >> /\ ckpt[n].trial = cur
        /\ ~Terminal(ckpt[n]) /\ root = "ready"
    BY <2>2 DEF Control, Working, Kept
  <2>5. /\ DOMAIN ckpt' = DOMAIN ckpt /\ Len(ckpt') = n /\ ckpt'[n] = s
        /\ \A i \in DOMAIN ckpt : i # n => ckpt'[i] = ckpt[i]
    BY <2>1, <2>4 DEF Kept
  <2>6. \A i \in DOMAIN ckpt' : Terminal(ckpt'[i]) /\ ckpt'[i].status # "partial"
    BY <2>3, <2>5 DEF Kept, OnlyLastRuns, Control
  <2>7. /\ Succeeded(ckpt) \subseteq Succeeded(ckpt')
        /\ Succeeded(ckpt') \subseteq Succeeded(ckpt) \cup {cur}
    <3>1. s.trial = cur /\ ckpt[n].status # "succeeded"
      BY <2>3, <2>4 DEF SameAttempt, Terminal
    <3> QED BY <2>1, <2>3, <2>4, <3>1, ReplacedSuccesses DEF Kept
  <2>8. ckpt' # << >> /\ ckpt'[Len(ckpt')].trial = cur'
    <3>1. ckpt'[Len(ckpt')].trial = cur'
      BY <2>2, <2>3, <2>4, <2>5 DEF SameAttempt
    <3>2. DOMAIN ckpt' # {}
      BY <2>4, <2>5
    <3> QED BY <3>1, <3>2
  <2> QED BY <2>1, <2>2, <2>4, <2>6, <2>7, <2>8 DEF Control, Working, AllFinished
<1>14. CASE TrialFile
  <2> DEFINE n == Len(ckpt)
  <2>1. pc = "trialFile" /\ mem = ckpt /\ UNCHANGED <<root, ckpt, mem, cur>>
    BY <1>14 DEF TrialFile, Control, Working
  <2>2. Latest = n /\ n \in DOMAIN ckpt /\ ckpt[n].trial = cur
    BY <2>1, LatestIsLast DEF Control
  <2>3. succ' = IF ckpt[n].status = "succeeded" THEN succ \cup {cur} ELSE succ
    BY <1>14, <2>1, <2>2 DEF TrialFile
  <2>4. succ' \subseteq Succeeded(ckpt) /\ Succeeded(ckpt) \subseteq succ' \cup {cur}
    BY <2>1, <2>2, <2>3 DEF Control, Succeeded
  <2>5. /\ AllFinished' <=> AllFinished
        /\ Admitted(cur)' <=> Admitted(cur)
        /\ Succeeded(ckpt)' = Succeeded(ckpt)
    BY <2>1 DEF AllFinished, Admitted, Succeeded
  <2>6. CASE pc' = "down"
    BY <2>1, <2>6 DEF Control, Working
  <2>7. CASE pc' = "next" /\ ckpt[n].status = "succeeded"
    <3>1. Succeeded(ckpt) \subseteq succ'
      BY <2>1, <2>3, <2>7 DEF Control
    <3> QED BY <2>1, <2>4, <2>5, <2>7, <3>1 DEF Control, Working
  <2>8. CASE pc' = "mkdir" /\ ckpt[n].class = "retryable" /\ ckpt[n].number = 1
    <3>1. Admitted(cur)
      BY <2>1, <2>8, RetryAdmits
    <3> QED BY <2>1, <2>4, <2>5, <2>8, <3>1 DEF Control, Working
  <2> QED BY <1>14, <2>1, <2>2, <2>6, <2>7, <2>8 DEF TrialFile, Goto, Raise
<1>15. CASE Resume
  <2>1. pc' = "next" /\ root = "ready" /\ UNCHANGED <<root, cur>>
    BY <1>15 DEF Resume, Goto
  <2> QED BY <1>15, <2>1, ResumeReplaces DEF Control, Working, AllFinished
<1>16. CASE UNCHANGED vars
  BY <1>16, ControlUnmoved DEF vars, disk, local
<1> QED
  BY <1>1, <1>2, <1>3, <1>4, <1>5, <1>6, <1>7, <1>8, <1>9, <1>10, <1>11, <1>12,
     <1>13, <1>14, <1>15, <1>16 DEF Next, Operator, Runner

-----------------------------------------------------------------------------
(* The invariant and what follows from it                                  *)

LEMMA InitInv == Init => Inv
<1> SUFFICES ASSUME Init PROVE Inv
  OBVIOUS
<1> USE CheckpointAssumption, ExperimentAssumption DEF Init
<1>1. TypeOK
  <2>1. HistoryTypes BY DEF HistoryTypes, Trials
  <2>2. FileTypes BY DEF FileTypes, Closing
  <2>3. StepTypes BY DEF StepTypes
  <2>4. FlagTypes BY DEF FlagTypes
  <2> QED BY <2>1, <2>2, <2>3, <2>4 DEF TypeOK
<1>2. Kept
  BY DEF Kept, SoundHistory, OnlyLastRuns, RetriesAreRetryable, FormalsAfterPilots
<1>3. Control
  BY DEF Control, Working
<1> QED BY <1>1, <1>2, <1>3 DEF Inv

LEMMA InvHolds == Spec => []Inv
<1>1. Inv /\ [Next]_vars => Inv'
  BY StepsOfLog, StepsKeep, TypesStay, ControlStays DEF Inv
<1> QED BY InitInv, <1>1, PTL DEF Spec

\* The variables keep their types.
THEOREM TypeCorrect == Spec => []TypeOK
<1>1. Inv => TypeOK
  BY DEF Inv
<1> QED BY <1>1, InvHolds, PTL

\* checkpoint.json is the log that AttemptHistory specifies: whatever crashes
\* and resumes come between, an attempt is begun once and finished once.
THEOREM KeepsHistory == Spec => HistoryIsKept
<1>1. Init => History!Init
  BY DEF Init, History!Init
<1>2. Inv /\ [Next]_vars => [History!Next]_ckpt
  BY StepsOfLog
<1>3. Spec => History!Spec
  BY <1>1, <1>2, InvHolds, PTL DEF Spec, History!Spec
<1> QED BY <1>3 DEF HistoryIsKept

\* The history on disk always satisfies what loading it demands.
THEOREM StaysSound == Spec => []HistoryStaysSound
<1>1. Inv => HistoryStaysSound
  BY DEF Inv, Kept, HistoryStaysSound
<1> QED BY <1>1, InvHolds, PTL

\* No formal trial is attempted before every pilot has succeeded.
THEOREM PilotsFirst == Spec => []FormalsAfterPilots
<1>1. Inv => FormalsAfterPilots
  BY DEF Inv, Kept
<1> QED BY <1>1, InvHolds, PTL

\* A trial is attempted again only after a retryable failure.
THEOREM OnlyRetryables == Spec => []RetriesAreRetryable
<1>1. Inv => RetriesAreRetryable
  BY DEF Inv, Kept
<1> QED BY <1>1, InvHolds, PTL

\* Attempts on the hardware never overlap.
THEOREM NoOverlap == Spec => []OneAttemptAtATime
<1>1. Inv => OneAttemptAtATime
  BY DEF Inv, Kept, OnlyLastRuns, Control, Working, AllFinished, OneAttemptAtATime,
         TypeOK, StepTypes, Steps
<1> QED BY <1>1, InvHolds, PTL

\* No update of the checkpoint rewrites or removes a finished record.
THEOREM Grows == Spec => HistoryGrows
<1>1. ASSUME Kept, History!Begin PROVE MayReplace(ckpt, ckpt')
  <2>1. PICK r : ckpt' = Append(ckpt, r)
    BY <1>1 DEF History!Begin
  <2> QED BY <1>1, <2>1 DEF Kept, MayReplace, MayBecome, SameAttempt
<1>2. ASSUME Kept, History!End PROVE MayReplace(ckpt, ckpt')
  <2> DEFINE n == Len(ckpt)
  <2>1. PICK s : /\ Terminal(s) /\ SameAttempt(ckpt[n], s)
                 /\ ckpt' = [ckpt EXCEPT ![n] = s]
    BY <1>2 DEF History!End, History!Terminal, History!SameAttempt, Terminal, SameAttempt
  <2>2. ckpt # << >> /\ ~Terminal(ckpt[n])
    BY <1>2 DEF History!End, History!Terminal, Terminal
  <2>3. /\ Len(ckpt') = n /\ DOMAIN ckpt = 1 .. n /\ n \in DOMAIN ckpt
        /\ ckpt'[n] = s /\ \A i \in DOMAIN ckpt : i # n => ckpt'[i] = ckpt[i]
    BY <1>2, <2>1, <2>2 DEF Kept
  <2>4. MayBecome(ckpt[n], s)
    BY <2>1, <2>2 DEF MayBecome, Terminal
  <2>5. \A i \in DOMAIN ckpt : MayBecome(ckpt[i], ckpt'[i])
    BY <2>3, <2>4 DEF MayBecome, SameAttempt
  <2> QED BY <2>3, <2>5 DEF MayReplace
<1>3. Kept /\ UNCHANGED ckpt => MayReplace(ckpt, ckpt')
  BY DEF Kept, MayReplace, MayBecome, SameAttempt
<1>4. Inv /\ [Next]_vars => [MayReplace(ckpt, ckpt')]_vars
  BY <1>1, <1>2, <1>3, StepsOfLog DEF Inv, History!Next
<1> QED BY <1>4, InvHolds, PTL DEF Spec, HistoryGrows

-----------------------------------------------------------------------------
(* The directories. A runner makes the directory of an attempt before it   *)
(* records the attempt: one that dies or is refused in between leaves a    *)
(* directory without a record. That another one never joins it rests on    *)
(* which attempt is made next: always that of the first trial without a    *)
(* success, whose number the record has not used up, so that the next      *)
(* runner asks for this very directory.                                    *)

Recorded == {IdOf(ckpt[i]) : i \in DOMAIN ckpt}
Stray == dirs \ Recorded

\* The trial that is attempted next, and the name of that attempt.
Foremost(t) ==
    /\ t \in Trials \ Succeeded(ckpt)
    /\ \A u \in Trials \ Succeeded(ckpt) : t <= u
Upcoming(t) == <<t, NextNumber(ckpt, t)>>

Directories ==
    /\ Recorded \subseteq dirs
    /\ \A x \in Stray : AllFinished /\ \E t \in Trials : Foremost(t) /\ x = Upcoming(t)
    /\ pc \in {"mkdir", "plan", "record", "trialFile"} \cup Working =>
           \A u \in Trials \ Succeeded(ckpt) : cur <= u
    /\ pc \in {"plan", "record"} => Upcoming(cur) \in dirs

\* The trial about to be attempted is the foremost one.
LEMMA AdmittedIsForemost ==
    ASSUME Inv, Directories, pc \in {"mkdir", "plan", "record"}
    PROVE  /\ mem = ckpt /\ AllFinished /\ Admitted(cur)
           /\ Foremost(cur) /\ IdOf(Attempt(cur)) = Upcoming(cur)
<1>1. mem = ckpt /\ AllFinished /\ Admitted(cur)
  BY DEF Inv, Control, Working
<1>2. cur \notin Succeeded(ckpt)
  BY <1>1 DEF Admitted, Of, Succeeded, Inv, Kept, Record
<1>3. Foremost(cur)
  BY <1>2 DEF Foremost, Directories, Inv, TypeOK, HistoryTypes
<1>4. IdOf(Attempt(cur)) = Upcoming(cur)
  BY <1>1 DEF IdOf, Attempt, Upcoming
<1> QED BY <1>1, <1>3, <1>4

\* The next runner asks for the directory that was left over, so there is one.
LEMMA OneStray ==
    ASSUME Directories, NEW x \in Stray, NEW y \in Stray PROVE x = y
<1>1. PICK t \in Trials : Foremost(t) /\ x = Upcoming(t)
  BY DEF Directories
<1>2. PICK u \in Trials : Foremost(u) /\ y = Upcoming(u)
  BY DEF Directories
<1>3. t = u
  BY <1>1, <1>2, CheckpointAssumption DEF Foremost, Trials
<1> QED BY <1>1, <1>2, <1>3

\* Steps that leave history and directories alone.
LEMMA DirectoriesUnmoved ==
    ASSUME Directories, UNCHANGED <<ckpt, dirs, cur>>,
           \/ pc' \in {pc, "down", "init", "next"} \cup Closes
           \/ pc = "plan" /\ pc' = "record"
           \/ pc \in Working /\ pc' \in Working
           \/ pc = "trialFile" /\ pc' = "mkdir"
    PROVE  Directories'
<1>1. /\ Recorded' = Recorded /\ Stray' = Stray /\ Succeeded(ckpt)' = Succeeded(ckpt)
      /\ AllFinished' <=> AllFinished
      /\ \A t : Upcoming(t)' = Upcoming(t)
      /\ \A t : Foremost(t)' <=> Foremost(t)
  BY DEF Recorded, Stray, Succeeded, AllFinished, Upcoming, NextNumber, Of, Foremost
<1>2. \A t : Upcoming(t)' = Upcoming(t)
  BY DEF Upcoming, NextNumber, Of
<1>3. Upcoming(cur)' = Upcoming(cur)
  BY DEF Upcoming, NextNumber, Of
<1> QED BY <1>1, <1>2, <1>3 DEF Directories, Working, Closes

LEMMA DirectoriesStay == Inv /\ Directories /\ [Next]_vars => Directories'
<1> SUFFICES ASSUME Inv, Directories, [Next]_vars PROVE Directories'
  OBVIOUS
<1>1. CASE New \/ ResumeRaises \/ NextRaises \/ NextEnds
  BY <1>1, DirectoriesUnmoved
     DEF New, ResumeRaises, NextRaises, NextEnds, Goto, Raise, disk, local, Closes
<1>2. CASE Initialize \/ Plan
  BY <1>2, DirectoriesUnmoved DEF Initialize, Plan, Goto, local
<1>3. CASE Preflight \/ Hardware
  BY <1>3, DirectoriesUnmoved DEF Preflight, Hardware, Goto, disk, Working
<1>4. CASE TrialFile
  BY <1>4, DirectoriesUnmoved DEF TrialFile, Goto, Raise
<1>5. CASE Validate \/ Report \/ Manifest \/ ManifestValidation
  BY <1>5, DirectoriesUnmoved
     DEF Validate, Report, Manifest, ManifestValidation, Goto, Raise, local, Closes
<1>6. CASE Crash \/ HardwareFreed \/ Corrupt \/ UNCHANGED vars
  BY <1>6, DirectoriesUnmoved DEF Crash, HardwareFreed, Corrupt, vars, disk, local
<1>7. CASE NextTrial
  <2>1. PICK t \in Trials : First(t) /\ cur' = t
    BY <1>7 DEF NextTrial
  <2>2. pc = "next" /\ pc' = "mkdir" /\ UNCHANGED <<ckpt, dirs>>
    BY <1>7 DEF NextTrial, Goto, disk
  <2>3. succ = Succeeded(ckpt)
    BY <2>2 DEF Inv, Control
  <2>4. \A u \in Trials \ Succeeded(ckpt) : cur' <= u
    BY <2>1, <2>3 DEF First, Remaining
  <2>5. Recorded' = Recorded /\ Stray' = Stray /\ Succeeded(ckpt)' = Succeeded(ckpt)
    BY <2>2 DEF Recorded, Stray, Succeeded
  <2>6. \A x \in Stray' : AllFinished' /\ \E u \in Trials : Foremost(u)' /\ x = Upcoming(u)'
    BY <2>2, <2>5 DEF Directories, AllFinished, Foremost, Upcoming, NextNumber, Of
  <2> QED BY <2>2, <2>4, <2>5, <2>6 DEF Directories
<1>8. CASE Mkdir
  <2>1. /\ pc = "mkdir" /\ mem = ckpt /\ AllFinished /\ Foremost(cur)
        /\ IdOf(Attempt(cur)) = Upcoming(cur)
    BY <1>8, AdmittedIsForemost DEF Mkdir
  <2>2. UNCHANGED <<ckpt, cur>>
    BY <1>8 DEF Mkdir, local
  <2>3. CASE Upcoming(cur) \in dirs
    BY <1>8, <2>1, <2>2, <2>3, DirectoriesUnmoved DEF Mkdir, Raise
  <2>4. CASE Upcoming(cur) \notin dirs
    <3>1. dirs' = dirs \cup {Upcoming(cur)} /\ pc' = "plan"
      BY <1>8, <2>1, <2>4 DEF Mkdir, Goto
    <3>2. Recorded' = Recorded /\ Succeeded(ckpt)' = Succeeded(ckpt)
          /\ Upcoming(cur)' = Upcoming(cur)
      BY <2>2 DEF Recorded, Succeeded, Upcoming, NextNumber, Of
    <3>3. Stray' \subseteq Stray \cup {Upcoming(cur)}
      BY <3>1, <3>2 DEF Stray
    <3>4. \A x \in Stray' : AllFinished /\ \E t \in Trials : Foremost(t) /\ x = Upcoming(t)
      BY <2>1, <3>3 DEF Directories, Foremost
    <3>5. \A x \in Stray' : AllFinished' /\ \E t \in Trials : Foremost(t)' /\ x = Upcoming(t)'
      BY <2>2, <3>2, <3>4 DEF AllFinished, Foremost, Upcoming, NextNumber, Of
    <3>6. \A u \in Trials \ Succeeded(ckpt)' : cur' <= u
      BY <2>1, <2>2, <3>2 DEF Foremost
    <3> QED BY <3>1, <3>2, <3>5, <3>6 DEF Directories
  <2> QED BY <2>3, <2>4
<1>9. CASE RecordRunning
  <2>1. CASE UNCHANGED ckpt /\ pc' = "down"
    BY <1>9, <2>1, DirectoriesUnmoved DEF RecordRunning
  <2>2. ASSUME Attempt(cur) \in Record, ckpt' = Append(ckpt, Attempt(cur)),
               pc' = "preflight"
        PROVE  Directories'
    <3> DEFINE r == Attempt(cur)
    <3>1. /\ pc = "record" /\ AllFinished /\ Foremost(cur) /\ IdOf(r) = Upcoming(cur)
          /\ UNCHANGED <<dirs, cur>> /\ r.status = "running"
      BY <1>9, AdmittedIsForemost DEF RecordRunning, Attempt
    <3>2. /\ DOMAIN ckpt' = DOMAIN ckpt \cup {Len(ckpt) + 1}
          /\ ckpt'[Len(ckpt) + 1] = r /\ \A i \in DOMAIN ckpt : ckpt'[i] = ckpt[i]
      BY <2>2 DEF Inv, Kept
    <3>3. Recorded' = Recorded \cup {Upcoming(cur)}
      BY <3>1, <3>2 DEF Recorded
    <3>4. Upcoming(cur) \in dirs
      BY <3>1 DEF Directories
    <3>5. Stray' = {}
      <4> SUFFICES ASSUME NEW x \in Stray, x # Upcoming(cur) PROVE FALSE
        BY <3>1, <3>3 DEF Stray
      <4>1. PICK t \in Trials : Foremost(t) /\ x = Upcoming(t)
        BY DEF Directories
      <4>2. t = cur
        BY <3>1, <4>1, CheckpointAssumption DEF Foremost, Trials
      <4> QED BY <4>1, <4>2
    <3>6. Succeeded(ckpt') = Succeeded(ckpt)
      BY <2>2, <3>1, AppendedSuccesses DEF Inv, Kept
    <3>7. Recorded' \subseteq dirs'
      BY <3>1, <3>3, <3>4 DEF Directories
    <3> QED BY <2>2, <3>1, <3>5, <3>6, <3>7 DEF Directories, Foremost
  <2> QED BY <1>9, <2>1, <2>2, RecordBegins
<1>10. CASE Finalize
  <2> DEFINE n == Len(ckpt)
  <2> DEFINE s == Final(ckpt[n])
  <2>1. ckpt[n] \in Record /\ ckpt' = [ckpt EXCEPT ![n] = s]
    BY <1>10, FinalizeReplaces
  <2>2. pc = "finalize" /\ pc' = "trialFile" /\ UNCHANGED <<dirs, cur>>
    BY <1>10 DEF Finalize, Goto
  <2>3. n \in DOMAIN ckpt /\ ckpt # << >> /\ ~Terminal(ckpt[n])
    BY <2>2 DEF Inv, Control, Working, Kept
  <2>4. s \in Record /\ SameAttempt(ckpt[n], s)
    BY <2>1, FinishedRecords
  <2>5. /\ DOMAIN ckpt' = DOMAIN ckpt /\ ckpt'[n] = s
        /\ \A i \in DOMAIN ckpt : i # n => ckpt'[i] = ckpt[i]
    BY <2>1, <2>3 DEF Inv, Kept
  <2>6. \A i \in DOMAIN ckpt : IdOf(ckpt'[i]) = IdOf(ckpt[i])
    BY <2>4, <2>5 DEF IdOf, SameAttempt
  <2>7. Recorded' = Recorded
    BY <2>5, <2>6 DEF Recorded
  <2>8. Stray = {}
    BY <2>3 DEF Directories, AllFinished
  <2>9. Succeeded(ckpt) \subseteq Succeeded(ckpt')
    BY <2>1, <2>3, <2>4, ReplacedSuccesses DEF Inv, Kept, Terminal
  <2>10. Stray' = {} /\ Recorded' \subseteq dirs'
    BY <2>2, <2>7, <2>8 DEF Stray, Directories
  <2> QED BY <2>2, <2>9, <2>10 DEF Directories, Working
<1>11. CASE Resume
  <2> DEFINE h == [i \in DOMAIN ckpt |-> IF Terminal(ckpt[i]) THEN ckpt[i]
                                         ELSE Interrupted(ckpt[i])]
  <2>1. ckpt' = h /\ pc' = "next" /\ UNCHANGED <<dirs, cur>>
    BY <1>11 DEF Resume, Goto
  <2>2. CASE AllFinished
    <3>1. h = ckpt
      BY <2>2 DEF AllFinished, Inv, Kept
    <3> QED BY <2>1, <3>1, DirectoriesUnmoved
  <2>3. CASE ~AllFinished
    <3>1. Stray = {}
      BY <2>3 DEF Directories
    <3>2. \A i \in DOMAIN ckpt : IdOf(h[i]) = IdOf(ckpt[i])
      BY DEF IdOf, Interrupted, Inv, Kept, Record
    <3>3. Recorded' = Recorded
      BY <2>1, <3>2 DEF Recorded
    <3>4. Stray' = {} /\ Recorded' \subseteq dirs'
      BY <2>1, <3>1, <3>3 DEF Stray, Directories
    <3> QED BY <2>1, <3>4 DEF Directories, Working
  <2> QED BY <2>2, <2>3
<1> QED
  BY <1>1, <1>2, <1>3, <1>4, <1>5, <1>6, <1>7, <1>8, <1>9, <1>10, <1>11
     DEF Next, Operator, Runner

\* Every record has its directory, and at most one directory lacks a record.
THEOREM OneDirectoryEach == Spec => []DirectoriesMatchRecords
<1>1. Init => Directories
  BY DEF Init, Directories, Recorded, Stray, Working
<1>2. Inv /\ Directories => DirectoriesMatchRecords
  <2> SUFFICES ASSUME Inv, Directories PROVE DirectoriesMatchRecords
    OBVIOUS
  <2>1. CASE Stray = {}
    BY <2>1, FS_EmptySet DEF DirectoriesMatchRecords, Directories, Recorded, Stray
  <2>2. CASE Stray # {}
    <3>1. PICK x : Stray = {x}
      BY <2>2, OneStray
    <3>2. Cardinality(Stray) = 1
      BY <3>1, FS_Singleton
    <3> QED BY <3>2 DEF DirectoriesMatchRecords, Directories, Recorded, Stray
  <2> QED BY <2>1, <2>2
<1> QED BY <1>1, <1>2, InvHolds, DirectoriesStay, PTL DEF Spec
=============================================================================
