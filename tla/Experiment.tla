----------------------------- MODULE Experiment -----------------------------
(***************************************************************************)
(* tools/evaluation/experiment.py: the run loop of an evaluation           *)
(* experiment over its checkpoint. One runner at a time executes the       *)
(* scheduled trials, pilots first, each in a directory of its own and with *)
(* at most one retry; it may die between any two steps, and the operator   *)
(* starts it again with --resume.                                          *)
(*                                                                         *)
(* What is on disk survives a crash, and so do the servers of the attempt  *)
(* that was running: they live in sessions of their own.                   *)
(***************************************************************************)
EXTENDS Checkpoint, FiniteSets

CONSTANTS
    NumPilots,      \* the first trials of the schedule are the pilots
    Outcomes,       \* what an attempt on the hardware may come to
    CrashSteps,     \* the steps at which the runner may die
    MaxCrashes,     \* bound on its deaths
    MaxCorruptions  \* bound on damaged artifacts of successful trials

Steps == {"init", "next", "mkdir", "plan", "record", "preflight", "hardware",
          "finalize", "trialFile", "validate", "report", "manifest",
          "manifestValidation"}
AllOutcomes == {"ok", "retryable", "final", "leftover", "interrupt"}

ASSUME ExperimentAssumption ==
    /\ NumPilots \in 1 .. NumTrials
    /\ Outcomes \subseteq AllOutcomes
    /\ CrashSteps \subseteq Steps
    /\ MaxCrashes \in Nat /\ MaxCorruptions \in Nat

VARIABLES
    root,        \* the experiment directory: absent, partial or ready
    ckpt,        \* checkpoint.json: the attempt history
    dirs,        \* the attempt directories
    trialFile,   \* the status in the trial.json of each of them
    valid,       \* attempts whose artifacts pass validate_trial
    files,       \* the closing files of the experiment
    junk,        \* temporary files a crash has left below the root
    listed,      \* the value of junk when artifact_manifest.json was written
    busy,        \* ports or devices are held by servers of an attempt
    pc,          \* step of the runner, or "down"
    mem,         \* its ExperimentCheckpoint
    succ,        \* local `successful`
    gated,       \* local `formal_gate_validated`
    cur,         \* the trial being executed
    outcome,     \* what its attempt came to
    exit,        \* how the last invocation ended
    crashes, corruptions

disk == <<root, ckpt, dirs, trialFile, valid, files, junk, listed>>
local == <<mem, succ, gated, cur, outcome>>
bounds == <<crashes, corruptions>>
vars == <<disk, busy, pc, local, exit, bounds>>

Ids == Trials \X {1, 2}
Closing == {"fresh_validation", "report", "manifest", "manifest_validation"}

HistoryTypes ==
    /\ ckpt \in Seq(Record) /\ mem \in Seq(Record)
    /\ succ \subseteq Trials /\ cur \in Trials

FileTypes ==
    /\ dirs \subseteq Ids /\ valid \subseteq Ids
    /\ trialFile \in [Ids -> {"none", "planned", "succeeded", "failed"}]
    /\ files \subseteq Closing
    /\ junk \in Nat /\ listed \in Nat

StepTypes ==
    /\ root \in {"absent", "partial", "ready"}
    /\ pc \in Steps \cup {"down"}
    /\ outcome \in AllOutcomes \cup {"none"}
    /\ exit \in {"none", "succeeded", "error", "interrupted", "crash"}
    /\ crashes \in 0 .. MaxCrashes /\ corruptions \in 0 .. MaxCorruptions

FlagTypes == busy \in BOOLEAN /\ gated \in BOOLEAN

TypeOK == HistoryTypes /\ FileTypes /\ StepTypes /\ FlagTypes

Init ==
    /\ root = "absent" /\ ckpt = << >> /\ dirs = {}
    /\ trialFile = [a \in Ids |-> "none"]
    /\ valid = {} /\ files = {} /\ junk = 0 /\ listed = 0 /\ busy = FALSE
    /\ pc = "down" /\ mem = << >> /\ succ = {} /\ gated = FALSE /\ cur = 1
    /\ outcome = "none" /\ exit = "none" /\ crashes = 0 /\ corruptions = 0

-----------------------------------------------------------------------------
(* Starting an invocation                                                  *)

Goto(p) == pc' = p
Raise == pc' = "down" /\ exit' = "error"

\* Mutant: the attempt number is taken from the directories that exist.
AttemptFresh(t) == [trial |-> t, number |-> IF <<t, 1>> \in dirs THEN 2 ELSE 1,
                    status |-> "running", class |-> "none"]

Attempt(t) == [trial |-> t, number |-> NextNumber(mem, t), status |-> "running",
               class |-> "none"]
IdOf(r) == <<r.trial, r.number>>

Succeeded(h) == {h[i].trial : i \in {j \in DOMAIN h : h[j].status = "succeeded"}}

\* ExperimentPaths.plan_new refuses an existing root.
New ==
    /\ pc = "down" /\ root = "absent"
    /\ root' = "partial" /\ Goto("init")
    /\ UNCHANGED <<ckpt, dirs, trialFile, valid, files, junk, listed, busy,
                   local, exit, bounds>>

\* _initialize: the snapshots, then the checkpoint of generation zero.
Initialize ==
    /\ pc = "init" /\ root' = "ready" /\ Goto("next")
    /\ mem' = << >> /\ succ' = {} /\ gated' = FALSE
    /\ UNCHANGED <<ckpt, dirs, trialFile, valid, files, junk, listed, busy,
                   cur, outcome, exit, bounds>>

\* A success on disk whose artifacts no longer validate.
Damaged(h) == \E i \in DOMAIN h : h[i].status = "succeeded" /\ IdOf(h[i]) \notin valid

Interrupted(r) == [r EXCEPT !.status = "failed", !.class = "retryable"]

\* _resume: every success is validated afresh, and an attempt left running,
\* which can only be the last one, is finalized as interrupted.
Resume ==
    /\ pc = "down" /\ root = "ready" /\ ~Damaged(ckpt)
    /\ \A i \in DOMAIN ckpt : ~Terminal(ckpt[i]) => i = Len(ckpt)
    /\ LET h == [i \in DOMAIN ckpt |-> IF Terminal(ckpt[i]) THEN ckpt[i]
                                       ELSE Interrupted(ckpt[i])]
       IN  ckpt' = h /\ mem' = h /\ succ' = Succeeded(h)
    /\ gated' = FALSE /\ Goto("next")
    /\ UNCHANGED <<root, dirs, trialFile, valid, files, junk, listed, busy,
                   cur, outcome, exit, bounds>>

ResumeRaises ==
    /\ pc = "down"
    /\ \/ root = "partial"
       \/ root = "ready" /\ \/ Damaged(ckpt)
                            \/ \E i \in DOMAIN ckpt : ~Terminal(ckpt[i])
                                                      /\ i # Len(ckpt)
    /\ exit' = "error"
    /\ UNCHANGED <<disk, busy, pc, local, bounds>>

-----------------------------------------------------------------------------
(* The loop of run_experiment                                              *)

Remaining == Trials \ succ
First(t) == t \in Remaining /\ \A u \in Remaining : t <= u
Pilots == 1 .. NumPilots
Formal(t) == t > NumPilots

\* The checks before an attempt: the pilot gate, the retry policy, the budget.
Unlocked(t) == Formal(t) => Pilots \subseteq succ /\ (gated \/ ~Damaged(mem))
Retriable(t) ==
    \A i \in Of(mem, t) :
        mem[i].status = "failed" => mem[i].class = "retryable" /\ mem[i].number = 1
MayAttempt(t) == Unlocked(t) /\ Retriable(t) /\ Len(mem) < MaxAttempts

NextTrial ==
    /\ pc = "next"
    /\ \E t \in Trials : First(t) /\ MayAttempt(t) /\ cur' = t
    /\ Goto("mkdir")
    /\ gated' = (gated \/ Formal(cur'))
    /\ UNCHANGED <<disk, busy, mem, succ, outcome, exit, bounds>>

NextRaises ==
    /\ pc = "next"
    /\ \E t \in Trials : First(t) /\ ~MayAttempt(t)
    /\ Raise /\ UNCHANGED <<disk, busy, local, bounds>>

NextEnds ==
    /\ pc = "next" /\ Remaining = {} /\ Goto("validate")
    /\ UNCHANGED <<disk, busy, local, exit, bounds>>

\* attempt_root.mkdir(): an existing directory is a FileExistsError.
Mkdir ==
    /\ pc = "mkdir"
    /\ LET id == IdOf(Attempt(cur))
       IN  IF id \in dirs
           THEN Raise /\ UNCHANGED dirs
           ELSE dirs' = dirs \cup {id} /\ Goto("plan") /\ UNCHANGED exit
    /\ UNCHANGED <<root, ckpt, trialFile, valid, files, junk, listed, busy,
                   local, bounds>>

Plan ==
    /\ pc = "plan" /\ Goto("record")
    /\ trialFile' = [trialFile EXCEPT ![IdOf(Attempt(cur))] = "planned"]
    /\ UNCHANGED <<root, ckpt, dirs, valid, files, junk, listed, busy, local,
                   exit, bounds>>

\* Mutant: the attempt is written down only when it is over.
RecordInMemory ==
    /\ pc = "record" /\ Goto("preflight")
    /\ mem' = WithAttempt(mem, Attempt(cur))
    /\ UNCHANGED <<root, ckpt, dirs, trialFile, valid, files, junk, listed, busy,
                   succ, gated, cur, outcome, exit, bounds>>

\* checkpoint.with_attempt(running) and store.update
RecordRunning ==
    /\ pc = "record"
    /\ LET r == Attempt(cur)
       IN  IF MayRecord(mem, r)
           THEN /\ mem' = WithAttempt(mem, r) /\ ckpt' = mem'
                /\ Goto("preflight") /\ UNCHANGED exit
           ELSE Raise /\ UNCHANGED <<mem, ckpt>>
    /\ UNCHANGED <<root, dirs, trialFile, valid, files, junk, listed, busy,
                   succ, gated, cur, outcome, bounds>>

Running == CHOOSE i \in DOMAIN mem : mem[i].trial = cur /\ ~Terminal(mem[i])
RunningId == IdOf(mem[Running])

\* preflight: wait_for_idle, then the servers of the attempt are launched. It
\* gives up after a minute; ENVIRONMENT_NOT_IDLE is not retryable.
Preflight ==
    /\ pc = "preflight"
    /\ IF busy THEN outcome' = "final" /\ Goto("finalize") /\ UNCHANGED busy
               ELSE busy' = TRUE /\ Goto("hardware") /\ UNCHANGED outcome
    /\ UNCHANGED <<disk, mem, succ, gated, cur, exit, bounds>>

\* launch, validate and cleanup of _AttemptLifecycle.execute: a valid attempt
\* whose servers are still there afterwards has failed (CLEANUP_FAILED).
Hardware ==
    /\ pc = "hardware" /\ Goto("finalize")
    /\ outcome' \in Outcomes
    /\ valid' = IF outcome' \in {"ok", "leftover"} THEN valid \cup {RunningId}
                                                   ELSE valid
    /\ busy' \in {b \in BOOLEAN : /\ outcome' \in {"ok", "interrupt"} => ~b
                                  /\ outcome' = "leftover" => b}
    /\ UNCHANGED <<root, ckpt, dirs, trialFile, files, junk, listed, mem, succ,
                   gated, cur, exit, bounds>>

Final(r) ==
    [r EXCEPT !.status = IF outcome = "ok" THEN "succeeded" ELSE "failed",
              !.class = CASE outcome = "ok"    -> "none"
                          [] outcome = "final" -> "final"
                          [] OTHER             -> "retryable"]

Finalize ==
    /\ pc = "finalize" /\ Goto("trialFile")
    /\ MayRecord(mem, Final(mem[Running]))
    /\ mem' = WithAttempt(mem, Final(mem[Running])) /\ ckpt' = mem'
    /\ UNCHANGED <<root, dirs, trialFile, valid, files, junk, listed, busy,
                   succ, gated, cur, outcome, exit, bounds>>

\* The attempt that was just finalized: the latest of the trial.
Latest == CHOOSE i \in Of(mem, cur) : \A j \in Of(mem, cur) : j <= i

\* trial.json, then what run_experiment makes of the attempt: the next trial,
\* one retry - at once, without looking at the budget - or an error.
TrialFile ==
    /\ pc = "trialFile"
    /\ LET r == mem[Latest]
       IN  /\ trialFile' = [trialFile EXCEPT ![IdOf(r)] = r.status]
           /\ succ' = IF r.status = "succeeded" THEN succ \cup {cur} ELSE succ
           /\ \/ outcome = "interrupt" /\ pc' = "down" /\ exit' = "interrupted"
              \/ r.status = "succeeded" /\ Goto("next") /\ UNCHANGED exit
              \/ /\ r.status = "failed" /\ outcome # "interrupt"
                 /\ IF r.class = "retryable" /\ r.number = 1
                    THEN Goto("mkdir") /\ UNCHANGED exit ELSE Raise
    /\ UNCHANGED <<root, ckpt, dirs, valid, files, junk, listed, busy, mem,
                   gated, cur, outcome, bounds>>

-----------------------------------------------------------------------------
(* validate_experiment and generate_report                                 *)

Complete(h) == Succeeded(h) = Trials /\ ~Damaged(h)

Validate ==
    /\ pc = "validate"
    /\ IF Complete(ckpt)
       THEN files' = files \cup {"fresh_validation"} /\ Goto("report")
            /\ UNCHANGED exit
       ELSE Raise /\ UNCHANGED files
    /\ UNCHANGED <<root, ckpt, dirs, trialFile, valid, junk, listed, busy,
                   local, bounds>>

\* A report that exists is compared with the new one, which is the same: it is
\* a function of the checkpoint and of the artifacts of the successes.
Report ==
    /\ pc = "report" /\ Goto("manifest")
    /\ files' = files \cup {"report"}
    /\ UNCHANGED <<root, ckpt, dirs, trialFile, valid, junk, listed, busy,
                   local, exit, bounds>>

\* The manifest lists every file below the root. One that exists must be what
\* would be written now.
Manifest ==
    /\ pc = "manifest"
    /\ \/ /\ "manifest" \notin files
          /\ files' = files \cup {"manifest"} /\ listed' = junk
          /\ Goto("manifestValidation") /\ UNCHANGED exit
       \/ /\ "manifest" \in files /\ UNCHANGED <<files, listed>>
          /\ IF listed = junk THEN Goto("manifestValidation") /\ UNCHANGED exit
                              ELSE Raise
    /\ UNCHANGED <<root, ckpt, dirs, trialFile, valid, junk, busy, local, bounds>>

ManifestValidation ==
    /\ pc = "manifestValidation"
    /\ files' = files \cup {"manifest_validation"}
    /\ pc' = "down" /\ exit' = "succeeded"
    /\ UNCHANGED <<root, ckpt, dirs, trialFile, valid, junk, listed, busy,
                   local, bounds>>

-----------------------------------------------------------------------------
(* What happens to the runner and around it                                *)

\* The steps that write a file through a temporary one next to it.
Writing == {"init", "plan", "record", "finalize", "trialFile", "validate",
            "report", "manifest", "manifestValidation"}

Crash ==
    /\ pc \in CrashSteps /\ crashes < MaxCrashes
    /\ crashes' = crashes + 1
    /\ pc' = "down" /\ exit' = "crash"
    /\ junk' \in IF pc \in Writing THEN {junk, junk + 1} ELSE {junk}
    /\ UNCHANGED <<root, ckpt, dirs, trialFile, valid, files, listed, busy,
                   local, corruptions>>

\* The servers a dead runner has left are gone.
HardwareFreed ==
    /\ pc = "down" /\ busy /\ busy' = FALSE
    /\ UNCHANGED <<disk, pc, local, exit, bounds>>

Corrupt ==
    /\ corruptions < MaxCorruptions
    /\ \E id \in valid : valid' = valid \ {id}
    /\ corruptions' = corruptions + 1
    /\ UNCHANGED <<root, ckpt, dirs, trialFile, files, junk, listed, busy, pc,
                   local, exit, crashes>>

-----------------------------------------------------------------------------

Runner ==
    \/ Initialize \/ NextTrial \/ NextRaises \/ NextEnds
    \/ Mkdir \/ Plan \/ RecordRunning \/ Preflight \/ Hardware
    \/ Finalize \/ TrialFile
    \/ Validate \/ Report \/ Manifest \/ ManifestValidation

Operator == New \/ Resume \/ ResumeRaises

Next == Operator \/ Runner \/ Crash \/ HardwareFreed \/ Corrupt

\* A runner that lives goes on, and the operator resumes until the experiment
\* has succeeded.
Fairness ==
    /\ WF_vars(Runner)
    /\ WF_vars(exit # "succeeded" /\ (New \/ Resume))

Spec == Init /\ [][Next]_vars /\ Fairness

-----------------------------------------------------------------------------
(* Properties                                                              *)

\* The history on disk satisfies what loading it demands, whatever crashes and
\* resumes came between: no resume is ever stopped by its own checkpoint.
HistoryStaysSound == SoundHistory(ckpt)

\* No update of the checkpoint, by a runner or by the resume after it, removes,
\* reorders or rewrites a record that was terminal.
HistoryGrows == [][MayReplace(ckpt, ckpt')]_vars

\* Only the last record is ever unfinished, and its attempt is then being
\* executed or its runner is dead: hardware attempts never overlap.
OneAttemptAtATime ==
    \A i \in DOMAIN ckpt : ~Terminal(ckpt[i]) =>
        /\ i = Len(ckpt)
        /\ pc \in {"preflight", "hardware", "finalize", "down"}

\* No formal trial was ever attempted before every pilot had succeeded.
FormalsAfterPilots ==
    \A i \in DOMAIN ckpt : Formal(ckpt[i].trial) =>
        \A p \in Pilots : \E j \in 1 .. i - 1 :
            ckpt[j].trial = p /\ ckpt[j].status = "succeeded"

\* A trial is attempted again only after a failure that is retryable.
RetriesAreRetryable ==
    \A i, j \in DOMAIN ckpt :
        i < j /\ ckpt[i].trial = ckpt[j].trial => ckpt[i].class = "retryable"

\* Every record has its directory, and at most one directory lacks a record.
DirectoriesMatchRecords ==
    LET recorded == {IdOf(ckpt[i]) : i \in DOMAIN ckpt}
    IN  recorded \subseteq dirs /\ Cardinality(dirs \ recorded) <= 1

\* What AttemptHistory promises holds of checkpoint.json, across crashes and
\* resumes.
History == INSTANCE AttemptHistory WITH history <- ckpt
HistoryIsKept == History!Spec
=============================================================================
