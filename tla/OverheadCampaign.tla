--------------------------- MODULE OverheadCampaign ---------------------------
(***************************************************************************)
(* tools/evaluation/all_mode_overhead.py: a campaign that compares every   *)
(* profiling mode with an unprofiled reference. In each round every        *)
(* condition is measured once, in a block of its own on the hardware; the  *)
(* blocks are never retried. A campaign that was interrupted between two   *)
(* blocks is resumed; a block that failed only after its collection may be *)
(* recovered from what it has collected. At the end the heavy products are *)
(* derived for one block of each candidate, and the campaign is reported.  *)
(*                                                                         *)
(* Invocations (run, --resume, recover-postprocess) follow each other and  *)
(* may die at any step; the files they leave are all that the next one     *)
(* knows. The order of a round is a permutation drawn from the seed: here  *)
(* any block of the round may come next.                                   *)
(***************************************************************************)
EXTENDS Integers, FiniteSets

CONSTANTS
    FormalRounds,    \* formal_rounds
    Reference,       \* the condition without profiling
    Candidates,      \* the other conditions
    None,
    MaxDeaths,       \* bound on invocations that die or raise where nothing catches
    MaxFaults,       \* bound on exceptions and interrupts that are caught
    MaxChanges       \* bound on changes of the model or its compile cache

Conditions == Candidates \cup {Reference}
Blocks == (1 .. FormalRounds) \X Conditions

\* The model and its compile cache, each as a fingerprint. Fingerprints hold the
\* times of modification, so that none comes back: a change counts one up.
World == [model : Nat, cache : Nat]

\* How a block's hybrid run ended: "postprocess" is a run whose collection and
\* shutdown are good and whose derived products are not, "shutdown" one whose
\* first error is of the postprocessing but whose shutdown failed as well.
Ended == {"ok", "postprocess", "shutdown", "other"}

CampaignAssumption ==
    /\ FormalRounds \in Nat \ {0}
    /\ Candidates # {} /\ Reference \notin Candidates
    /\ None \notin Blocks /\ None \notin World /\ None \notin Ended
    /\ MaxDeaths \in Nat /\ MaxFaults \in Nat /\ MaxChanges \in Nat
ASSUME CampaignHasBlocks == CampaignAssumption

\* A block ends with its environment, requests, telemetry, shutdown, artifact
\* references and result, a recovered one with postprocess_recovery.json.
Result == 6
Recovery == 7

VARIABLES
    setup,       \* the campaign directory: absent, partial or ready
    ckpt,        \* checkpoint.json
    block,       \* what lies in the directory of each block
    root,        \* the files beside it
    world,       \* the model and its compile cache, as fingerprints
    pc, mem, cur, at, done, problem,     \* the invocation
    exit,        \* how the last one ended
    deaths, faults, changes

disk == <<setup, ckpt, block, root>>
local == <<mem, cur, at, done, problem>>
bounds == <<deaths, faults, changes>>
vars == <<disk, world, pc, local, exit, bounds>>

Status == {"initialized", "preflight_failed", "preflight_succeeded", "running",
           "interrupted", "failed", "collection_succeeded", "postprocess_failed",
           "postprocess_recovered", "succeeded"}

\* The products of a run: the trace, then the report, then their hashes.
Products == {"none", "trace", "reports", "all"}

\* What ends a block or the postprocessing: "other" and "another" are exceptions
\* that differ in their message.
Problems == {"postprocess", "other", "another", "interrupt", "partial"}

Checkpoint == [status : Status, completed : SUBSET Blocks,
               current : Blocks \cup {None}, failed : Blocks \cup {None}]
BlockFiles == [begun : BOOLEAN, seen : SUBSET World, ran : Ended \cup {None},
               failure : Problems \cup {None}, written : 0 .. Recovery,
               products : Products, shown : BOOLEAN]

InBlock == {"mkdir", "prepare", "hardware", "verify", "evidence"}
Failing == {"recordFailure", "recordAfter", "close"}
Postprocessing == {"select", "derive", "show", "document"}
Reporting == {"postFailed", "postClose", "succeed", "report", "manifest"}
Recovering == {"rDerive", "rVerify", "rEvidence", "rComplete"}
Steps == {"init", "preflight", "fingerprint", "start", "next", "complete", "final"}
         \cup InBlock \cup Failing \cup Postprocessing \cup Reporting \cup Recovering

TypeOK ==
    /\ setup \in {"absent", "partial", "ready"}
    /\ ckpt \in Checkpoint /\ mem \in Checkpoint
    /\ block \in [Blocks -> BlockFiles]
    /\ DOMAIN root = {"before", "after", "selected", "document", "failure",
                      "report", "manifest"}
    /\ root.before \in World \cup {None} /\ root.after \in World \cup {None}
    /\ root.document \in BOOLEAN /\ world \in World
    /\ pc \in Steps \cup {"down"} /\ cur \in Blocks /\ at \in 0 .. Recovery
    /\ done \subseteq Candidates /\ problem \in Problems
    /\ exit \in {"none", "returned", "reported", "raised", "died"}
    /\ deaths \in 0 .. MaxDeaths /\ faults \in 0 .. MaxFaults
    /\ changes \in 0 .. MaxChanges

Fresh == [status |-> "initialized", completed |-> {}, current |-> None, failed |-> None]

Init ==
    /\ setup = "absent" /\ ckpt = Fresh /\ mem = Fresh
    /\ block = [b \in Blocks |->
                   [begun |-> FALSE, seen |-> {}, ran |-> None, failure |-> None,
                    written |-> 0, products |-> "none", shown |-> FALSE]]
    /\ root = [before |-> None, after |-> None, selected |-> None, document |-> FALSE,
               failure |-> None, report |-> None, manifest |-> None]
    /\ world = [model |-> 0, cache |-> 0]
    /\ pc = "down" /\ cur = <<1, Reference>> /\ at = 0 /\ done = {}
    /\ problem = "other" /\ exit = "none"
    /\ deaths = 0 /\ faults = 0 /\ changes = 0

-----------------------------------------------------------------------------
(* Starting an invocation                                                  *)

Goto(p) == pc' = p
Raise == pc' = "down" /\ exit' = "raised"
Write(c) == mem' = c /\ ckpt' = c          \* _update_checkpoint

\* _initialize_campaign: the directory, its plan, the checkpoint last.
Create ==
    /\ pc = "down" /\ setup = "absent"
    /\ setup' = "partial" /\ Goto("init") /\ exit' = "none"
    /\ UNCHANGED <<ckpt, block, root, world, local, bounds>>

Initialize ==
    /\ pc = "init" /\ setup' = "ready" /\ Write(Fresh) /\ Goto("preflight")
    /\ UNCHANGED <<block, root, world, cur, at, done, problem, exit, bounds>>

\* Mutant: a block that was under way is taken up again.
ResumeAnyway ==
    /\ pc = "down" /\ setup = "ready" /\ ckpt.failed = None
    /\ mem' = [ckpt EXCEPT !.current = None] /\ Goto("preflight") /\ exit' = "none"
    /\ UNCHANGED <<disk, world, cur, at, done, problem, bounds>>

\* _resume_campaign
Resume ==
    /\ pc = "down" /\ setup = "ready" /\ ckpt.failed = None /\ ckpt.current = None
    /\ mem' = ckpt /\ Goto("preflight") /\ exit' = "none"
    /\ UNCHANGED <<disk, world, cur, at, done, problem, bounds>>

\* The previous invocation has died in a block: the block has failed.
ResumeFindsBlock ==
    /\ pc = "down" /\ setup = "ready" /\ ckpt.failed = None /\ ckpt.current # None
    /\ ckpt' = [ckpt EXCEPT !.status = "interrupted", !.failed = ckpt.current]
    /\ exit' = "raised"
    /\ UNCHANGED <<setup, block, root, world, pc, local, bounds>>

\* A run without --resume wants a directory that does not exist.
CreateRaises ==
    /\ pc = "down" /\ setup # "absent" /\ exit' = "raised"
    /\ UNCHANGED <<disk, world, pc, local, bounds>>

\* A resume wants a checkpoint without a failed block.
ResumeRaises ==
    /\ pc = "down" /\ (setup = "partial" \/ ckpt.failed # None)
    /\ exit' = "raised"
    /\ UNCHANGED <<disk, world, pc, local, bounds>>

\* run_preflight, with or without --preflight-only.
Preflight ==
    /\ pc = "preflight"
    /\ \/ Goto("fingerprint") /\ UNCHANGED <<mem, ckpt, exit>>
       \/ \E s \in {"preflight_failed", "preflight_succeeded"} :
             /\ Write([mem EXCEPT !.status = s])
             /\ pc' = "down" /\ exit' = "returned"
    /\ UNCHANGED <<setup, block, root, world, cur, at, done, problem, bounds>>

\* The model and the cache must be those the campaign began with.
Fingerprint ==
    /\ pc = "fingerprint"
    /\ \/ /\ root.before = None
          /\ root' = [root EXCEPT !.before = world]
          /\ Goto("start") /\ UNCHANGED exit
       \/ /\ root.before # None /\ UNCHANGED root
          /\ IF root.before = world THEN Goto("start") /\ UNCHANGED exit ELSE Raise
    /\ UNCHANGED <<setup, ckpt, block, world, local, bounds>>

Start ==
    /\ pc = "start" /\ Write([mem EXCEPT !.status = "running"]) /\ Goto("next")
    /\ UNCHANGED <<setup, block, root, world, cur, at, done, problem, exit, bounds>>

-----------------------------------------------------------------------------
(* The blocks                                                              *)

Remaining == Blocks \ mem.completed

NextBlock ==
    /\ pc = "next"
    /\ \E b \in Remaining :
          /\ \A c \in Remaining : b[1] <= c[1]
          /\ cur' = b /\ Write([mem EXCEPT !.current = b])
    /\ Goto("mkdir")
    /\ UNCHANGED <<setup, block, root, world, at, done, problem, exit, bounds>>

NextEnds ==
    /\ pc = "next" /\ Remaining = {} /\ Goto("final")
    /\ UNCHANGED <<disk, world, local, exit, bounds>>

Fails(p) == Goto("recordFailure") /\ problem' = p

\* block_root.mkdir: the directory of an earlier try is a FileExistsError.
Mkdir ==
    /\ pc = "mkdir"
    /\ IF block[cur].begun
       THEN Fails("other") /\ UNCHANGED block
       ELSE /\ block' = [block EXCEPT ![cur].begun = TRUE]
            /\ Goto("prepare") /\ UNCHANGED problem
    /\ UNCHANGED <<setup, ckpt, root, world, mem, cur, at, done, exit, bounds>>

\* The configuration, wait_for_idle, the fingerprint of the cache.
Prepare ==
    /\ pc = "prepare" /\ Goto("hardware")
    /\ block' = [block EXCEPT ![cur].seen = {world}]
    /\ UNCHANGED <<setup, ckpt, root, world, local, exit, bounds>>

\* runner.run(): what HybridRun makes of it is on disk.
Hardware ==
    /\ pc = "hardware"
    /\ \E r \in Ended :
          /\ block' = [block EXCEPT ![cur].ran = r, ![cur].seen = @ \cup {world}]
          /\ CASE r = "ok" -> Goto("verify") /\ UNCHANGED problem
               [] r \in {"postprocess", "shutdown"} -> Fails("postprocess")
               [] OTHER -> Fails("other")
    /\ UNCHANGED <<setup, ckpt, root, world, mem, cur, at, done, exit, bounds>>

Caches(b) == {w.cache : w \in block[b].seen}

\* The cache, the trial, the sampling, the artifacts, the idle hardware.
Verify ==
    /\ pc = "verify" /\ at' = 0
    /\ IF Cardinality(Caches(cur)) = 1 THEN Goto("evidence") /\ UNCHANGED problem
                                       ELSE Fails("other")
    /\ UNCHANGED <<disk, world, mem, cur, done, exit, bounds>>

\* Each file is linked into place: one that exists is a FileExistsError.
Exists == at < block[cur].written
WriteNext ==
    /\ at' = at + 1
    /\ block' = [block EXCEPT ![cur].written = at + 1]

Evidence ==
    /\ pc = "evidence"
    /\ IF Exists
       THEN Fails("other") /\ UNCHANGED <<block, at>>
       ELSE /\ WriteNext /\ UNCHANGED problem
            /\ Goto(IF at + 1 = Result THEN "complete" ELSE "evidence")
    /\ UNCHANGED <<setup, ckpt, root, world, mem, cur, done, exit, bounds>>

Complete ==
    /\ pc = "complete" /\ Goto("next")
    /\ Write([mem EXCEPT !.completed = @ \cup {cur}, !.current = None])
    /\ UNCHANGED <<setup, block, root, world, cur, at, done, problem, exit, bounds>>

\* An exception or an interrupt inside of _run_one_block.
BlockFaults ==
    /\ pc \in InBlock /\ faults < MaxFaults /\ faults' = faults + 1
    /\ \E p \in {"other", "interrupt"} : Fails(p)
    /\ UNCHANGED <<disk, world, mem, cur, at, done, exit, deaths, changes>>

\* _record_block_failure: the best it can do, and never twice.
RecordFailure ==
    /\ pc = "recordFailure" /\ Goto("recordAfter")
    /\ \E made \in BOOLEAN, f \in {problem, None} :
          /\ f # None => made
          /\ block' = [block EXCEPT ![cur].begun = @ \/ made,
                                   ![cur].failure = IF @ = None THEN f ELSE @]
    /\ UNCHANGED <<setup, ckpt, root, world, local, exit, bounds>>

\* _record_model_cache_after: what it raises is only noted here.
RecordAfter ==
    /\ pc = "recordAfter" /\ Goto("close")
    /\ \E w \in {world, None} :
          root' = [root EXCEPT !.after = IF @ = None THEN w ELSE @]
    /\ UNCHANGED <<setup, ckpt, block, world, local, exit, bounds>>

Close ==
    /\ pc = "close"
    /\ LET s == IF problem = "interrupt" THEN "interrupted" ELSE "failed"
       IN  Write([mem EXCEPT !.status = s, !.failed = cur, !.current = None])
    /\ pc' = "down" /\ exit' = IF problem = "interrupt" THEN "raised" ELSE "returned"
    /\ UNCHANGED <<setup, block, root, world, cur, at, done, problem, bounds>>

\* Mutant: what was measured last is recorded and not compared.
FinalTrusts ==
    /\ pc = "final"
    /\ root' = [root EXCEPT !.after = world]
    /\ Write([mem EXCEPT !.status = "collection_succeeded"]) /\ Goto("select")
    /\ UNCHANGED <<setup, block, world, cur, at, done, problem, exit, bounds>>

\* All blocks are there: was it one model and one cache throughout?
Final ==
    /\ pc = "final"
    /\ IF root.after \notin {None, world}
       THEN Raise /\ UNCHANGED <<root, mem, ckpt>>
       ELSE /\ root' = [root EXCEPT !.after = world]
            /\ IF world = root.before
               THEN /\ Write([mem EXCEPT !.status = "collection_succeeded"])
                    /\ Goto("select") /\ UNCHANGED exit
               ELSE Write([mem EXCEPT !.status = "failed"]) /\ Raise
    /\ UNCHANGED <<setup, block, world, cur, at, done, problem, bounds>>

-----------------------------------------------------------------------------
(* The representatives, the report and its manifest                        *)

Completes(b) == block[b].written >= Result          \* block_result.json is there
Representative(c) ==
    LET rounds == {r \in 1 .. FormalRounds : Completes(<<r, c>>)}
    IN  <<CHOOSE r \in rounds : \A q \in rounds : r <= q, c>>
Selection == [c \in Candidates |-> Representative(c)]

PostFails(p) == Goto("postFailed") /\ problem' = p

\* representative_selection.json is written once, or compared.
Select ==
    /\ pc = "select" /\ done' = {}
    /\ IF root.selected \notin {None, Selection}
       THEN PostFails("other") /\ UNCHANGED root
       ELSE /\ root' = [root EXCEPT !.selected = Selection]
            /\ Goto("derive") /\ UNCHANGED problem
    /\ UNCHANGED <<setup, ckpt, block, world, mem, cur, at, exit, bounds>>

\* What a derivation that starts from some products may leave. The trace and
\* the report are published whole, the hashes come last.
Derived(from) == CASE from = "none" -> Products
                   [] from = "trace" -> {"trace", "reports", "all"}
                   [] OTHER -> {from}

\* The products of the next candidate, where none are there yet.
Derive ==
    /\ pc = "derive"
    /\ \E c \in Candidates \ done, p \in Products :
          LET b == root.selected[c]
              from == block[b].products
          IN  /\ from # "none" => p = from
              /\ cur' = b /\ block' = [block EXCEPT ![b].products = p]
              /\ IF p = "all" THEN Goto("show") /\ UNCHANGED problem
                 ELSE PostFails(IF from = "none" THEN "other" ELSE "partial")
    /\ UNCHANGED <<setup, ckpt, root, world, mem, at, done, exit, bounds>>

\* Its evidence, written once or compared.
Show ==
    /\ pc = "show" /\ block' = [block EXCEPT ![cur].shown = TRUE]
    /\ done' = done \cup {cur[2]}
    /\ Goto(IF done' = Candidates THEN "document" ELSE "derive")
    /\ UNCHANGED <<setup, ckpt, root, world, mem, cur, at, problem, exit, bounds>>

Document ==
    /\ pc = "document" /\ root' = [root EXCEPT !.document = TRUE] /\ Goto("succeed")
    /\ UNCHANGED <<setup, ckpt, block, world, local, exit, bounds>>

\* An exception in postprocess_representative_runs: a validation, a mismatch.
PostFaults ==
    /\ pc \in Postprocessing /\ faults < MaxFaults /\ faults' = faults + 1
    /\ \E p \in {"other", "another"} : PostFails(p)
    /\ UNCHANGED <<disk, world, mem, cur, at, done, exit, deaths, changes>>

\* The failure is written once, or compared: one with another message raises.
PostFailed ==
    /\ pc = "postFailed"
    /\ IF root.failure \notin {None, problem}
       THEN Raise /\ UNCHANGED root
       ELSE /\ root' = [root EXCEPT !.failure = problem]
            /\ Goto("postClose") /\ UNCHANGED exit
    /\ UNCHANGED <<setup, ckpt, block, world, local, bounds>>

PostClose ==
    /\ pc = "postClose" /\ Goto("report")
    /\ Write([mem EXCEPT !.status = "postprocess_failed", !.current = None])
    /\ UNCHANGED <<setup, block, root, world, cur, at, done, problem, exit, bounds>>

Succeed ==
    /\ pc = "succeed" /\ Goto("report")
    /\ Write([mem EXCEPT !.status = "succeeded", !.current = None, !.failed = None])
    /\ UNCHANGED <<setup, block, root, world, cur, at, done, problem, exit, bounds>>

\* build_campaign_report
Reported == [status |-> ckpt.status,
             complete |-> (\A b \in Blocks : Completes(b)) /\ root.document]

\* Mutant: a report that exists is kept, as the evidence is.
ReportOnce ==
    /\ pc = "report" /\ Goto("manifest")
    /\ root' = [root EXCEPT !.report = IF @ = None THEN Reported ELSE @]
    /\ UNCHANGED <<setup, ckpt, block, world, local, exit, bounds>>

\* generate_campaign_report: the report replaces an earlier one, as the
\* manifest of all the files does after it.
Report ==
    /\ pc = "report" /\ Goto("manifest")
    /\ root' = [root EXCEPT !.report = Reported]
    /\ UNCHANGED <<setup, ckpt, block, world, local, exit, bounds>>

Contents == <<ckpt, block, [root EXCEPT !.manifest = None]>>
Manifest ==
    /\ pc = "manifest" /\ root' = [root EXCEPT !.manifest = Contents]
    /\ pc' = "down" /\ exit' = "reported"
    /\ UNCHANGED <<setup, ckpt, block, world, local, bounds>>

-----------------------------------------------------------------------------
(* recover_failed_postprocess                                              *)

Recoverable(b) ==
    /\ b # None /\ block[b].failure = "postprocess"
    /\ block[b].ran = "postprocess" /\ root.before = world

Recover ==
    /\ pc = "down" /\ setup = "ready" /\ Recoverable(ckpt.failed)
    /\ mem' = ckpt /\ cur' = ckpt.failed /\ Goto("rDerive") /\ exit' = "none"
    /\ UNCHANGED <<disk, world, at, done, problem, bounds>>

RecoverRaises ==
    /\ pc = "down" /\ (setup # "ready" \/ ~Recoverable(ckpt.failed)) /\ exit' = "raised"
    /\ UNCHANGED <<disk, world, pc, local, bounds>>

\* No products: derive them all. A trace only: the report. Else they must be there.
RDerive ==
    /\ pc = "rDerive"
    /\ \E p \in Derived(block[cur].products) :
          /\ block' = [block EXCEPT ![cur].products = p]
          /\ IF p = "all" THEN Goto("rVerify") /\ UNCHANGED exit ELSE Raise
    /\ UNCHANGED <<setup, ckpt, root, world, local, bounds>>

RVerify ==
    /\ pc = "rVerify" /\ at' = 0
    /\ IF root.before = world THEN Goto("rEvidence") /\ UNCHANGED exit ELSE Raise
    /\ UNCHANGED <<disk, world, mem, cur, done, problem, bounds>>

\* The files a block writes at its end, and a seventh. One that an earlier
\* recovery has left is a FileExistsError.
REvidence ==
    /\ pc = "rEvidence"
    /\ IF Exists
       THEN Raise /\ UNCHANGED <<block, at>>
       ELSE /\ WriteNext /\ UNCHANGED exit
            /\ Goto(IF at + 1 = Recovery THEN "rComplete" ELSE "rEvidence")
    /\ UNCHANGED <<setup, ckpt, root, world, mem, cur, done, problem, bounds>>

RComplete ==
    /\ pc = "rComplete"
    /\ Write([status |-> "postprocess_recovered", completed |-> mem.completed \cup {cur},
              current |-> None, failed |-> None])
    /\ pc' = "down" /\ exit' = "returned"
    /\ UNCHANGED <<setup, block, root, world, cur, at, done, problem, bounds>>

-----------------------------------------------------------------------------
(* What happens to a campaign                                              *)

\* A death, or an exception or interrupt where nothing catches it. The files are
\* written under another name and renamed or linked, so each is whole or absent.
Dies ==
    /\ pc # "down" /\ deaths < MaxDeaths /\ deaths' = deaths + 1
    /\ pc' = "down" /\ exit' = "died"
    /\ UNCHANGED <<disk, world, local, faults, changes>>

WorldChanges ==
    /\ changes < MaxChanges /\ changes' = changes + 1
    /\ \/ world' = [world EXCEPT !.model = @ + 1]
       \/ world' = [world EXCEPT !.cache = @ + 1]
    /\ UNCHANGED <<disk, pc, local, exit, deaths, faults>>

Invocation ==
    \/ Create \/ CreateRaises \/ Initialize \/ Resume \/ ResumeFindsBlock \/ ResumeRaises
    \/ Preflight \/ Fingerprint \/ Start \/ NextBlock \/ NextEnds
    \/ Mkdir \/ Prepare \/ Hardware \/ Verify \/ Evidence \/ Complete
    \/ BlockFaults \/ RecordFailure \/ RecordAfter \/ Close \/ Final
    \/ Select \/ Derive \/ Show \/ Document \/ PostFaults \/ PostFailed \/ PostClose
    \/ Succeed \/ Report \/ Manifest
    \/ Recover \/ RecoverRaises \/ RDerive \/ RVerify \/ REvidence \/ RComplete

Next == Invocation \/ Dies \/ WorldChanges
Spec == Init /\ [][Next]_vars

-----------------------------------------------------------------------------
(* Properties                                                              *)

\* A block whose directory exists is completed, under way, or the one that
\* failed: whatever died in between, no resume begins a block a second time. A
\* completed one has its result and comes from a run that succeeded, or that
\* failed only in its postprocessing, whose failure and recovery are both kept.
Begun(b) == block[b].begun
BlocksAccounted ==
    /\ \A b \in Blocks : Begun(b) => b \in ckpt.completed \cup {ckpt.current, ckpt.failed}
    /\ \A b \in ckpt.completed :
          /\ Completes(b)
          /\ \/ block[b].ran = "ok"
             \/ /\ block[b].ran = "postprocess" /\ block[b].written = Recovery
                /\ block[b].failure = "postprocess"
    /\ pc = "mkdir" => ~Begun(cur)

\* A campaign that has succeeded has measured every block, all of them with the
\* model and the cache it began with, and shows the first run of each candidate.
SuccessIsWhole ==
    ckpt.status = "succeeded" =>
        /\ ckpt.completed = Blocks
        /\ \A b \in Blocks : block[b].seen = {root.before}
        /\ root.after = root.before /\ root.document
        /\ \A c \in Candidates :
              LET b == root.selected[c]
              IN  b = <<1, c>> /\ block[b].shown /\ block[b].products = "all"

\* When an invocation has reported, its manifest lists what is there, the report
\* says what the checkpoint says, and a success is reported as complete.
ReportIsCurrent ==
    pc = "down" /\ exit = "reported" =>
        /\ root.manifest = Contents
        /\ root.report.status = ckpt.status
        /\ ckpt.status = "succeeded" => root.report.complete
=============================================================================
