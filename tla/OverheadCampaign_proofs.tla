----------------------- MODULE OverheadCampaign_proofs -----------------------
(***************************************************************************)
(* Proofs about OverheadCampaign, for any rounds, candidates, deaths,      *)
(* faults and changes.                                                     *)
(*                                                                         *)
(* The properties speak of the files between invocations.  Control says    *)
(* what an invocation holds at each step, Files what it has written of its *)
(* block, Worlds that fingerprints only grow, Collected what the comparison *)
(* before the representatives has established, and how long that lasts.    *)
(***************************************************************************)
EXTENDS OverheadCampaign, TLAPS

Between == {"preflight", "fingerprint", "start", "next", "final"}
           \cup Postprocessing \cup Reporting
Measuring == InBlock \cup {"complete"} \cup Failing

\* What the runner remembers is the checkpoint, and says which block is its own.
Control ==
    /\ setup # "ready" => /\ pc \in {"down", "init"} /\ ckpt = Fresh /\ mem = Fresh
                          /\ \A b \in Blocks : ~Begun(b)
    /\ setup = "absent" => pc = "down"
    /\ pc = "init" => setup = "partial"
    /\ pc # "down" => mem = ckpt
    /\ ckpt.current \notin ckpt.completed /\ ckpt.failed \notin ckpt.completed
    /\ ckpt.failed # None => ckpt.current \in {None, ckpt.failed}
    /\ pc \in Between => mem.current = None /\ mem.failed = None
    /\ pc \in Measuring => mem.current = cur /\ mem.failed = None
    /\ pc \in Recovering => mem.failed = cur

\* What has been written of the block under way.
Files ==
    /\ \A b \in Blocks : Begun(b) \/ (block[b].written = 0 /\ block[b].ran \notin Ended)
    /\ \A b \in Blocks : block[b].ran \in Ended => block[b].seen # {}
    /\ pc = "mkdir" => ~Begun(cur)
    /\ pc \in {"prepare", "hardware", "verify", "evidence", "complete"} => Begun(cur)
    /\ pc \in {"prepare", "hardware", "verify"} => block[cur].written = 0
    /\ pc \in {"verify", "evidence", "complete"} => block[cur].ran = "ok"
    /\ pc = "evidence" => at = block[cur].written /\ at < Result
    /\ pc = "complete" => block[cur].written = Result
    /\ pc \in Recovering =>
          block[cur].ran = "postprocess" /\ block[cur].failure = "postprocess"
    /\ pc = "rEvidence" => at \in {0, block[cur].written} /\ at < Recovery
    /\ pc = "rComplete" => block[cur].written = Recovery

\* Every fingerprint lies between the first one and the present one.
Leq(v, w) == v.model <= w.model /\ v.cache <= w.cache
Compared == root.before \in World /\ Leq(root.before, world)
Worlds ==
    /\ root.before # None => Compared
    /\ pc \in Measuring \cup Recovering \cup {"start", "next", "final"} => Compared
    /\ \A b \in Blocks : \A w \in block[b].seen :
          Compared /\ Leq(root.before, w) /\ Leq(w, world)

\* All blocks are measured, with one model and one cache.
Collected ==
    /\ ckpt.completed = Blocks
    /\ root.before \in World /\ root.after = root.before
    /\ \A b \in Blocks : block[b].seen = {root.before}

First == [c \in Candidates |-> <<1, c>>]
IsShown(c) == block[<<1, c>>].shown /\ block[<<1, c>>].products = "all"
Success ==
    /\ pc = "final" => ckpt.completed = Blocks
    /\ pc \in Postprocessing \cup {"succeed"} => Collected
    /\ ckpt.status = "succeeded" => Collected /\ root.document
    /\ pc \in Postprocessing \ {"select"} =>
          root.selected = First /\ \A c \in done : IsShown(c)
    /\ pc = "show" => /\ \E c \in Candidates : cur = <<1, c>>
                      /\ block[cur].products = "all"
    /\ pc = "document" => done = Candidates
    /\ pc = "succeed" => root.document
    /\ root.document => root.selected = First /\ \A c \in Candidates : IsShown(c)

Current ==
    /\ pc = "manifest" => root.report = Reported
    /\ pc = "down" /\ exit = "reported" =>
          root.manifest = Contents /\ root.report = Reported

Accounted ==
    /\ \A b \in Blocks : Begun(b) => b \in ckpt.completed \cup {ckpt.current, ckpt.failed}
    /\ \A b \in ckpt.completed :
          /\ Completes(b)
          /\ \/ block[b].ran = "ok"
             \/ /\ block[b].ran = "postprocess" /\ block[b].written = Recovery
                /\ block[b].failure = "postprocess"

Inv == TypeOK /\ Control /\ Files /\ Worlds /\ Success /\ Current /\ Accounted

\* A block's files keep their type when one kind of them changes.
LEMMA FilesUpdate ==
    ASSUME NEW r \in BlockFiles
    PROVE  /\ \A v \in BOOLEAN : [r EXCEPT !.begun = v] \in BlockFiles
           /\ \A v \in BOOLEAN : [r EXCEPT !.shown = v] \in BlockFiles
           /\ \A v \in SUBSET World : [r EXCEPT !.seen = v] \in BlockFiles
           /\ \A v \in Ended : [r EXCEPT !.ran = v] \in BlockFiles
           /\ \A v \in Problems \cup {None} : [r EXCEPT !.failure = v] \in BlockFiles
           /\ \A v \in 0 .. Recovery : [r EXCEPT !.written = v] \in BlockFiles
           /\ \A v \in Products : [r EXCEPT !.products = v] \in BlockFiles
<1>1. ASSUME NEW v \in BOOLEAN
      PROVE  [r EXCEPT !.begun = v] \in BlockFiles /\ [r EXCEPT !.shown = v] \in BlockFiles
  BY Zenon DEF BlockFiles
<1>2. ASSUME NEW v \in SUBSET World PROVE [r EXCEPT !.seen = v] \in BlockFiles
  BY Zenon DEF BlockFiles
<1>3. ASSUME NEW v \in Ended PROVE [r EXCEPT !.ran = v] \in BlockFiles
  BY Zenon DEF BlockFiles
<1>4. ASSUME NEW v \in Problems \cup {None} PROVE [r EXCEPT !.failure = v] \in BlockFiles
  BY Zenon DEF BlockFiles
<1>5. ASSUME NEW v \in 0 .. Recovery PROVE [r EXCEPT !.written = v] \in BlockFiles
  BY Zenon DEF BlockFiles
<1>6. ASSUME NEW v \in Products PROVE [r EXCEPT !.products = v] \in BlockFiles
  BY Zenon DEF BlockFiles
<1> QED
  BY <1>1, <1>2, <1>3, <1>4, <1>5, <1>6, Zenon

\* Nine actions write in the directory of a block.
LEMMA OthersLeaveBlock ==
    ASSUME Next
    PROVE  \/ Mkdir \/ Prepare \/ Hardware \/ Evidence \/ RecordFailure
           \/ Derive \/ Show \/ RDerive \/ REvidence \/ UNCHANGED block
  BY DEF Next, Invocation, disk, Create, Initialize, Resume, ResumeFindsBlock,
         CreateRaises, ResumeRaises, Preflight, Fingerprint, Start, NextBlock, NextEnds, Verify,
         Complete, BlockFaults, RecordAfter, Close, Final, Select, Document, PostFaults,
         PostFailed, PostClose, Succeed, Report, Manifest, Recover, RecoverRaises,
         RVerify, RComplete, Dies, WorldChanges

\* Every action leaves the files of all blocks well-typed.
LEMMA BlockStep ==
    ASSUME Inv, Next
    PROVE  block' \in [Blocks -> BlockFiles]
<1> USE DEF Inv, TypeOK
<1>0. block[cur] \in BlockFiles
  OBVIOUS
<1>1. CASE Mkdir
  <2>1. [block[cur] EXCEPT !.begun = TRUE] \in BlockFiles
    BY <1>0, FilesUpdate
  <2> QED
    BY <1>1, <2>1 DEF Mkdir
<1>2. CASE Prepare
  <2>1. [block[cur] EXCEPT !.seen = {world}] \in BlockFiles
    BY <1>0, FilesUpdate
  <2> QED
    BY <1>2, <2>1 DEF Prepare
<1>3. CASE Hardware
  <2>1. PICK r \in Ended :
           block' = [block EXCEPT ![cur].ran = r, ![cur].seen = @ \cup {world}]
    BY <1>3 DEF Hardware
  <2> DEFINE ran == [block[cur] EXCEPT !.ran = r]
  <2>2. ran \in BlockFiles /\ ran.seen = block[cur].seen
    BY <1>0, FilesUpdate DEF BlockFiles
  <2>3. ran.seen \cup {world} \in SUBSET World
    BY <1>0, <2>2 DEF BlockFiles
  <2>4. [ran EXCEPT !.seen = @ \cup {world}] \in BlockFiles
    BY <2>2, <2>3, FilesUpdate
  <2> QED
    BY <2>1, <2>4
<1>4. CASE Evidence
  <2>1. at + 1 \in 0 .. Recovery
    BY <1>4 DEF Evidence, Files, Result, Recovery
  <2>2. [block[cur] EXCEPT !.written = at + 1] \in BlockFiles
    BY <1>0, <2>1, FilesUpdate
  <2> QED
    BY <1>4, <2>2 DEF Evidence, WriteNext
<1>5. CASE RecordFailure
  <2>1. PICK made \in BOOLEAN, f \in {problem, None} :
           block' = [block EXCEPT ![cur].begun = @ \/ made,
                                  ![cur].failure = IF @ = None THEN f ELSE @]
    BY <1>5 DEF RecordFailure
  <2> DEFINE dir == [block[cur] EXCEPT !.begun = @ \/ made]
  <2>2. dir \in BlockFiles
    BY <1>0, FilesUpdate
  <2>3. (IF dir.failure = None THEN f ELSE dir.failure) \in Problems \cup {None}
    BY <2>2 DEF BlockFiles
  <2>4. [dir EXCEPT !.failure = IF @ = None THEN f ELSE @] \in BlockFiles
    BY <2>2, <2>3, FilesUpdate
  <2> QED
    BY <2>1, <2>4
<1>6. CASE Derive
  <2>1. PICK c \in Candidates : cur' = root.selected[c]
    BY <1>6 DEF Derive
  <2>2. cur' \in Blocks
    BY <1>6, <2>1, CampaignHasBlocks
       DEF Derive, Success, First, Postprocessing, Blocks, Conditions, CampaignAssumption
  <2>3. PICK p \in Products : block' = [block EXCEPT ![cur'].products = p]
    BY <1>6, <2>2 DEF Derive, BlockFiles
  <2> QED
    BY <2>2, <2>3, FilesUpdate
<1>7. CASE Show
  <2>1. [block[cur] EXCEPT !.shown = TRUE] \in BlockFiles
    BY <1>0, FilesUpdate
  <2> QED
    BY <1>7, <2>1 DEF Show
<1>8. CASE RDerive
  <2>1. PICK p \in Products : block' = [block EXCEPT ![cur].products = p]
    BY <1>0, <1>8 DEF RDerive, Derived, Products, BlockFiles
  <2> QED
    BY <1>0, <2>1, FilesUpdate
<1>9. CASE REvidence
  <2>1. at + 1 \in 0 .. Recovery
    BY <1>9 DEF REvidence, Files, Result, Recovery
  <2>2. [block[cur] EXCEPT !.written = at + 1] \in BlockFiles
    BY <1>0, <2>1, FilesUpdate
  <2> QED
    BY <1>9, <2>2 DEF REvidence, WriteNext
<1>10. CASE UNCHANGED block
  BY <1>10
<1> QED
  BY <1>1, <1>2, <1>3, <1>4, <1>5, <1>6, <1>7, <1>8, <1>9, <1>10, OthersLeaveBlock

\* The first block of a candidate is a block.
LEMMA FirstIsBlock ==
    \A c \in Candidates : First[c] = <<1, c>> /\ <<1, c>> \in Blocks
  BY CampaignHasBlocks DEF First, Blocks, Conditions, CampaignAssumption

\* When every block has its result, the first one of each candidate is selected.
LEMMA FirstIsSelected ==
    ASSUME \A b \in Blocks : Completes(b)
    PROVE  Selection = First
<1>1. ASSUME NEW c \in Candidates
      PROVE  Representative(c) = <<1, c>>
  <2> DEFINE rounds == {r \in 1 .. FormalRounds : Completes(<<r, c>>)}
  <2>1. rounds = 1 .. FormalRounds
    BY DEF Blocks, Conditions
  <2>2. 1 \in rounds /\ \A q \in rounds : 1 <= q
    BY <2>1, CampaignHasBlocks DEF CampaignAssumption
  <2>3. \A r \in rounds : (\A q \in rounds : r <= q) => r = 1
    BY <2>1, <2>2
  <2> HIDE DEF rounds
  <2>4. (CHOOSE r \in rounds : \A q \in rounds : r <= q) = 1
    BY <2>2, <2>3
  <2> QED
    BY <2>4 DEF Representative, rounds
<1> QED
  BY <1>1 DEF Selection, First

\* Two fingerprints of which neither is older are the same.
LEMMA LeqBothWays ==
    ASSUME NEW v \in World, NEW w \in World, Leq(v, w), Leq(w, v)
    PROVE  v = w
  BY DEF World, Leq

\* A block under way or being recovered is not completed: nothing is collected.
LEMMA UnderWayIsNotDone ==
    ASSUME Inv, pc \in Measuring \cup Recovering
    PROVE  ckpt.completed # Blocks /\ ckpt.status # "succeeded"
  BY DEF Inv, TypeOK, Control, Success, Collected, Measuring, InBlock, Failing, Recovering

\* Blocks of which only other files change stay shown.
LEMMA StillShown ==
    ASSUME Success, UNCHANGED <<root, ckpt>>, ckpt.status # "succeeded",
           pc' \notin Postprocessing \cup {"final", "succeed"},
           \A b \in Blocks : block'[b].shown = block[b].shown
                             /\ block'[b].products = block[b].products
    PROVE  Success'
  BY FirstIsBlock DEF Success, IsShown, First, Postprocessing

\* The type invariant.
LEMMA TypeStep ==
    ASSUME Inv, Next
    PROVE  TypeOK'
<1> USE CampaignHasBlocks DEF Inv, TypeOK, Control, Goto, disk, local, bounds,
        Checkpoint, Problems, Products, Ended, Status, Fresh, World, Steps, InBlock,
        Failing, Postprocessing, Reporting, Recovering, CampaignAssumption
<1>1. CASE Create \/ Initialize \/ Resume \/ CreateRaises \/ ResumeRaises
  BY <1>1 DEF Create, Initialize, Write, Resume, CreateRaises, ResumeRaises
<1>2. CASE ResumeFindsBlock
  <2>1. ckpt' \in Checkpoint
    BY <1>2 DEF ResumeFindsBlock
  <2> QED
    BY <1>2, <2>1, BlockStep DEF ResumeFindsBlock
<1>3. CASE Preflight \/ Fingerprint \/ Start
  BY <1>3 DEF Preflight, Write, Fingerprint, Raise, Start
<1>4. CASE NextBlock \/ NextEnds
  BY <1>4 DEF NextBlock, Write, Remaining, NextEnds
<1>5. CASE Mkdir
  BY <1>5, BlockStep DEF Mkdir, Fails
<1>6. CASE Prepare
  BY <1>6, BlockStep DEF Prepare
<1>7. CASE Hardware
  BY <1>7, BlockStep DEF Hardware, Fails
<1>8. CASE Verify
  BY <1>8 DEF Verify, Fails, Recovery
<1>9. CASE Evidence
  <2>1. at' \in 0 .. Recovery
    BY <1>9 DEF Evidence, WriteNext, Exists, Files, Result, Recovery
  <2> QED
    BY <1>9, <2>1, BlockStep DEF Evidence, WriteNext, Fails
<1>10. CASE Complete
  <2>1. mem' \in Checkpoint /\ ckpt' \in Checkpoint
    BY <1>10 DEF Complete, Write
  <2> QED
    BY <1>10, <2>1 DEF Complete
<1>11. CASE BlockFaults
  BY <1>11 DEF BlockFaults, Fails
<1>12. CASE RecordFailure
  BY <1>12, BlockStep DEF RecordFailure
<1>13. CASE RecordAfter
  BY <1>13 DEF RecordAfter
<1>14. CASE Close
  BY <1>14 DEF Close, Write
<1>15. CASE Final
  BY <1>15 DEF Final, Write, Raise
<1>16. CASE Select
  BY <1>16 DEF Select, PostFails, Selection
<1>17. CASE Derive
  <2>1. cur' \in Blocks
    <3>1. PICK c \in Candidates : cur' = root.selected[c]
      BY <1>17 DEF Derive
    <3> QED
      BY <1>17, <3>1 DEF Derive, Success, First, Blocks, Conditions
  <2> QED
    BY <1>17, <2>1, BlockStep DEF Derive, PostFails
<1>18. CASE Show
  <2>1. cur[2] \in Candidates
    BY <1>18 DEF Show, Success
  <2> QED
    BY <1>18, <2>1, BlockStep DEF Show
<1>19. CASE Document
  BY <1>19 DEF Document
<1>20. CASE PostFaults
  BY <1>20 DEF PostFaults, PostFails
<1>21. CASE PostFailed
  BY <1>21 DEF PostFailed, Raise
<1>22. CASE PostClose
  BY <1>22 DEF PostClose, Write
<1>23. CASE Succeed
  BY <1>23 DEF Succeed, Write
<1>24. CASE Report \/ Manifest
  BY <1>24 DEF Report, Manifest
<1>25. CASE Recover \/ RecoverRaises
  BY <1>25 DEF Recover, Recoverable, RecoverRaises
<1>26. CASE RDerive
  BY <1>26, BlockStep DEF RDerive, Raise
<1>27. CASE RVerify
  BY <1>27 DEF RVerify, Raise, Recovery
<1>28. CASE REvidence
  <2>1. at' \in 0 .. Recovery
    BY <1>28 DEF REvidence, WriteNext, Exists, Files, Recovery
  <2> QED
    BY <1>28, <2>1, BlockStep DEF REvidence, WriteNext, Raise
<1>29. CASE RComplete
  BY <1>29 DEF RComplete, Write
<1>30. CASE Dies \/ WorldChanges
  BY <1>30 DEF Dies, WorldChanges
<1> QED
  BY <1>1, <1>2, <1>3, <1>4, <1>5, <1>6, <1>7, <1>8, <1>9, <1>10, <1>11, <1>12,
     <1>13, <1>14, <1>15, <1>16, <1>17, <1>18, <1>19, <1>20, <1>21, <1>22, <1>23,
     <1>24, <1>25, <1>26, <1>27, <1>28, <1>29, <1>30 DEF Next, Invocation

\* Who holds which block.
LEMMA ControlStep ==
    ASSUME Inv, Next
    PROVE  Control'
<1> USE CampaignHasBlocks DEF Inv, TypeOK, Control, Goto, disk, local, bounds,
        Checkpoint, Begun, Fresh, Steps, CampaignAssumption, Between, Measuring,
        InBlock, Failing, Postprocessing, Reporting, Recovering
<1>1. CASE Create
  BY <1>1 DEF Create
<1>2. CASE Initialize
  BY <1>2 DEF Initialize, Write
<1>3. CASE Resume
  BY <1>3 DEF Resume
<1>4. CASE CreateRaises \/ ResumeRaises
  BY <1>4 DEF CreateRaises, ResumeRaises
<1>5. CASE ResumeFindsBlock
  BY <1>5 DEF ResumeFindsBlock
<1>6. CASE Preflight \/ Fingerprint \/ Start
  BY <1>6 DEF Preflight, Write, Fingerprint, Raise, Start
<1>7. CASE NextBlock \/ NextEnds
  BY <1>7 DEF NextBlock, Write, Remaining, NextEnds
<1>8. CASE Mkdir
  BY <1>8 DEF Mkdir, Fails, Files
<1>9. CASE Prepare
  BY <1>9 DEF Prepare
<1>10. CASE Hardware
  BY <1>10 DEF Hardware, Fails
<1>11. CASE Verify
  BY <1>11 DEF Verify, Fails, Caches
<1>12. CASE Evidence
  BY <1>12 DEF Evidence, Exists, Fails, WriteNext
<1>13. CASE Complete
  BY <1>13 DEF Complete, Write
<1>14. CASE BlockFaults
  BY <1>14 DEF BlockFaults, Fails
<1>15. CASE RecordFailure
  BY <1>15 DEF RecordFailure
<1>16. CASE RecordAfter
  BY <1>16 DEF RecordAfter
<1>17. CASE Close
  BY <1>17 DEF Close, Write
<1>18. CASE Final
  BY <1>18 DEF Final, Write, Raise
<1>19. CASE Select
  BY <1>19 DEF Select, PostFails, Selection
<1>20. CASE Derive
  BY <1>20 DEF Derive, PostFails
<1>21. CASE Show
  BY <1>21 DEF Show
<1>22. CASE Document \/ PostFaults \/ PostFailed
  BY <1>22 DEF Document, PostFaults, PostFails, PostFailed, Raise
<1>23. CASE PostClose
  BY <1>23 DEF PostClose, Write
<1>24. CASE Succeed
  BY <1>24 DEF Succeed, Write
<1>25. CASE Report \/ Manifest
  BY <1>25 DEF Report, Manifest
<1>26. CASE Recover \/ RecoverRaises
  BY <1>26 DEF Recover, Recoverable, RecoverRaises
<1>27. CASE RDerive
  BY <1>27 DEF RDerive, Raise, Derived
<1>28. CASE RVerify
  BY <1>28 DEF RVerify, Raise
<1>29. CASE REvidence
  BY <1>29 DEF REvidence, Exists, Raise, WriteNext
<1>30. CASE RComplete
  BY <1>30 DEF RComplete, Write
<1>31. CASE Dies \/ WorldChanges
  BY <1>31 DEF Dies, WorldChanges
<1> QED
  BY <1>1, <1>2, <1>3, <1>4, <1>5, <1>6, <1>7, <1>8, <1>9, <1>10, <1>11, <1>12,
     <1>13, <1>14, <1>15, <1>16, <1>17, <1>18, <1>19, <1>20, <1>21, <1>22, <1>23,
     <1>24, <1>25, <1>26, <1>27, <1>28, <1>29, <1>30, <1>31 DEF Next, Invocation

\* What a block's files say about the step at hand.
LEMMA FilesStep ==
    ASSUME Inv, Next
    PROVE  Files'
<1> USE CampaignHasBlocks DEF Inv, TypeOK, Control, Goto, disk, local, bounds,
        Files, Accounted, Begun, Checkpoint, BlockFiles, Ended, Result, Recovery,
        CampaignAssumption, Between, Measuring, InBlock, Failing, Postprocessing,
        Reporting, Recovering
<1>1. CASE Create \/ Initialize \/ Resume \/ CreateRaises \/ ResumeRaises
  BY <1>1 DEF Create, Initialize, Write, Resume, CreateRaises, ResumeRaises
<1>2. CASE ResumeFindsBlock
  BY <1>2 DEF ResumeFindsBlock
<1>3. CASE Preflight \/ Fingerprint \/ Start
  BY <1>3 DEF Preflight, Write, Fingerprint, Raise, Start
<1>4. CASE NextBlock \/ NextEnds
  BY <1>4 DEF NextBlock, Write, Remaining, NextEnds
<1>5. CASE Mkdir
  BY <1>5 DEF Mkdir, Fails
<1>6. CASE Prepare
  <2>1. \A b \in Blocks : /\ block'[b].begun = block[b].begun
                          /\ block'[b].written = block[b].written
                          /\ block'[b].ran = block[b].ran
                          /\ b # cur => block'[b] = block[b]
    BY <1>6 DEF Prepare
  <2>2. block'[cur].seen # {}
    BY <1>6 DEF Prepare
  <2>3. /\ pc' = "hardware" /\ cur' = cur /\ cur \in Blocks
        /\ Begun(cur) /\ block[cur].written = 0
    BY <1>6 DEF Prepare
  <2>4. Files!1' /\ Files!2'
    BY ONLY Files, <2>1, <2>2 DEF Files, Begun
  <2> QED
    BY ONLY <2>1, <2>3, <2>4 DEF Files, Begun, Recovering
<1>7. CASE Hardware
  <2>1. PICK r \in Ended :
           /\ block' = [block EXCEPT ![cur].ran = r, ![cur].seen = @ \cup {world}]
           /\ pc' \in {"verify", "recordFailure"} /\ (pc' = "verify" => r = "ok")
    BY ONLY <1>7 DEF Hardware, Fails, Goto, Ended
  <2>2. \A b \in Blocks : /\ block'[b].begun = block[b].begun
                          /\ block'[b].written = block[b].written
                          /\ b # cur => block'[b] = block[b]
    BY <2>1
  <2>3. block'[cur].ran = r /\ block'[cur].seen # {}
    BY <2>1
  <2>4. /\ cur' = cur /\ cur \in Blocks /\ Begun(cur) /\ block[cur].written = 0
        /\ block[cur].failure = block'[cur].failure
    BY <1>7, <2>1 DEF Hardware
  <2>5. Files!1' /\ Files!2'
    BY ONLY Files, <2>2, <2>3, <2>4 DEF Files, Begun
  <2> QED
    BY ONLY <2>1, <2>2, <2>3, <2>4, <2>5 DEF Files, Begun, Recovering
<1>8. CASE Verify
  BY <1>8 DEF Verify, Fails, Caches
<1>9. CASE Evidence
  BY <1>9 DEF Evidence, Exists, Fails, WriteNext
<1>10. CASE Complete
  BY <1>10 DEF Complete, Write
<1>11. CASE BlockFaults
  BY <1>11 DEF BlockFaults, Fails
<1>12. CASE RecordFailure
  BY <1>12 DEF RecordFailure
<1>13. CASE RecordAfter \/ Close
  BY <1>13 DEF RecordAfter, Close, Write
<1>14. CASE Final
  BY <1>14 DEF Final, Write, Raise
<1>15. CASE Select
  BY <1>15 DEF Select, PostFails, Selection
<1>16. CASE Derive
  BY <1>16 DEF Derive, PostFails
<1>17. CASE Show
  BY <1>17 DEF Show
<1>18. CASE Document \/ PostFaults \/ PostFailed
  BY <1>18 DEF Document, PostFaults, PostFails, PostFailed, Raise
<1>19. CASE PostClose \/ Succeed
  BY <1>19 DEF PostClose, Write, Succeed
<1>20. CASE Report \/ Manifest
  BY <1>20 DEF Report, Manifest
<1>21. CASE Recover \/ RecoverRaises
  BY <1>21 DEF Recover, Recoverable, RecoverRaises
<1>22. CASE RDerive
  BY <1>22 DEF RDerive, Raise, Derived
<1>23. CASE RVerify
  BY <1>23 DEF RVerify, Raise
<1>24. CASE REvidence
  <2>1. \A b \in Blocks : /\ block'[b].begun = block[b].begun
                          /\ block'[b].ran = block[b].ran
                          /\ block'[b].seen = block[b].seen
                          /\ block'[b].failure = block[b].failure
                          /\ b # cur => block'[b] = block[b]
    BY <1>24 DEF REvidence, WriteNext
  <2>2. CASE Exists
    BY <1>24, <2>1, <2>2 DEF REvidence, Raise
  <2>3. CASE ~Exists
    <3>1. block'[cur].written = at + 1 /\ at' = at + 1
      BY <1>24, <2>3 DEF REvidence, WriteNext
    <3>2. /\ cur' = cur /\ cur \in Blocks /\ at = block[cur].written /\ at \in Nat
          /\ pc = "rEvidence"
          /\ pc' = (IF at + 1 = Recovery THEN "rComplete" ELSE "rEvidence")
      BY <1>24, <2>3 DEF REvidence, Exists, WriteNext
    <3>3. Begun(cur)
      BY <1>24 DEF REvidence
    <3>4. Files!1' /\ Files!2'
      BY ONLY Files, <2>1, <3>2, <3>3 DEF Files, Begun
    <3>5. block[cur].ran = "postprocess" /\ block[cur].failure = "postprocess" /\ at < Recovery
      BY <1>24 DEF REvidence
    <3>6. at + 1 # Recovery => at + 1 < Recovery
      BY ONLY <3>2, <3>5 DEF Recovery
    <3> QED
      BY ONLY <2>1, <3>1, <3>2, <3>4, <3>5, <3>6 DEF Files
  <2> QED
    BY <2>2, <2>3
<1>25. CASE RComplete
  BY <1>25 DEF RComplete, Write
<1>26. CASE Dies \/ WorldChanges
  BY <1>26 DEF Dies, WorldChanges
<1> QED
  BY <1>1, <1>2, <1>3, <1>4, <1>5, <1>6, <1>7, <1>8, <1>9, <1>10, <1>11, <1>12,
     <1>13, <1>14, <1>15, <1>16, <1>17, <1>18, <1>19, <1>20, <1>21, <1>22, <1>23,
     <1>24, <1>25, <1>26 DEF Next, Invocation

\* Fingerprints only grow.
LEMMA WorldsStep ==
    ASSUME Inv, Next
    PROVE  Worlds'
<1> USE CampaignHasBlocks DEF Inv, TypeOK, Control, Goto, disk, local, bounds,
        Worlds, Compared, Leq, World, BlockFiles, CampaignAssumption, Between,
        Measuring, InBlock, Failing, Postprocessing, Reporting, Recovering
<1>1. CASE Create \/ Initialize \/ Resume \/ CreateRaises \/ ResumeRaises
  BY <1>1 DEF Create, Initialize, Write, Resume, CreateRaises, ResumeRaises
<1>2. CASE ResumeFindsBlock
  BY <1>2 DEF ResumeFindsBlock
<1>3. CASE Preflight \/ Fingerprint \/ Start
  BY <1>3 DEF Preflight, Write, Fingerprint, Raise, Start
<1>4. CASE NextBlock \/ NextEnds
  BY <1>4 DEF NextBlock, Write, Remaining, NextEnds
<1>5. CASE Mkdir
  BY <1>5 DEF Mkdir, Fails
<1>6. CASE Prepare
  BY <1>6 DEF Prepare
<1>7. CASE Hardware
  BY <1>7 DEF Hardware, Fails
<1>8. CASE Verify
  BY <1>8 DEF Verify, Fails, Caches
<1>9. CASE Evidence
  BY <1>9 DEF Evidence, Exists, Fails, WriteNext
<1>10. CASE Complete
  BY <1>10 DEF Complete, Write
<1>11. CASE BlockFaults
  BY <1>11 DEF BlockFaults, Fails
<1>12. CASE RecordFailure
  BY <1>12 DEF RecordFailure
<1>13. CASE RecordAfter \/ Close
  BY <1>13 DEF RecordAfter, Close, Write
<1>14. CASE Final
  BY <1>14 DEF Final, Write, Raise
<1>15. CASE Select
  BY <1>15 DEF Select, PostFails, Selection
<1>16. CASE Derive
  BY <1>16 DEF Derive, PostFails
<1>17. CASE Show
  BY <1>17 DEF Show
<1>18. CASE Document \/ PostFaults \/ PostFailed
  BY <1>18 DEF Document, PostFaults, PostFails, PostFailed, Raise
<1>19. CASE PostClose \/ Succeed
  BY <1>19 DEF PostClose, Write, Succeed
<1>20. CASE Report \/ Manifest
  BY <1>20 DEF Report, Manifest
<1>21. CASE Recover \/ RecoverRaises
  BY <1>21 DEF Recover, Recoverable, RecoverRaises
<1>22. CASE RDerive
  BY <1>22 DEF RDerive, Raise, Derived
<1>23. CASE RVerify
  BY <1>23 DEF RVerify, Raise
<1>24. CASE REvidence
  <2>1. \A b \in Blocks : block'[b].seen = block[b].seen
    BY <1>24 DEF REvidence, WriteNext
  <2> QED
    BY <1>24, <2>1 DEF REvidence, Raise
<1>25. CASE RComplete
  BY <1>25 DEF RComplete, Write
<1>26. CASE Dies \/ WorldChanges
  BY <1>26 DEF Dies, WorldChanges
<1> QED
  BY <1>1, <1>2, <1>3, <1>4, <1>5, <1>6, <1>7, <1>8, <1>9, <1>10, <1>11, <1>12,
     <1>13, <1>14, <1>15, <1>16, <1>17, <1>18, <1>19, <1>20, <1>21, <1>22, <1>23,
     <1>24, <1>25, <1>26 DEF Next, Invocation

\* What a collection that was compared has, the representatives show.
LEMMA SuccessStep ==
    ASSUME Inv, Next
    PROVE  Success'
<1> USE CampaignHasBlocks DEF Inv, TypeOK, Control, Goto, disk, local, bounds,
        Success, Collected, Accounted, IsShown, First, Checkpoint, BlockFiles,
        CampaignAssumption, Between, Measuring, InBlock, Failing, Postprocessing,
        Reporting, Recovering
<1>1. CASE Create \/ Initialize \/ Resume \/ CreateRaises \/ ResumeRaises
  BY <1>1 DEF Create, Initialize, Write, Resume, CreateRaises, ResumeRaises
<1>2. CASE ResumeFindsBlock
  BY <1>2 DEF ResumeFindsBlock
<1>3. CASE Preflight \/ Fingerprint \/ Start
  BY <1>3 DEF Preflight, Write, Fingerprint, Raise, Start
<1>4. CASE NextBlock
  BY <1>4 DEF NextBlock, Write, Remaining
<1>5. CASE NextEnds
  BY <1>5 DEF NextEnds, Remaining
<1>6. CASE Mkdir
  <2>1. ckpt.status # "succeeded"
    BY <1>6, UnderWayIsNotDone DEF Mkdir, Measuring, InBlock, Recovering
  <2>2. \A b \in Blocks : block'[b].shown = block[b].shown
                          /\ block'[b].products = block[b].products
    BY <1>6 DEF Mkdir
  <2> QED
    BY <1>6, <2>1, <2>2, StillShown DEF Mkdir, Fails
<1>7. CASE Prepare
  BY <1>7 DEF Prepare
<1>8. CASE Hardware
  <2>1. ckpt.status # "succeeded"
    BY <1>8, UnderWayIsNotDone DEF Hardware, Measuring, InBlock, Recovering
  <2>2. \A b \in Blocks : block'[b].shown = block[b].shown
                          /\ block'[b].products = block[b].products
    BY <1>8 DEF Hardware
  <2> QED
    BY <1>8, <2>1, <2>2, StillShown DEF Hardware, Fails
<1>9. CASE Verify
  BY <1>9 DEF Verify, Fails, Caches
<1>10. CASE Evidence
  <2>1. ckpt.status # "succeeded"
    BY <1>10, UnderWayIsNotDone DEF Evidence, Measuring, InBlock, Recovering
  <2>2. \A b \in Blocks : block'[b].shown = block[b].shown
                          /\ block'[b].products = block[b].products
    BY <1>10 DEF Evidence, Exists, WriteNext
  <2> QED
    BY <1>10, <2>1, <2>2, StillShown DEF Evidence, Fails, Exists, WriteNext
<1>11. CASE Complete
  BY <1>11 DEF Complete, Write
<1>12. CASE BlockFaults
  BY <1>12 DEF BlockFaults, Fails
<1>13. CASE RecordFailure
  <2>1. ckpt.status # "succeeded"
    BY <1>13, UnderWayIsNotDone DEF RecordFailure, Measuring, InBlock, Recovering
  <2>2. \A b \in Blocks : block'[b].shown = block[b].shown
                          /\ block'[b].products = block[b].products
    BY <1>13 DEF RecordFailure
  <2> QED
    BY <1>13, <2>1, <2>2, StillShown DEF RecordFailure
<1>14. CASE RecordAfter
  BY <1>14 DEF RecordAfter
<1>15. CASE Close
  BY <1>15 DEF Close, Write
<1>16. CASE Final
  <2>1. CASE pc' = "select"
    <3>1. root'.after = root.before /\ root'.before = root.before /\ world = root.before
      BY <1>16, <2>1 DEF Final, Raise
    <3>2. ASSUME NEW b \in Blocks PROVE block[b].seen = {root.before}
      <4>1. block[b].seen # {} /\ block[b].seen \subseteq World
        BY <1>16 DEF Final, Files, Ended
      <4>2. \A w \in block[b].seen : Compared /\ Leq(root.before, w) /\ Leq(w, world)
        BY DEF Worlds
      <4>3. \A w \in block[b].seen : w = root.before
        BY <3>1, <4>1, <4>2, LeqBothWays DEF Compared
      <4> QED
        BY <4>1, <4>3
    <3>3. root.before \in World
      BY <3>1
    <3>4. /\ ckpt'.completed = Blocks /\ ckpt'.status = "collection_succeeded"
          /\ root'.document = root.document /\ root'.selected = root.selected
      BY <1>16, <2>1 DEF Final, Write, Raise
    <3> QED
      BY <1>16, <2>1, <3>1, <3>2, <3>3, <3>4 DEF Final
  <2>2. CASE pc' # "select" /\ UNCHANGED root
    BY <1>16, <2>2 DEF Final, Write, Raise
  <2>3. CASE pc' # "select" /\ root' # root
    <3>1. ckpt'.status = "failed" /\ pc' = "down"
      BY <1>16, <2>3 DEF Final, Write, Raise
    <3>2. root'.document = root.document /\ root'.selected = root.selected
      BY <1>16, <2>3 DEF Final
    <3> QED
      BY <1>16, <3>1, <3>2 DEF Final
  <2> QED
    BY <2>1, <2>2, <2>3
<1>17. CASE Select
  <2>1. Selection = First
    BY <1>17, FirstIsSelected DEF Select, Accounted
  <2> QED
    <3>1. CASE pc' = "postFailed"
      BY <1>17, <3>1 DEF Select, PostFails
    <3>2. CASE pc' = "derive"
      <4>1. /\ root'.selected = First /\ root'.document = root.document
            /\ root'.before = root.before /\ root'.after = root.after
        BY <1>17, <2>1, <3>2 DEF Select, PostFails
      <4>2. done' = {} /\ UNCHANGED <<ckpt, block>>
        BY <1>17 DEF Select
      <4>3. Collected /\ Collected'
        BY <1>17, <4>1, <4>2 DEF Select
      <4> QED
        BY <3>2, <4>1, <4>2, <4>3, FirstIsBlock
    <3> QED
      BY <1>17, <3>1, <3>2 DEF Select, PostFails
<1>18. CASE Derive
  <2>1. PICK c \in Candidates \ done, p \in Products :
           /\ block[root.selected[c]].products # "none" => p = block[root.selected[c]].products
           /\ cur' = root.selected[c]
           /\ block' = [block EXCEPT ![root.selected[c]].products = p]
           /\ IF p = "all" THEN pc' = "show" ELSE pc' = "postFailed"
    BY ONLY <1>18 DEF Derive, PostFails, Goto
  <2>2. root.selected[c] = <<1, c>> /\ <<1, c>> \in Blocks
    BY <1>18, FirstIsBlock DEF Derive
  <2>3. UNCHANGED <<root, ckpt, done>>
    BY <1>18 DEF Derive
  <2>4. \A b \in Blocks : block'[b].shown = block[b].shown /\ block'[b].seen = block[b].seen
                          /\ (block[b].products = "all" => block'[b].products = "all")
    BY ONLY <2>1, <2>2, block \in [Blocks -> BlockFiles] DEF BlockFiles
  <2>5. pc' = "show" => block'[cur'].products = "all"
    BY <2>1, <2>2
  <2>6. pc' \in {"show", "postFailed"}
    BY <2>1
  <2> QED
    BY <1>18, <2>1, <2>2, <2>3, <2>4, <2>5, <2>6, FirstIsBlock DEF Derive
<1>19. CASE Show
  <2>1. PICK c \in Candidates : cur = <<1, c>> /\ block[cur].products = "all"
    BY <1>19 DEF Show
  <2>2. /\ UNCHANGED <<root, ckpt>> /\ done' = done \cup {c}
        /\ pc' = (IF done' = Candidates THEN "document" ELSE "derive")
    BY <1>19, <2>1 DEF Show
  <2>3. \A b \in Blocks : /\ block'[b].products = block[b].products
                          /\ block'[b].seen = block[b].seen
                          /\ b = cur => block'[b].shown
                          /\ b # cur => block'[b] = block[b]
    BY <1>19 DEF Show
  <2>4. pc \in Postprocessing \ {"select"} /\ Success /\ cur \in Blocks
    BY <1>19 DEF Show
  <2>5. Collected'
    BY ONLY <2>2, <2>3, <2>4 DEF Success, Collected, Postprocessing
  <2>6. \A d \in Candidates : IsShown(d) \/ d = c => IsShown(d)'
    BY ONLY <2>1, <2>3, <2>4, FirstIsBlock DEF IsShown
  <2>7. done' \subseteq Candidates /\ \A d \in done' : IsShown(d)'
    BY ONLY <2>1, <2>2, <2>4, <2>6, done \subseteq Candidates DEF Success
  <2>8. root'.selected = First /\ (root'.document => \A d \in Candidates : IsShown(d)')
    BY ONLY <2>2, <2>4, <2>6 DEF Success
  <2>9. ckpt'.status = "succeeded" => root'.document
    BY ONLY <2>2, <2>4 DEF Success
  <2> QED
    BY ONLY <2>2, <2>5, <2>7, <2>8, <2>9 DEF Success, Postprocessing, IsShown, First
<1>20. CASE Document \/ PostFaults \/ PostFailed
  BY <1>20 DEF Document, PostFaults, PostFails, PostFailed, Raise
<1>21. CASE PostClose
  BY <1>21 DEF PostClose, Write
<1>22. CASE Succeed
  BY <1>22 DEF Succeed, Write
<1>23. CASE Report
  BY <1>23 DEF Report
<1>24. CASE Manifest
  BY <1>24 DEF Manifest
<1>25. CASE Recover \/ RecoverRaises
  BY <1>25 DEF Recover, Recoverable, RecoverRaises
<1>26. CASE RDerive
  BY <1>26 DEF RDerive, Raise, Derived
<1>27. CASE RVerify
  BY <1>27 DEF RVerify, Raise
<1>28. CASE REvidence
  <2>1. ckpt.status # "succeeded"
    BY <1>28, UnderWayIsNotDone DEF REvidence, Measuring, InBlock, Recovering
  <2>2. \A b \in Blocks : block'[b].shown = block[b].shown
                          /\ block'[b].products = block[b].products
    BY <1>28 DEF REvidence, Exists, WriteNext
  <2> QED
    BY <1>28, <2>1, <2>2, StillShown DEF REvidence, Exists, Raise, WriteNext
<1>29. CASE RComplete
  BY <1>29 DEF RComplete, Write
<1>30. CASE Dies \/ WorldChanges
  BY <1>30 DEF Dies, WorldChanges
<1> QED
  BY <1>1, <1>2, <1>3, <1>4, <1>5, <1>6, <1>7, <1>8, <1>9, <1>10, <1>11, <1>12,
     <1>13, <1>14, <1>15, <1>16, <1>17, <1>18, <1>19, <1>20, <1>21, <1>22, <1>23,
     <1>24, <1>25, <1>26, <1>27, <1>28, <1>29, <1>30 DEF Next, Invocation

\* The report and the manifest are of what is there.
LEMMA CurrentStep ==
    ASSUME Inv, Next
    PROVE  Current'
<1> USE DEF Inv, TypeOK, Control, Goto, disk, local, bounds, Current, Reported,
        Contents, Completes, Between, Measuring, InBlock, Failing, Postprocessing,
        Reporting, Recovering
<1>1. CASE Create \/ Initialize \/ Resume \/ CreateRaises \/ ResumeRaises
  BY <1>1 DEF Create, Initialize, Write, Resume, CreateRaises, ResumeRaises
<1>2. CASE ResumeFindsBlock
  BY <1>2 DEF ResumeFindsBlock
<1>3. CASE Preflight \/ Fingerprint \/ Start
  BY <1>3 DEF Preflight, Write, Fingerprint, Raise, Start
<1>4. CASE NextBlock \/ NextEnds
  BY <1>4 DEF NextBlock, Write, Remaining, NextEnds
<1>5. CASE Mkdir
  BY <1>5 DEF Mkdir, Fails
<1>6. CASE Prepare
  BY <1>6 DEF Prepare
<1>7. CASE Hardware
  BY <1>7 DEF Hardware, Fails
<1>8. CASE Verify
  BY <1>8 DEF Verify, Fails, Caches
<1>9. CASE Evidence
  BY <1>9 DEF Evidence, Exists, Fails, WriteNext
<1>10. CASE Complete
  BY <1>10 DEF Complete, Write
<1>11. CASE BlockFaults
  BY <1>11 DEF BlockFaults, Fails
<1>12. CASE RecordFailure
  BY <1>12 DEF RecordFailure
<1>13. CASE RecordAfter \/ Close
  BY <1>13 DEF RecordAfter, Close, Write
<1>14. CASE Final
  BY <1>14 DEF Final, Write, Raise
<1>15. CASE Select
  BY <1>15 DEF Select, PostFails, Selection
<1>16. CASE Derive
  BY <1>16 DEF Derive, PostFails
<1>17. CASE Show
  BY <1>17 DEF Show
<1>18. CASE Document \/ PostFaults \/ PostFailed
  BY <1>18 DEF Document, PostFaults, PostFails, PostFailed, Raise
<1>19. CASE PostClose \/ Succeed
  BY <1>19 DEF PostClose, Write, Succeed
<1>20. CASE Report \/ Manifest
  BY <1>20 DEF Report, Manifest
<1>21. CASE Recover \/ RecoverRaises
  BY <1>21 DEF Recover, Recoverable, RecoverRaises
<1>22. CASE RDerive
  BY <1>22 DEF RDerive, Raise, Derived
<1>23. CASE RVerify
  BY <1>23 DEF RVerify, Raise
<1>24. CASE REvidence
  BY <1>24 DEF REvidence, Exists, Raise, WriteNext
<1>25. CASE RComplete
  BY <1>25 DEF RComplete, Write
<1>26. CASE Dies \/ WorldChanges
  BY <1>26 DEF Dies, WorldChanges
<1> QED
  BY <1>1, <1>2, <1>3, <1>4, <1>5, <1>6, <1>7, <1>8, <1>9, <1>10, <1>11, <1>12,
     <1>13, <1>14, <1>15, <1>16, <1>17, <1>18, <1>19, <1>20, <1>21, <1>22, <1>23,
     <1>24, <1>25, <1>26 DEF Next, Invocation

\* Every block is accounted for.
LEMMA AccountedStep ==
    ASSUME Inv, Next
    PROVE  Accounted'
<1> USE CampaignHasBlocks DEF Inv, TypeOK, Control, Goto, disk, local, bounds,
        Files, Accounted, Begun, Completes, Checkpoint, BlockFiles, Result,
        Recovery, CampaignAssumption, Between, Measuring, InBlock, Failing,
        Postprocessing, Reporting, Recovering
<1>1. CASE Create \/ Initialize \/ Resume \/ CreateRaises \/ ResumeRaises
  BY <1>1 DEF Create, Initialize, Write, Resume, CreateRaises, ResumeRaises
<1>2. CASE ResumeFindsBlock
  BY <1>2 DEF ResumeFindsBlock
<1>3. CASE Preflight \/ Fingerprint \/ Start
  BY <1>3 DEF Preflight, Write, Fingerprint, Raise, Start
<1>4. CASE NextBlock \/ NextEnds
  BY <1>4 DEF NextBlock, Write, Remaining, NextEnds
<1>5. CASE Mkdir
  BY <1>5 DEF Mkdir, Fails
<1>6. CASE Prepare
  BY <1>6 DEF Prepare
<1>7. CASE Hardware
  BY <1>7 DEF Hardware, Fails
<1>8. CASE Verify
  BY <1>8 DEF Verify, Fails, Caches
<1>9. CASE Evidence
  BY <1>9 DEF Evidence, Exists, Fails, WriteNext
<1>10. CASE Complete
  BY <1>10 DEF Complete, Write
<1>11. CASE BlockFaults
  BY <1>11 DEF BlockFaults, Fails
<1>12. CASE RecordFailure
  BY <1>12 DEF RecordFailure
<1>13. CASE RecordAfter
  BY <1>13 DEF RecordAfter
<1>14. CASE Close
  BY <1>14 DEF Close, Write
<1>15. CASE Final
  BY <1>15 DEF Final, Write, Raise
<1>16. CASE Select
  BY <1>16 DEF Select, PostFails, Selection
<1>17. CASE Derive
  BY <1>17 DEF Derive, PostFails
<1>18. CASE Show
  BY <1>18 DEF Show
<1>19. CASE Document \/ PostFaults \/ PostFailed
  BY <1>19 DEF Document, PostFaults, PostFails, PostFailed, Raise
<1>20. CASE PostClose
  BY <1>20 DEF PostClose, Write
<1>21. CASE Succeed
  BY <1>21 DEF Succeed, Write
<1>22. CASE Report \/ Manifest
  BY <1>22 DEF Report, Manifest
<1>23. CASE Recover \/ RecoverRaises
  BY <1>23 DEF Recover, Recoverable, RecoverRaises
<1>24. CASE RDerive
  BY <1>24 DEF RDerive, Raise, Derived
<1>25. CASE RVerify
  BY <1>25 DEF RVerify, Raise
<1>26. CASE REvidence
  BY <1>26 DEF REvidence, Exists, Raise, WriteNext
<1>27. CASE RComplete
  <2>1. /\ ckpt'.completed = ckpt.completed \cup {cur} /\ ckpt.failed = cur
        /\ ckpt'.current = None /\ ckpt'.failed = None /\ UNCHANGED block
    BY <1>27 DEF RComplete, Write
  <2>2. block[cur].written = Recovery /\ block[cur].ran = "postprocess"
        /\ block[cur].failure = "postprocess"
    BY <1>27 DEF RComplete
  <2> QED
    BY <2>1, <2>2
<1>28. CASE Dies \/ WorldChanges
  BY <1>28 DEF Dies, WorldChanges
<1> QED
  BY <1>1, <1>2, <1>3, <1>4, <1>5, <1>6, <1>7, <1>8, <1>9, <1>10, <1>11, <1>12,
     <1>13, <1>14, <1>15, <1>16, <1>17, <1>18, <1>19, <1>20, <1>21, <1>22, <1>23,
     <1>24, <1>25, <1>26, <1>27, <1>28 DEF Next, Invocation

-----------------------------------------------------------------------------
LEMMA InitInv ==
    ASSUME Init
    PROVE  Inv
<1> USE CampaignHasBlocks DEF Init, CampaignAssumption
<1>1. <<1, Reference>> \in Blocks
  BY DEF Blocks, Conditions
<1>2. TypeOK
  BY <1>1 DEF TypeOK, Fresh, Checkpoint, Status, BlockFiles, Products, Problems, World,
              Recovery, Steps
<1>3. Control /\ Accounted
  BY DEF Control, Accounted, Begun, Fresh, Between, Measuring, InBlock, Failing,
         Postprocessing, Reporting, Recovering
<1>4. Files
  BY DEF Files, Begun, Ended, Recovering
<1>5. Worlds
  BY DEF Worlds, Measuring, InBlock, Failing, Recovering
<1>6. Success /\ Current
  BY DEF Success, Current, Fresh, Postprocessing
<1> QED
  BY <1>2, <1>3, <1>4, <1>5, <1>6 DEF Inv

LEMMA StepInv ==
    ASSUME Inv, [Next]_vars
    PROVE  Inv'
<1>1. CASE Next
  BY <1>1, TypeStep, ControlStep, FilesStep, WorldsStep, SuccessStep, CurrentStep,
     AccountedStep DEF Inv
<1>2. CASE UNCHANGED vars
  <2> USE <1>2 DEF vars, disk, local, bounds
  <2>1. TypeOK'
    BY DEF Inv, TypeOK
  <2>2. Control' /\ Files' /\ Worlds'
    BY DEF Inv, Control, Files, Begun, Worlds, Compared
  <2>3. Success' /\ Accounted'
    BY DEF Inv, Success, Collected, IsShown, Accounted, Begun, Completes
  <2>4. Current'
    BY DEF Inv, Current, Reported, Contents, Completes
  <2> QED
    BY <2>1, <2>2, <2>3, <2>4 DEF Inv
<1> QED
  BY <1>1, <1>2

LEMMA Invariance ==
    Spec => []Inv
  BY InitInv, StepInv, PTL DEF Spec

\* Every file and every variable of an invocation is well-typed.
THEOREM TypeCorrect ==
    Spec => []TypeOK
<1>1. Inv => TypeOK
  BY DEF Inv
<1> QED
  BY <1>1, Invariance, PTL

\* Whatever dies in between (a run, a resume, a recovery), every block that was
\* begun is accounted for in the checkpoint, and no resume begins one twice.
THEOREM BlocksAccountedHolds ==
    Spec => []BlocksAccounted
<1>1. Inv => BlocksAccounted
  BY DEF Inv, Files, Accounted, BlocksAccounted
<1> QED
  BY <1>1, Invariance, PTL

\* A campaign that has succeeded is whole: every block with the one model and
\* cache it began with, and the first run of each candidate shown.
THEOREM SuccessIsWholeHolds ==
    Spec => []SuccessIsWhole
<1>1. Inv => SuccessIsWhole
  BY FirstIsBlock DEF Inv, Success, Collected, IsShown, SuccessIsWhole
<1> QED
  BY <1>1, Invariance, PTL

\* An invocation that has reported leaves a manifest of what is there and a
\* report that says what the checkpoint says.
THEOREM ReportIsCurrentHolds ==
    Spec => []ReportIsCurrent
<1>1. Inv => ReportIsCurrent
  <2> SUFFICES ASSUME Inv, pc = "down", exit = "reported"
               PROVE  /\ root.manifest = Contents
                      /\ root.report.status = ckpt.status
                      /\ ckpt.status = "succeeded" => root.report.complete
    BY DEF ReportIsCurrent
  <2>1. root.manifest = Contents /\ root.report = Reported
    BY DEF Inv, Current
  <2>2. ckpt.status = "succeeded" =>
            (\A b \in Blocks : Completes(b)) /\ root.document
    BY DEF Inv, Success, Collected, Accounted
  <2>3. root.report.status = ckpt.status
    BY <2>1 DEF Reported
  <2>4. root.report.complete = ((\A b \in Blocks : Completes(b)) /\ root.document)
    <3> DEFINE whole == (\A b \in Blocks : Completes(b)) /\ root.document
    <3>1. root.report = [status |-> ckpt.status, complete |-> whole]
      BY <2>1 DEF Reported
    <3> HIDE DEF whole
    <3>2. root.report.complete = whole
      BY <3>1
    <3> QED
      BY <3>2 DEF whole
  <2> QED
    BY <2>1, <2>2, <2>3, <2>4, Zenon
<1> QED
  BY <1>1, Invariance, PTL
=============================================================================
