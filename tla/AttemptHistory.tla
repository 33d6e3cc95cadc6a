--------------------------- MODULE AttemptHistory ---------------------------
(***************************************************************************)
(* What an experiment promises of its attempts, whatever happens to the    *)
(* runner: the history is a log. An attempt enters it at the end and       *)
(* unfinished, when all before it are finished, and leaves that state      *)
(* once. A trial is attempted again only after one retryable failure, a    *)
(* formal trial only after every pilot has succeeded, and the number of    *)
(* attempts is limited.                                                    *)
(*                                                                         *)
(* There is no runner here, no crash and no resume: Experiment implements  *)
(* this with the checkpoint on disk.                                       *)
(***************************************************************************)
EXTENDS Checkpoint

CONSTANT NumPilots  \* the first trials of the schedule are the pilots

VARIABLE history

Settled == \A i \in DOMAIN history : Terminal(history[i])

\* Trial p has succeeded.
Succeeds(p) == \E i \in Of(history, p) : history[i].status = "succeeded"

Begin ==
    \E r \in Record :
        /\ Settled /\ Len(history) < MaxAttempts
        /\ r.status = "running"
        /\ r.number = IF Of(history, r.trial) = {} THEN 1 ELSE 2
        /\ \A i \in Of(history, r.trial) :
               history[i].number = 1 /\ history[i].class = "retryable"
        /\ r.trial > NumPilots => \A p \in 1 .. NumPilots : Succeeds(p)
        /\ history' = Append(history, r)

End ==
    /\ history # << >>
    /\ LET last == history[Len(history)]
       IN  /\ ~Terminal(last)
           /\ \E s \in Record : /\ Terminal(s) /\ SameAttempt(last, s)
                                /\ history' = [history EXCEPT ![Len(history)] = s]

Init == history = << >>
Next == Begin \/ End
Spec == Init /\ [][Next]_history

-----------------------------------------------------------------------------
(* Consequences                                                            *)

\* Only the last attempt may be unfinished.
LastMayRun ==
    \A i \in DOMAIN history : i # Len(history) => Terminal(history[i])

\* A trial has been attempted again only after a retryable failure.
RetriesFollowFailures ==
    \A i, j \in DOMAIN history :
        i < j /\ history[i].trial = history[j].trial
            => history[i].class = "retryable"

\* Every pilot had succeeded when a formal trial was attempted.
PilotsComeFirst ==
    \A i \in DOMAIN history : history[i].trial > NumPilots =>
        \A p \in 1 .. NumPilots : \E j \in 1 .. i - 1 :
            history[j].trial = p /\ history[j].status = "succeeded"

Inv == /\ history \in Seq(Record) /\ SoundHistory(history)
       /\ LastMayRun /\ RetriesFollowFailures /\ PilotsComeFirst
=============================================================================
