---------------------------- MODULE PublishedOnce ----------------------------
(***************************************************************************)
(* What the publishers promise of an output directory: it appears whole, in  *)
(* one step and as the work of one writer, and is never replaced.            *)
(***************************************************************************)
CONSTANTS
    Outputs, Writers,
    Contents(_)         \* the names an output consists of

VARIABLE published      \* output -> the writer of each of its files

Nothing == [n \in {} |-> n]

Init == published = [o \in Outputs |-> Nothing]

Publish(o, w) ==
    /\ published[o] = Nothing
    /\ published' = [published EXCEPT ![o] = [n \in Contents(o) |-> w]]

Next == \E o \in Outputs, w \in Writers : Publish(o, w)

Spec == Init /\ [][Next]_published
=============================================================================
