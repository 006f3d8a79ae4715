-------------------------- MODULE OrderedHandoff ---------------------------
(***************************************************************************)
(* What a stage of the pipeline promises about the events it takes over:   *)
(* it is done with them one at a time, in the order in which it took them, *)
(* and it takes and finishes each only once.                               *)
(***************************************************************************)
EXTENDS Naturals, Sequences

CONSTANT Events

VARIABLES
    accepted,   \* the events taken over, oldest first
    finished    \* the events the stage is done with, oldest first

Init == accepted = <<>> /\ finished = <<>>

Taken == {accepted[i] : i \in DOMAIN accepted}

Accept(e) ==
    /\ e \notin Taken
    /\ accepted' = Append(accepted, e)
    /\ UNCHANGED finished

Finish ==
    /\ Len(finished) < Len(accepted)
    /\ finished' = Append(finished, accepted[Len(finished) + 1])
    /\ UNCHANGED accepted

Next == Finish \/ \E e \in Events : Accept(e)

Spec == Init /\ [][Next]_<<accepted, finished>>

============================================================================
