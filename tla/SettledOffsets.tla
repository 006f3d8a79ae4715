--------------------------- MODULE SettledOffsets ---------------------------
(***************************************************************************)
(* What a consumer group promises about the offsets it commits: a commit   *)
(* covers only records the consumer is through with, and no commit moves   *)
(* back over one that came before.                                         *)
(***************************************************************************)
EXTENDS Integers

CONSTANT Partitions

VARIABLES
    settled,    \* the records, as <<partition, offset>>, that are dealt with
    committed   \* the group's offset on each partition, -1 before any commit

Init == settled = {} /\ committed = [p \in Partitions |-> -1]

Settle == settled \subseteq settled' /\ UNCHANGED committed

Commit(p) ==
    /\ committed[p] <= committed'[p]
    /\ \A o \in 0..(committed'[p] - 1) : <<p, o>> \in settled
    /\ committed' = [committed EXCEPT ![p] = committed'[p]]
    /\ UNCHANGED settled

Next == Settle \/ \E p \in Partitions : Commit(p)

Spec == Init /\ [][Next]_<<settled, committed>>

============================================================================
