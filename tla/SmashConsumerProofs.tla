------------------------- MODULE SmashConsumerProofs -------------------------
(***************************************************************************)
(* Proofs about SmashConsumer, for any set of partitions, any routes, any  *)
(* no-output policies and any bounds.                                      *)
(***************************************************************************)
EXTENDS SmashConsumer, TLAPS

(***************************************************************************)
(* The inductive invariant behind the safety properties.                   *)
(***************************************************************************)
Accounted(p, o) == Settled(p, o) \/ Recorded(p, o)

AccountedBelow(p, n) == \A o \in base[p]..(n - 1) : Accounted(p, o)

\* Commits are ordered and stay between where the group started and what the
\* consumer has taken.
InOrder(cs, lo, least, hi) ==
    /\ \A i \in DOMAIN cs : lo < cs[i] /\ least <= cs[i] /\ cs[i] <= hi
    /\ \A i, j \in DOMAIN cs : i <= j => cs[i] <= cs[j]

OrderedAt(p) ==
    /\ base[p] <= position[p]
    /\ position[p] <= Len(log[p])
    /\ committed[p] <= position[p]
    /\ committed[p] # NoOffset => base[p] < committed[p]
    /\ InOrder(pending[p], base[p], committed[p], position[p])

OffsetsOrdered == \A p \in Partitions : OrderedAt(p)

\* What the consumer task knows of the message it is working on.
PassConsistent ==
    LET p == cur[1]  o == cur[2]
        slots == RoutedSlots(p, Message(p, o))
    IN  pc \notin {"down", "recv"} =>
          /\ base[p] <= o
          /\ position[p] = o + 1
          /\ Message(p, o) # Malformed
          /\ pc = "deliver" =>
                /\ todo # {}
                /\ todo \subseteq slots
                /\ \A s \in slots \ todo : Required(s) => <<cur, s>> \in acked
          /\ pc = "dlq_no_output" =>
                /\ slots = {}
                /\ policy.allow_no_output
                /\ policy.no_output_sink = "dlq"
          /\ pc = "commit" => Settled(p, o)

CommitsCovered ==
    \A p \in Partitions : \A c \in Commits(p) : AccountedBelow(p, c)

ReachedInLog ==
    \A d \in tried : d[1][2] < Len(log[d[1][1]])

IInv ==
    /\ TypeOK
    /\ OffsetsOrdered
    /\ PassConsistent
    /\ CommitsCovered
    /\ ReachedInLog
    /\ CommitIsEarned
    /\ PassedMessagesAccounted
    /\ RequiredGatesLater

-----------------------------------------------------------------------------
(***************************************************************************)
(* Facts about routing.                                                    *)
(***************************************************************************)
\* A routed destination is a pair of indices into the configuration, and
\* whether it is required is a Boolean of that configuration.
LEMMA RoutedSlotsType ==
    ASSUME NEW p, NEW e, NEW s \in RoutedSlots(p, e)
    PROVE  /\ s \in Slots
           /\ Required(s) \in BOOLEAN
<1>1. PICK r \in DOMAIN Routes : s \in {r} \X DOMAIN Routes[r].destinations
    BY DEF RoutedSlots
<1>2. Routes[r] \in SmashRoutes /\ r \in Nat
    BY ConstantsAssumption
<1>3. Routes[r].destinations \in Seq(Destinations)
    BY <1>2 DEF SmashRoutes
<1>4. s[1] = r /\ s[2] \in DOMAIN Routes[r].destinations /\ s = <<s[1], s[2]>>
    BY <1>1
<1>5. s[2] \in Nat /\ Routes[r].destinations[s[2]] \in Destinations
    BY <1>3, <1>4
<1>6. s \in Slots
    BY <1>2, <1>4, <1>5 DEF Slots
<1>7. Required(s) \in BOOLEAN
    BY <1>4, <1>5 DEF Required, Destinations
<1> QED
    BY <1>6, <1>7

\* The order of the delivery loops is strict: no destination comes both
\* before and after another.
LEMMA AttemptedBeforeStrict ==
    ASSUME NEW s \in Slots, NEW t \in Slots, AttemptedBefore(t, s)
    PROVE  s # t /\ ~AttemptedBefore(s, t)
  BY DEF AttemptedBefore, Slots

-----------------------------------------------------------------------------
(***************************************************************************)
(* Type correctness.                                                       *)
(***************************************************************************)
\* Every variable has its type before the process starts.
LEMMA InitTypeOK == Init => TypeOK
  BY ConstantsAssumption DEF Init, TypeOK, NoOffset

\* An assignment leaves offsets that are natural numbers.
LEMMA AssignType ==
    ASSUME TypeOK, Assign
    PROVE  /\ pending' \in [Partitions -> Seq(Nat)]
           /\ position' \in [Partitions -> Nat]
           /\ base' \in [Partitions -> Nat]
<1>1. ASSUME NEW p \in Partitions
      PROVE  /\ StartOffset(p) \in Nat
             /\ Len(log[p]) \in Nat
             /\ base[p] \in Nat
  BY <1>1 DEF TypeOK, StartOffset
<1>2. <<>> \in Seq(Nat)
  OBVIOUS
<1> QED
  BY <1>1, <1>2 DEF Assign

\* Every action of the consumer and of Kafka keeps every variable in its type.
LEMMA NextTypeOK == TypeOK /\ [Next]_vars => TypeOK'
<1> SUFFICES ASSUME TypeOK, [Next]_vars
             PROVE  TypeOK'
  OBVIOUS
<1> USE ConstantsAssumption
<1>1. ASSUME NEW p \in Partitions, NEW m \in Messages, Produce(p, m)
      PROVE  TypeOK'
  BY <1>1 DEF Produce, TypeOK, history
<1>2. ASSUME NEW p \in Partitions, ApplyCommit(p)
      PROVE  TypeOK'
  <2>1. Head(pending[p]) \in Nat /\ Tail(pending[p]) \in Seq(Nat)
    BY <1>2 DEF ApplyCommit, TypeOK
  <2> QED
    BY <1>2, <2>1 DEF ApplyCommit, TypeOK, history
<1>3. ASSUME NEW p \in Partitions, LoseCommit(p)
      PROVE  TypeOK'
  <2>1. Tail(pending[p]) \in Seq(Nat)
    BY <1>3 DEF LoseCommit, TypeOK
  <2> QED
    BY <1>3, <2>1 DEF LoseCommit, TypeOK, history
<1>4. CASE Rebalance
  <2>1. /\ pending' \in [Partitions -> Seq(Nat)]
        /\ position' \in [Partitions -> Nat]
        /\ base' \in [Partitions -> Nat]
    BY <1>4, AssignType DEF Rebalance
  <2>2. disruptions' \in 0..MaxDisruptions
    BY <1>4 DEF Rebalance, TypeOK
  <2>3. pc' = pc
    BY <1>4 DEF Rebalance
  <2> QED
    BY <1>4, <2>1, <2>2, <2>3 DEF Rebalance, Assign, TypeOK
<1>5. CASE Start
  <2>1. /\ pending' \in [Partitions -> Seq(Nat)]
        /\ position' \in [Partitions -> Nat]
        /\ base' \in [Partitions -> Nat]
    BY <1>5, AssignType DEF Start
  <2> QED
    BY <1>5, <2>1 DEF Start, Assign, TypeOK
<1>6. CASE Crash
  <2>1. /\ pc' = "down" /\ todo' = {} /\ disruptions' = disruptions + 1
        /\ disruptions < MaxDisruptions
        /\ UNCHANGED <<policy, log, committed, pending, position, cur, dlq, base,
                       seen, acked, tried, errored>>
    BY <1>6 DEF Crash, kafka, history
  <2>2. disruptions' \in 0..MaxDisruptions
    BY <2>1 DEF TypeOK
  <2> QED
    BY <2>1, <2>2 DEF TypeOK
<1>7. ASSUME NEW p \in Partitions, Take(p)
      PROVE  /\ policy' \in NoOutputPolicies
             /\ log' \in [Partitions -> Seq(Messages)]
             /\ committed' \in [Partitions -> Nat \cup {NoOffset}]
             /\ pending' \in [Partitions -> Seq(Nat)]
             /\ position' \in [Partitions -> Nat]
             /\ cur' \in Partitions \X Nat
             /\ dlq' \subseteq Partitions \X Nat
             /\ disruptions' \in 0..MaxDisruptions
             /\ base' \in [Partitions -> Nat]
             /\ seen' \subseteq Partitions \X Nat
             /\ acked' \subseteq (Partitions \X Nat) \X Slots
             /\ tried' \subseteq (Partitions \X Nat) \X Slots
  <2>1. /\ cur' = <<p, position[p]>>
        /\ position' = [position EXCEPT ![p] = @ + 1]
        /\ seen' = seen \cup {<<p, position[p]>>}
        /\ UNCHANGED <<policy, log, committed, pending, dlq, disruptions, base,
                       acked, tried>>
    BY <1>7 DEF Take, kafka
  <2>2. position[p] \in Nat
    BY DEF TypeOK
  <2>3. /\ cur' \in Partitions \X Nat
        /\ seen' \subseteq Partitions \X Nat
    BY <2>1, <2>2 DEF TypeOK
  <2>4. position' \in [Partitions -> Nat]
    BY <2>1, <2>2 DEF TypeOK
  <2> QED
    BY <2>1, <2>3, <2>4 DEF TypeOK
<1>8. ASSUME NEW p \in Partitions, RejectMalformed(p)
      PROVE  TypeOK'
  <2>1. Take(p)
    BY <1>8 DEF RejectMalformed
  <2>2. /\ errored' \subseteq Partitions \X Nat
        /\ pc' = pc /\ todo' = todo
    BY <1>8 DEF RejectMalformed, TypeOK
  <2> QED
    BY <1>7, <2>1, <2>2 DEF TypeOK
<1>9. ASSUME NEW p \in Partitions, BeginDelivery(p)
      PROVE  TypeOK'
  <2>1. Take(p)
    BY <1>9 DEF BeginDelivery
  <2>2. todo' \subseteq Slots
    BY <1>9, RoutedSlotsType DEF BeginDelivery
  <2>3. errored' = errored /\ pc' = "deliver"
    BY <1>9 DEF BeginDelivery
  <2> QED
    BY <1>7, <2>1, <2>2, <2>3 DEF TypeOK
<1>10. ASSUME NEW p \in Partitions, HandleNoOutput(p)
       PROVE  TypeOK'
  <2>1. Take(p)
    BY <1>10 DEF HandleNoOutput
  <2>2. /\ pc' \in {"recv", "commit", "dlq_no_output"}
        /\ todo' = todo
    BY <1>10, <2>1 DEF HandleNoOutput, Take
  <2>3. errored' \subseteq Partitions \X Nat
    <3>1. <<p, position[p]>> \in Partitions \X Nat
      BY DEF TypeOK
    <3>2. errored' \in {errored, errored \cup {<<p, position[p]>>}}
      BY <1>10 DEF HandleNoOutput
    <3> QED
      BY <3>1, <3>2 DEF TypeOK
  <2> QED
    BY <1>7, <2>1, <2>2, <2>3 DEF TypeOK
<1>10a. ASSUME NEW s \in todo, AfterAttempt(s),
              acked' \subseteq (Partitions \X Nat) \X Slots,
              tried' \subseteq (Partitions \X Nat) \X Slots
       PROVE  TypeOK'
  <2>1. pc' \in {"commit", "deliver"} /\ todo' \subseteq Slots
    BY <1>10a DEF AfterAttempt, TypeOK
  <2> QED
    BY <1>10a, <2>1 DEF AfterAttempt, TypeOK, kafka
<1>11. ASSUME NEW s \in todo, DeliverOk(s)
       PROVE  TypeOK'
  <2>1. <<cur, s>> \in (Partitions \X Nat) \X Slots
    BY DEF TypeOK
  <2>2. /\ acked' \subseteq (Partitions \X Nat) \X Slots
        /\ tried' \subseteq (Partitions \X Nat) \X Slots
    BY <1>11, <2>1 DEF DeliverOk, TypeOK
  <2>3. AfterAttempt(s)
    BY <1>11 DEF DeliverOk
  <2> QED
    BY <1>10a, <2>2, <2>3
<1>12. ASSUME NEW s \in todo, DeliverOptionalErr(s)
       PROVE  TypeOK'
  <2>1. <<cur, s>> \in (Partitions \X Nat) \X Slots
    BY DEF TypeOK
  <2>2. /\ acked' \subseteq (Partitions \X Nat) \X Slots
        /\ tried' \subseteq (Partitions \X Nat) \X Slots
    BY <1>12, <2>1 DEF DeliverOptionalErr, ErrEffect, TypeOK
  <2>3. AfterAttempt(s)
    BY <1>12 DEF DeliverOptionalErr
  <2> QED
    BY <1>10a, <2>2, <2>3
<1>13. ASSUME NEW s \in todo, DeliverRequiredErr(s)
       PROVE  TypeOK'
  <2>1. <<cur, s>> \in (Partitions \X Nat) \X Slots
    BY DEF TypeOK
  <2>2. /\ acked' \subseteq (Partitions \X Nat) \X Slots
        /\ tried' \subseteq (Partitions \X Nat) \X Slots
    BY <1>13, <2>1 DEF DeliverRequiredErr, ErrEffect, TypeOK
  <2> QED
    BY <1>13, <2>2 DEF DeliverRequiredErr, TypeOK, kafka
<1>14. CASE DlqPublishOk
  BY <1>14 DEF DlqPublishOk, TypeOK, kafka, history
<1>15. CASE DlqPublishErr
  BY <1>15 DEF DlqPublishErr, TypeOK, kafka
<1>16. CASE CommitMessage
  BY <1>16 DEF CommitMessage, TypeOK, history
<1>17. CASE CommitRefused
  BY <1>17 DEF CommitRefused, TypeOK, kafka
<1>18. CASE UNCHANGED vars
  BY <1>18 DEF vars, TypeOK
<1> QED
  BY <1>1, <1>2, <1>3, <1>4, <1>5, <1>6, <1>8, <1>9, <1>10, <1>11, <1>12,
     <1>13, <1>14, <1>15, <1>16, <1>17, <1>18
     DEF Next, Receive, ProcessStep, DeliverDestination

\* Every variable of the consumer keeps its type in every reachable state.
THEOREM TypeCorrect == Spec => []TypeOK
  BY InitTypeOK, NextTypeOK, PTL DEF Spec

-----------------------------------------------------------------------------
(***************************************************************************)
(* What no step takes back: the policy, the records in the log, the        *)
(* acknowledged deliveries, the DLQ and the error log.                     *)
(***************************************************************************)
Grows ==
    /\ policy' = policy
    /\ \A p \in Partitions :
          /\ Len(log[p]) <= Len(log'[p])
          /\ \A o \in 0..(Len(log[p]) - 1) : Message(p, o)' = Message(p, o)
    /\ acked \subseteq acked'
    /\ dlq \subseteq dlq'
    /\ errored \subseteq errored'

\* No step takes a record, an acknowledgement, a DLQ record or an error back.
LEMMA StepGrows == TypeOK /\ [Next]_vars => Grows
<1> SUFFICES ASSUME TypeOK, [Next]_vars
             PROVE  Grows
  OBVIOUS
<1>1. ASSUME log' = log, policy' = policy, acked \subseteq acked',
             dlq \subseteq dlq', errored \subseteq errored'
      PROVE  Grows
  BY <1>1 DEF Grows, Message, TypeOK
<1>2. ASSUME NEW p \in Partitions, NEW m \in Messages, Produce(p, m)
      PROVE  Grows
  <2>1. /\ policy' = policy /\ acked' = acked
        /\ dlq' = dlq /\ errored' = errored
    BY <1>2 DEF Produce, history
  <2>2. ASSUME NEW q \in Partitions
        PROVE  /\ Len(log[q]) <= Len(log'[q])
               /\ \A o \in 0..(Len(log[q]) - 1) : Message(q, o)' = Message(q, o)
    <3>1. log[q] \in Seq(Messages) /\ Len(log[q]) \in Nat
      BY DEF TypeOK
    <3>2. log'[q] = IF q = p THEN Append(log[q], m) ELSE log[q]
      BY <1>2 DEF Produce, TypeOK
    <3>3. /\ Len(Append(log[q], m)) = Len(log[q]) + 1
          /\ \A i \in 1..Len(log[q]) : Append(log[q], m)[i] = log[q][i]
      BY <3>1
    <3>4. Len(log[q]) <= Len(log'[q])
      BY <3>1, <3>2, <3>3
    <3>5. \A i \in 1..Len(log[q]) : log'[q][i] = log[q][i]
      BY <3>2, <3>3
    <3>6. \A o \in 0..(Len(log[q]) - 1) : o + 1 \in 1..Len(log[q])
      BY <3>1
    <3> QED
      BY <3>4, <3>5, <3>6 DEF Message
  <2> QED
    BY <2>1, <2>2 DEF Grows
<1>3. ASSUME NEW p \in Partitions, ApplyCommit(p) \/ LoseCommit(p)
      PROVE  Grows
  BY <1>1, <1>3 DEF ApplyCommit, LoseCommit, history
<1>4. CASE Rebalance \/ Start \/ Crash
  BY <1>1, <1>4 DEF Rebalance, Start, Crash, Assign, kafka, history
<1>5. ASSUME NEW p \in Partitions,
             RejectMalformed(p) \/ BeginDelivery(p) \/ HandleNoOutput(p)
      PROVE  Grows
  <2>1. Take(p) /\ errored \subseteq errored'
    BY <1>5 DEF RejectMalformed, BeginDelivery, HandleNoOutput
  <2> QED
    BY <1>1, <2>1 DEF Take, kafka
<1>6. ASSUME NEW s \in todo,
             DeliverOk(s) \/ DeliverOptionalErr(s) \/ DeliverRequiredErr(s)
      PROVE  Grows
  BY <1>1, <1>6 DEF DeliverOk, DeliverOptionalErr, DeliverRequiredErr,
                    AfterAttempt, ErrEffect, kafka
<1>7. CASE DlqPublishOk \/ DlqPublishErr \/ CommitMessage \/ CommitRefused
  BY <1>1, <1>7 DEF DlqPublishOk, DlqPublishErr, CommitMessage, CommitRefused,
                    kafka, history
<1>8. CASE UNCHANGED vars
  BY <1>1, <1>8 DEF vars
<1> QED
  BY <1>2, <1>3, <1>4, <1>5, <1>6, <1>7, <1>8
     DEF Next, Receive, ProcessStep, DeliverDestination

\* Being settled, and being accounted for, are stable.
LEMMA SettledStable ==
    ASSUME TypeOK, Grows, NEW p \in Partitions, NEW o \in Nat,
           o < Len(log[p])
    PROVE  /\ Settled(p, o) => Settled(p, o)'
           /\ Accounted(p, o) => Accounted(p, o)'
<1>1. o \in 0..(Len(log[p]) - 1)
  BY DEF TypeOK
<1>2. Message(p, o)' = Message(p, o)
  BY <1>1 DEF Grows
<1>3. Settled(p, o) => Settled(p, o)'
  BY <1>2 DEF Settled, Grows, RoutedSlots, RouteMatches, RouteEventFilterMatch,
              Required
<1>4. Recorded(p, o) => Recorded(p, o)'
  BY DEF Recorded, Grows
<1> QED
  BY <1>3, <1>4 DEF Accounted

-----------------------------------------------------------------------------
(***************************************************************************)
(* Offsets stay ordered.                                                   *)
(***************************************************************************)
offsets == <<log, committed, pending, position, base>>

\* Every action of the consumer task that does not take a record or commit
\* leaves the offsets alone.
LEMMA QuietSteps ==
    ASSUME \/ Crash
           \/ DlqPublishOk
           \/ DlqPublishErr
           \/ CommitRefused
           \/ \E s \in todo :
                 DeliverOk(s) \/ DeliverOptionalErr(s) \/ DeliverRequiredErr(s)
           \/ UNCHANGED vars
    PROVE  UNCHANGED offsets
  BY DEF Crash, DlqPublishOk, DlqPublishErr, CommitRefused, DeliverOk,
         DeliverOptionalErr, DeliverRequiredErr, AfterAttempt, vars, kafka,
         history, offsets

\* Dropping the oldest pending commit keeps the rest in order, and above it.
LEMMA TailInOrder ==
    ASSUME NEW cs \in Seq(Nat), cs # <<>>, NEW lo \in Int, NEW least \in Int,
           NEW hi \in Int, InOrder(cs, lo, least, hi)
    PROVE  /\ InOrder(Tail(cs), lo, least, hi)
           /\ InOrder(Tail(cs), lo, Head(cs), hi)
           /\ lo < Head(cs) /\ least <= Head(cs) /\ Head(cs) <= hi
<1> DEFINE ts == Tail(cs)
<1>1. Head(cs) = cs[1] /\ 1 \in DOMAIN cs
  OBVIOUS
<1>2. ASSUME NEW i \in DOMAIN ts
      PROVE  i \in Nat /\ 1 <= i + 1 /\ i + 1 \in DOMAIN cs /\ ts[i] = cs[i + 1]
  OBVIOUS
<1> HIDE DEF ts
<1>3. ASSUME NEW i \in DOMAIN ts
      PROVE  lo < ts[i] /\ least <= ts[i] /\ cs[1] <= ts[i] /\ ts[i] <= hi
  BY <1>1, <1>2 DEF InOrder
<1>4. ASSUME NEW i \in DOMAIN ts, NEW j \in DOMAIN ts, i <= j
      PROVE  ts[i] <= ts[j]
  <2>1. i + 1 <= j + 1
    BY <1>2, <1>4
  <2> QED
    BY <1>2, <2>1 DEF InOrder
<1> QED
  BY <1>1, <1>3, <1>4 DEF InOrder, ts

\* A commit at the upper bound goes to the end of the queue.
LEMMA AppendInOrder ==
    ASSUME NEW cs \in Seq(Nat), NEW lo \in Int, NEW least \in Int,
           NEW hi \in Nat, lo < hi, least <= hi, InOrder(cs, lo, least, hi)
    PROVE  InOrder(Append(cs, hi), lo, least, hi)
<1> DEFINE as == Append(cs, hi)
<1>1. ASSUME NEW i \in DOMAIN as
      PROVE  \/ i \in DOMAIN cs /\ as[i] = cs[i]
             \/ i = Len(cs) + 1 /\ as[i] = hi
  OBVIOUS
<1>2. Len(cs) \in Nat /\ DOMAIN cs = 1..Len(cs)
  OBVIOUS
<1> HIDE DEF as
<1>3. ASSUME NEW i \in DOMAIN as
      PROVE  lo < as[i] /\ least <= as[i] /\ as[i] <= hi
  <2>1. CASE i \in DOMAIN cs /\ as[i] = cs[i]
    BY <2>1 DEF InOrder
  <2>2. CASE as[i] = hi
    BY <2>2
  <2> QED
    BY <1>1, <2>1, <2>2
<1>4. ASSUME NEW i \in DOMAIN as, NEW j \in DOMAIN as, i <= j
      PROVE  as[i] <= as[j]
  <2>1. CASE j \in DOMAIN cs /\ as[j] = cs[j]
    <3>1. \/ i \in DOMAIN cs /\ as[i] = cs[i]
          \/ i = Len(cs) + 1
      BY <1>1
    <3>2. i # Len(cs) + 1
      BY <1>2, <1>4, <2>1
    <3> QED
      BY <1>4, <2>1, <3>1, <3>2 DEF InOrder
  <2>2. CASE as[j] = hi
    BY <1>3, <2>2
  <2> QED
    BY <1>1, <2>1, <2>2
<1> QED
  BY <1>3, <1>4 DEF InOrder, as

\* Committed, pending and read offsets stay in order in every step.
LEMMA OrderedStep ==
    TypeOK /\ OffsetsOrdered /\ PassConsistent /\ [Next]_vars => OffsetsOrdered'
<1> SUFFICES ASSUME TypeOK, OffsetsOrdered, PassConsistent, [Next]_vars,
                    NEW q \in Partitions
             PROVE  OrderedAt(q)'
  BY DEF OffsetsOrdered
<1>0. OrderedAt(q)
  BY DEF OffsetsOrdered
<1> DEFINE pq == pending[q]
<1>t. /\ log[q] \in Seq(Messages) /\ Len(log[q]) \in Nat
      /\ committed[q] \in Int
      /\ pq \in Seq(Nat) /\ DOMAIN pq \subseteq Nat
      /\ \A i \in DOMAIN pq : pq[i] \in Nat
      /\ position[q] \in Nat
      /\ base[q] \in Nat
  <2>1. log[q] \in Seq(Messages) /\ Len(log[q]) \in Nat
    BY DEF TypeOK
  <2>2. pq \in Seq(Nat)
    BY DEF TypeOK
  <2>3. DOMAIN pq \subseteq Nat /\ \A i \in DOMAIN pq : pq[i] \in Nat
    BY <2>2
  <2>4. committed[q] \in Int /\ position[q] \in Nat /\ base[q] \in Nat
    BY DEF TypeOK, NoOffset
  <2> QED
    BY <2>1, <2>2, <2>3, <2>4
<1>1. ASSUME NEW p \in Partitions, NEW m \in Messages, Produce(p, m)
      PROVE  OrderedAt(q)'
  <2>1. Len(log[q]) <= Len(log'[q]) /\ Len(log'[q]) \in Nat
    BY <1>1, <1>t DEF Produce, TypeOK
  <2>2. UNCHANGED <<committed, pending, position, base>>
    BY <1>1 DEF Produce, history
  <2> QED
    BY <1>0, <1>t, <2>1, <2>2 DEF OrderedAt
<1>2. ASSUME NEW p \in Partitions, ApplyCommit(p)
      PROVE  OrderedAt(q)'
  <2>1. UNCHANGED <<log, position, base>>
    BY <1>2 DEF ApplyCommit, history
  <2>2. CASE q # p
    <3>1. committed'[q] = committed[q] /\ pending'[q] = pending[q]
      BY <1>2, <2>2 DEF ApplyCommit, TypeOK
    <3> QED
      BY <1>0, <2>1, <3>1 DEF OrderedAt
  <2>3. CASE q = p
    <3>1. committed'[q] = Head(pq) /\ pending'[q] = Tail(pq) /\ pq # <<>>
      BY <1>2, <2>3 DEF ApplyCommit, TypeOK
    <3>2. /\ InOrder(Tail(pq), base[q], Head(pq), position[q])
          /\ base[q] < Head(pq) /\ Head(pq) <= position[q]
      BY <1>0, <1>t, <3>1, TailInOrder DEF OrderedAt
    <3> QED
      BY <1>0, <2>1, <3>1, <3>2 DEF OrderedAt
  <2> QED
    BY <2>2, <2>3
<1>3. ASSUME NEW p \in Partitions, LoseCommit(p)
      PROVE  OrderedAt(q)'
  <2>1. UNCHANGED <<log, committed, position, base>>
    BY <1>3 DEF LoseCommit, history
  <2>2. CASE q # p
    <3>1. pending'[q] = pending[q]
      BY <1>3, <2>2 DEF LoseCommit, TypeOK
    <3> QED
      BY <1>0, <2>1, <3>1 DEF OrderedAt
  <2>3. CASE q = p
    <3>1. pending'[q] = Tail(pq) /\ pq # <<>>
      BY <1>3, <2>3 DEF LoseCommit, TypeOK
    <3>2. InOrder(Tail(pq), base[q], committed[q], position[q])
      BY <1>0, <1>t, <3>1, TailInOrder DEF OrderedAt
    <3> QED
      BY <1>0, <2>1, <3>1, <3>2 DEF OrderedAt
  <2> QED
    BY <2>2, <2>3
<1>4. CASE Rebalance \/ Start
  <2>1. /\ log' = log /\ committed' = committed
        /\ pending'[q] = <<>>
        /\ position'[q] = StartOffset(q)
        /\ base'[q] = IF committed[q] = NoOffset THEN Len(log[q]) ELSE base[q]
    BY <1>4 DEF Rebalance, Start, Assign
  <2>2. DOMAIN pending'[q] = {}
    BY <2>1
  <2> QED
    BY <1>0, <1>t, <2>1, <2>2 DEF OrderedAt, InOrder, StartOffset, NoOffset
<1>5. ASSUME NEW p \in Partitions,
             RejectMalformed(p) \/ BeginDelivery(p) \/ HandleNoOutput(p)
      PROVE  OrderedAt(q)'
  <2>1. Take(p)
    BY <1>5 DEF RejectMalformed, BeginDelivery, HandleNoOutput
  <2>2. UNCHANGED <<log, committed, pending, base>>
    BY <2>1 DEF Take, kafka
  <2>3. /\ position[q] <= position'[q]
        /\ position'[q] <= Len(log[q])
        /\ position'[q] \in Nat
    <3>1. position'[q] = IF q = p THEN position[q] + 1 ELSE position[q]
      BY <2>1 DEF Take, TypeOK
    <3>2. q = p => position[q] < Len(log[q])
      BY <2>1 DEF Take
    <3>3. position[q] <= Len(log[q])
      BY <1>0 DEF OrderedAt
    <3> QED
      BY <1>t, <3>1, <3>2, <3>3
  <2> QED
    BY <1>0, <1>t, <2>2, <2>3 DEF OrderedAt, InOrder
<1>6. CASE CommitMessage
  <2>1. UNCHANGED <<log, committed, position, base>>
    BY <1>6 DEF CommitMessage, history
  <2>2. CASE q # cur[1]
    <3>1. pending'[q] = pending[q]
      BY <1>6, <2>2 DEF CommitMessage, TypeOK
    <3> QED
      BY <1>0, <2>1, <3>1 DEF OrderedAt
  <2>3. CASE q = cur[1]
    <3>1. pending'[q] = Append(pq, cur[2] + 1) /\ cur[2] \in Nat
      BY <1>6, <2>3 DEF CommitMessage, TypeOK
    <3>2. base[q] <= cur[2] /\ position[q] = cur[2] + 1
      BY <1>6, <2>3 DEF CommitMessage, PassConsistent
    <3>3. InOrder(Append(pq, position[q]), base[q], committed[q], position[q])
      BY <1>0, <1>t, <3>1, <3>2, AppendInOrder DEF OrderedAt
    <3> QED
      BY <1>0, <2>1, <3>1, <3>2, <3>3 DEF OrderedAt
  <2> QED
    BY <2>2, <2>3
<1>7. CASE UNCHANGED offsets
  BY <1>0, <1>7 DEF OrderedAt, offsets
<1> QED
  BY <1>1, <1>2, <1>3, <1>4, <1>5, <1>6, <1>7, QuietSteps
     DEF Next, Receive, ProcessStep, DeliverDestination

-----------------------------------------------------------------------------
(***************************************************************************)
(* The message being processed.                                            *)
(***************************************************************************)
\* The message process_message works on is a record of the log.
LEMMA CurrentInLog ==
    ASSUME TypeOK, OffsetsOrdered, PassConsistent, pc \notin {"down", "recv"}
    PROVE  /\ cur[1] \in Partitions /\ cur[2] \in Nat /\ cur = <<cur[1], cur[2]>>
           /\ cur[2] < Len(log[cur[1]])
<1>1. cur[1] \in Partitions /\ cur[2] \in Nat /\ cur = <<cur[1], cur[2]>>
  BY DEF TypeOK
<1>2. position[cur[1]] = cur[2] + 1 /\ position[cur[1]] <= Len(log[cur[1]])
  BY <1>1 DEF PassConsistent, OffsetsOrdered, OrderedAt
<1> QED
  BY <1>1, <1>2 DEF TypeOK

\* Where process_message is and what it has left to do stay consistent with
\* the record it took and with what was acknowledged.
LEMMA PassStep ==
    TypeOK /\ OffsetsOrdered /\ PassConsistent /\ [Next]_vars => PassConsistent'
<1> SUFFICES ASSUME TypeOK, OffsetsOrdered, PassConsistent, [Next]_vars
             PROVE  PassConsistent'
  OBVIOUS
<1>g. Grows
  BY StepGrows
<1>1. ASSUME UNCHANGED <<pc, cur, todo, position, base, policy>>
      PROVE  PassConsistent'
  <2> SUFFICES ASSUME pc \notin {"down", "recv"}
               PROVE  PassConsistent'
    BY <1>1 DEF PassConsistent
  <2> DEFINE p == cur[1]
             o == cur[2]
  <2>1. p \in Partitions /\ o \in Nat /\ o < Len(log[p])
    BY CurrentInLog
  <2>2. Message(p, o)' = Message(p, o)
    BY <1>1, <1>g, <2>1 DEF Grows, TypeOK
  <2>3. Settled(p, o) => Settled(p, o)'
    <3>1. p' = p /\ o' = o
      BY <1>1
    <3> HIDE DEF p, o
    <3>2. ASSUME NEW pp \in Partitions, NEW oo \in Nat, oo < Len(log[pp]),
                 Settled(pp, oo)
          PROVE  Settled(pp, oo)'
      BY <1>g, <3>2, SettledStable
    <3> QED
      BY <2>1, <3>1, <3>2 DEF Settled, Message
  <2>4. acked \subseteq acked'
    BY <1>g DEF Grows
  <2> QED
    BY <1>1, <2>2, <2>3, <2>4 DEF PassConsistent, RoutedSlots, RouteMatches,
                                   RouteEventFilterMatch, Required
<1>2. ASSUME NEW p \in Partitions, NEW m \in Messages,
             Produce(p, m) \/ ApplyCommit(p) \/ LoseCommit(p)
      PROVE  PassConsistent'
  BY <1>1, <1>2 DEF Produce, ApplyCommit, LoseCommit, history
<1>3. CASE pc' \in {"down", "recv"}
  BY <1>3 DEF PassConsistent
<1>4. ASSUME NEW p \in Partitions, BeginDelivery(p)
      PROVE  PassConsistent'
  <2> DEFINE o == position[p]
             slots == RoutedSlots(p, Message(p, o))
  <2>1. Take(p) /\ pc' = "deliver" /\ todo' = slots /\ slots # {}
        /\ Message(p, o) # Malformed
    BY <1>4 DEF BeginDelivery
  <2>2. /\ cur' = <<p, o>> /\ position'[p] = o + 1
        /\ log' = log /\ base' = base /\ base[p] <= o
    BY <2>1 DEF Take, kafka, TypeOK, OffsetsOrdered, OrderedAt
  <2>3. cur'[1] = p /\ cur'[2] = o
    BY <2>2
  <2>4. Message(cur[1], cur[2])' = Message(p, o)
    BY <2>2, <2>3 DEF Message
  <2>5. RoutedSlots(cur[1], Message(cur[1], cur[2]))' = slots
    BY <2>3, <2>4 DEF RoutedSlots, RouteMatches, RouteEventFilterMatch
  <2> HIDE DEF o, slots
  <2> QED
    BY <2>1, <2>2, <2>3, <2>4, <2>5 DEF PassConsistent
<1>5. ASSUME NEW p \in Partitions, HandleNoOutput(p)
      PROVE  PassConsistent'
  <2> DEFINE o == position[p]
             slots == RoutedSlots(p, Message(p, o))
  <2>1. Take(p) /\ slots = {} /\ Message(p, o) # Malformed
    BY <1>5 DEF HandleNoOutput
  <2>2. /\ cur' = <<p, o>> /\ position'[p] = o + 1 /\ policy' = policy
        /\ log' = log /\ base' = base /\ base[p] <= o /\ pc = "recv"
    BY <2>1 DEF Take, kafka, TypeOK, OffsetsOrdered, OrderedAt
  <2>3. cur'[1] = p /\ cur'[2] = o
    BY <2>2
  <2>4. Message(cur[1], cur[2])' = Message(p, o)
    BY <2>2, <2>3 DEF Message
  <2>5. RoutedSlots(cur[1], Message(cur[1], cur[2]))' = {}
    BY <2>1, <2>3, <2>4 DEF RoutedSlots, RouteMatches, RouteEventFilterMatch
  <2>6. \/ pc' = "recv"
        \/ pc' = "commit" /\ policy.allow_no_output
           /\ policy.no_output_sink = "discard"
        \/ pc' = "dlq_no_output" /\ policy.allow_no_output
           /\ policy.no_output_sink = "dlq"
    BY <1>5, <2>2 DEF HandleNoOutput
  <2>7. pc' = "commit" => Settled(cur[1], cur[2])'
    BY <2>1, <2>2, <2>4, <2>5, <2>6 DEF Settled
  <2> HIDE DEF o, slots
  <2> QED
    BY <2>1, <2>2, <2>3, <2>4, <2>5, <2>6, <2>7 DEF PassConsistent
<1>6. ASSUME NEW s \in todo, AfterAttempt(s), pc = "deliver",
             Required(s) => <<cur, s>> \in acked'
      PROVE  PassConsistent'
  <2> DEFINE p == cur[1]
             o == cur[2]
             slots == RoutedSlots(p, Message(p, o))
  <2>1. UNCHANGED <<cur, log, position, base, policy>> /\ todo' = todo \ {s}
    BY <1>6 DEF AfterAttempt, kafka
  <2>2. /\ base[p] <= o /\ position[p] = o + 1 /\ Message(p, o) # Malformed
        /\ todo \subseteq slots
        /\ \A t \in slots \ todo : Required(t) => <<cur, t>> \in acked
    BY <1>6 DEF PassConsistent
  <2>3. /\ cur[1]' = p /\ cur[2]' = o
        /\ Message(cur[1], cur[2])' = Message(p, o)
    BY <2>1 DEF Message
  <2>4. RoutedSlots(cur[1], Message(cur[1], cur[2]))' = slots
    BY <2>3 DEF RoutedSlots, RouteMatches, RouteEventFilterMatch
  <2>5. \A t \in slots \ todo' : Required(t) => <<cur, t>> \in acked'
    BY <1>6, <1>g, <2>1, <2>2 DEF Grows
  <2>6. todo' \subseteq slots /\ s \in slots
    BY <2>1, <2>2
  <2>7. cur = <<p, o>>
    BY DEF TypeOK
  <2> HIDE DEF p, o, slots
  <2>8. CASE todo' = {}
    <3>1. pc' = "commit"
      BY <1>6, <2>8 DEF AfterAttempt
    <3>2. Settled(cur[1], cur[2])'
      BY <2>1, <2>2, <2>3, <2>4, <2>5, <2>6, <2>7, <2>8 DEF Settled, Required
    <3> QED
      BY <2>1, <2>2, <2>3, <3>1, <3>2 DEF PassConsistent
  <2>9. CASE todo' # {}
    <3>1. pc' = "deliver"
      BY <1>6, <2>9 DEF AfterAttempt
    <3> QED
      BY <2>1, <2>2, <2>3, <2>4, <2>5, <2>6, <2>9, <3>1
         DEF PassConsistent, Required
  <2> QED
    BY <2>8, <2>9
<1>7. ASSUME NEW s \in todo, DeliverOk(s)
      PROVE  PassConsistent'
  BY <1>6, <1>7 DEF DeliverOk
<1>8. ASSUME NEW s \in todo, DeliverOptionalErr(s)
      PROVE  PassConsistent'
  BY <1>6, <1>8 DEF DeliverOptionalErr
<1>9. ASSUME UNCHANGED <<cur, log, position, base, policy>>,
             pc \notin {"down", "recv"},
             \/ pc' = "dlq_required"
             \/ pc' = "commit" /\ Settled(cur[1], cur[2])'
      PROVE  PassConsistent'
  <2>1. Message(cur[1], cur[2])' = Message(cur[1], cur[2])
    BY <1>9 DEF Message
  <2> QED
    BY <1>9, <2>1 DEF PassConsistent
<1>10. ASSUME NEW s \in todo, DeliverRequiredErr(s)
       PROVE  PassConsistent'
  BY <1>9, <1>10 DEF DeliverRequiredErr, kafka
<1>11. CASE DlqPublishOk
  <2>1. CASE pc = "dlq_no_output"
    <3>1. /\ UNCHANGED <<cur, log, position, base, policy>>
          /\ pc' = "commit" /\ cur \in dlq'
      BY <1>11, <2>1 DEF DlqPublishOk, kafka, history
    <3>2. /\ RoutedSlots(cur[1], Message(cur[1], cur[2])) = {}
          /\ policy.allow_no_output /\ policy.no_output_sink = "dlq"
          /\ Message(cur[1], cur[2]) # Malformed
      BY <2>1 DEF PassConsistent
    <3>3. cur = <<cur[1], cur[2]>>
      BY DEF TypeOK
    <3>4. Message(cur[1], cur[2])' = Message(cur[1], cur[2])
      BY <3>1 DEF Message
    <3>5. RoutedSlots(cur[1], Message(cur[1], cur[2]))' = {}
      BY <3>1, <3>2, <3>4 DEF RoutedSlots, RouteMatches, RouteEventFilterMatch
    <3>6. Settled(cur[1], cur[2])'
      BY <3>1, <3>2, <3>3, <3>4, <3>5 DEF Settled
    <3> QED
      BY <1>9, <2>1, <3>1, <3>6
  <2>2. CASE pc # "dlq_no_output"
    BY <1>3, <1>11, <2>2 DEF DlqPublishOk
  <2> QED
    BY <2>1, <2>2
<1>12. CASE Rebalance \/ Start \/ Crash \/ DlqPublishErr \/ CommitMessage
            \/ CommitRefused
  BY <1>3, <1>12 DEF Rebalance, Start, Crash, DlqPublishErr, CommitMessage,
                     CommitRefused
<1>13. ASSUME NEW p \in Partitions, RejectMalformed(p)
       PROVE  PassConsistent'
  BY <1>3, <1>13 DEF RejectMalformed, Take
<1>14. CASE UNCHANGED vars
  BY <1>1, <1>14 DEF vars
<1> QED
  BY <1>2, <1>4, <1>5, <1>7, <1>8, <1>10, <1>11, <1>12, <1>13, <1>14
     DEF Next, Receive, ProcessStep, DeliverDestination, Messages

-----------------------------------------------------------------------------
(***************************************************************************)
(* Commits.                                                                *)
(***************************************************************************)
\* Only commit_message makes a commit; everything else moves one along or
\* drops it.  A partition that has commits keeps its base.
LEMMA CommitsStep ==
    ASSUME TypeOK, [Next]_vars, NEW p \in Partitions, NEW c \in Commits(p)'
    PROVE  /\ base'[p] = base[p]
           /\ \/ c \in Commits(p)
              \/ CommitMessage /\ p = cur[1] /\ c = cur[2] + 1
<1>t. pending[p] \in Seq(Nat)
  BY DEF TypeOK
<1>1. ASSUME base' = base, pending'[p] = pending[p], committed'[p] = committed[p]
      PROVE  base'[p] = base[p] /\ c \in Commits(p)
  BY <1>1 DEF Commits
<1>2. ASSUME NEW q \in Partitions, ApplyCommit(q)
      PROVE  base'[p] = base[p] /\ c \in Commits(p)
  <2>1. CASE q # p
    BY <1>1, <1>2, <2>1 DEF ApplyCommit, history, TypeOK
  <2>2. CASE q = p
    <3>1. /\ base' = base /\ pending[p] # <<>>
          /\ pending'[p] = Tail(pending[p]) /\ committed'[p] = Head(pending[p])
      BY <1>2, <2>2 DEF ApplyCommit, history, TypeOK
    <3>2. Head(pending[p]) = pending[p][1] /\ 1 \in DOMAIN pending[p]
      BY <1>t, <3>1
    <3>3. \A i \in DOMAIN Tail(pending[p]) :
             i + 1 \in DOMAIN pending[p] /\ Tail(pending[p])[i] = pending[p][i + 1]
      BY <1>t, <3>1
    <3> QED
      BY <3>1, <3>2, <3>3 DEF Commits
  <2> QED
    BY <2>1, <2>2
<1>3. ASSUME NEW q \in Partitions, LoseCommit(q)
      PROVE  base'[p] = base[p] /\ c \in Commits(p)
  <2>1. CASE q # p
    BY <1>1, <1>3, <2>1 DEF LoseCommit, history, TypeOK
  <2>2. CASE q = p
    <3>1. /\ base' = base /\ pending[p] # <<>>
          /\ pending'[p] = Tail(pending[p]) /\ committed' = committed
      BY <1>3, <2>2 DEF LoseCommit, history, TypeOK
    <3>2. \A i \in DOMAIN Tail(pending[p]) :
             i + 1 \in DOMAIN pending[p] /\ Tail(pending[p])[i] = pending[p][i + 1]
      BY <1>t, <3>1
    <3> QED
      BY <3>1, <3>2 DEF Commits
  <2> QED
    BY <2>1, <2>2
<1>4. CASE Rebalance \/ Start
  <2>1. /\ committed' = committed /\ pending'[p] = <<>>
        /\ base'[p] = IF committed[p] = NoOffset THEN Len(log[p]) ELSE base[p]
    BY <1>4 DEF Rebalance, Start, Assign
  <2>2. c = committed[p] /\ committed[p] # NoOffset
    BY <2>1 DEF Commits
  <2> QED
    BY <2>1, <2>2 DEF Commits
<1>5. CASE CommitMessage
  <2>1. base' = base /\ committed' = committed
    BY <1>5 DEF CommitMessage, history
  <2>2. CASE p # cur[1]
    BY <1>1, <1>5, <2>1, <2>2 DEF CommitMessage, TypeOK
  <2>3. CASE p = cur[1]
    <3>1. pending'[p] = Append(pending[p], cur[2] + 1)
      BY <1>5, <2>3 DEF CommitMessage, TypeOK
    <3>2. \A i \in DOMAIN Append(pending[p], cur[2] + 1) :
             \/ i \in DOMAIN pending[p]
                /\ Append(pending[p], cur[2] + 1)[i] = pending[p][i]
             \/ Append(pending[p], cur[2] + 1)[i] = cur[2] + 1
      BY <1>t
    <3> QED
      BY <1>5, <2>1, <2>3, <3>1, <3>2 DEF Commits
  <2> QED
    BY <2>2, <2>3
<1>6. ASSUME NEW q \in Partitions,
             RejectMalformed(q) \/ BeginDelivery(q) \/ HandleNoOutput(q)
      PROVE  base'[p] = base[p] /\ c \in Commits(p)
  <2>1. Take(q)
    BY <1>6 DEF RejectMalformed, BeginDelivery, HandleNoOutput
  <2> QED
    BY <1>1, <2>1 DEF Take, kafka
<1>7. ASSUME NEW q \in Partitions, NEW m \in Messages, Produce(q, m)
      PROVE  base'[p] = base[p] /\ c \in Commits(p)
  BY <1>1, <1>7 DEF Produce, history
<1>8. CASE UNCHANGED offsets
  BY <1>1, <1>8 DEF offsets
<1> QED
  BY <1>2, <1>3, <1>4, <1>5, <1>6, <1>7, <1>8, QuietSteps
     DEF Next, Receive, ProcessStep, DeliverDestination

\* Commits stay earned, and everything below them accounted for.
LEMMA EarnedStep ==
    ASSUME TypeOK, OffsetsOrdered, PassConsistent, CommitIsEarned,
           CommitsCovered, PassedMessagesAccounted, [Next]_vars
    PROVE  CommitIsEarned' /\ CommitsCovered'
<1> SUFFICES ASSUME NEW p \in Partitions, NEW c \in Commits(p)'
             PROVE  /\ c \in 1..Len(log'[p]) /\ Settled(p, c - 1)'
                    /\ AccountedBelow(p, c)'
  BY DEF CommitIsEarned, CommitsCovered
<1>g. Grows
  BY StepGrows
<1>t. /\ Len(log[p]) \in Nat /\ base[p] \in Nat
      /\ Len(log'[p]) \in Nat /\ Len(log[p]) <= Len(log'[p])
  <2>1. TypeOK'
    BY NextTypeOK
  <2>2. log[p] \in Seq(Messages) /\ log'[p] \in Seq(Messages) /\ base[p] \in Nat
    BY <2>1 DEF TypeOK
  <2>3. Len(log[p]) <= Len(log'[p])
    BY <1>g DEF Grows
  <2> QED
    BY <2>2, <2>3
<1>b. base'[p] = base[p]
  BY CommitsStep
<1>1. /\ c \in 1..Len(log[p])
      /\ Settled(p, c - 1)
      /\ AccountedBelow(p, c)
  <2>1. CASE c \in Commits(p)
    BY <2>1 DEF CommitIsEarned, CommitsCovered
  <2>2. CASE CommitMessage /\ p = cur[1] /\ c = cur[2] + 1
    <3>1. pc = "commit"
      BY <2>2 DEF CommitMessage
    <3>2. cur[2] \in Nat /\ cur = <<p, cur[2]>> /\ cur[2] < Len(log[p])
      BY <2>2, <3>1, CurrentInLog
    <3>3. position[p] = cur[2] + 1 /\ Settled(p, cur[2])
      BY <2>2, <3>1 DEF PassConsistent
    <3>4. ASSUME NEW o \in base[p]..(c - 1)
          PROVE  Accounted(p, o)
      <4>1. o \in base[p]..(position[p] - 1)
        BY <2>2, <3>2, <3>3
      <4>2. Accounted(p, o) \/ cur = <<p, o>>
        BY <3>1, <4>1 DEF PassedMessagesAccounted, Accounted
      <4>3. cur = <<p, o>> => o = cur[2]
        BY <3>2
      <4> QED
        BY <3>3, <4>2, <4>3 DEF Accounted
    <3>5. c \in 1..Len(log[p]) /\ c - 1 = cur[2]
      BY <1>t, <2>2, <3>2
    <3> QED
      BY <3>3, <3>4, <3>5 DEF AccountedBelow
  <2> QED
    BY <2>1, <2>2, CommitsStep
<1>2. c \in 1..Len(log'[p])
  BY <1>t, <1>1
<1>3. Settled(p, c - 1)'
  <2>1. c - 1 \in Nat /\ c - 1 < Len(log[p])
    BY <1>t, <1>1
  <2>2. ASSUME NEW o \in Nat, o < Len(log[p]), Settled(p, o)
        PROVE  Settled(p, o)'
    BY <1>g, <2>2, SettledStable
  <2> DEFINE o == c - 1
  <2>3. o \in Nat /\ o < Len(log[p]) /\ Settled(p, o)
    BY <1>1, <2>1
  <2> QED
    BY <2>2, <2>3
<1>4. ASSUME NEW o \in base'[p]..(c - 1)
      PROVE  Accounted(p, o)'
  <2>1. o \in base[p]..(c - 1) /\ o \in Nat /\ o < Len(log[p])
    BY <1>t, <1>b, <1>1
  <2>2. Accounted(p, o)
    BY <1>1, <2>1 DEF AccountedBelow
  <2> QED
    BY <1>g, <2>1, <2>2, SettledStable
<1>5. AccountedBelow(p, c)'
  BY <1>4 DEF AccountedBelow
<1> QED
  BY <1>2, <1>3, <1>5

-----------------------------------------------------------------------------
(***************************************************************************)
(* Records the consumer has passed.                                        *)
(***************************************************************************)
\* A step that moves the consumer past a record leaves a trace of it.
LEMMA PassedStep ==
    ASSUME TypeOK, OffsetsOrdered, PassConsistent, CommitIsEarned,
           CommitsCovered, PassedMessagesAccounted, [Next]_vars
    PROVE  PassedMessagesAccounted'
<1>g. Grows
  BY StepGrows
<1>n. TypeOK'
  BY NextTypeOK
<1> SUFFICES ASSUME NEW p \in Partitions
             PROVE  /\ \A o \in base'[p]..(committed'[p] - 1) : Accounted(p, o)'
                    /\ pc' # "down" =>
                          \A o \in base'[p]..(position'[p] - 1) :
                              \/ Accounted(p, o)'
                              \/ pc' # "recv" /\ cur' = <<p, o>>
  BY DEF PassedMessagesAccounted, Accounted
<1>t. /\ base[p] \in Nat /\ position[p] \in Nat /\ Len(log[p]) \in Nat
      /\ position[p] <= Len(log[p])
      /\ committed[p] \in Int
  BY DEF TypeOK, OffsetsOrdered, OrderedAt, NoOffset
<1>1. ASSUME NEW o \in base'[p]..(committed'[p] - 1)
      PROVE  Accounted(p, o)'
  <2>0. base'[p] \in Nat /\ committed'[p] \in Nat \cup {NoOffset}
    BY <1>n DEF TypeOK
  <2>1. committed'[p] # NoOffset
    BY <1>1, <2>0 DEF NoOffset
  <2>2. committed'[p] \in Commits(p)'
    BY <2>1 DEF Commits
  <2>3. CommitsCovered'
    BY EarnedStep
  <2> QED
    BY <1>1, <2>2, <2>3 DEF CommitsCovered, AccountedBelow
\* A step that keeps the base and the position, and accounts for the current
\* message when it is done with it.
<1>2. ASSUME pc # "down", base' = base, position'[p] = position[p],
             NEW o \in base[p]..(position[p] - 1),
             \/ pc' # "recv" /\ cur' = cur
             \/ pc' = "recv" /\ pc = "recv"
             \/ \A q \in Partitions, k \in Nat : cur = <<q, k>> => Accounted(q, k)'
      PROVE  Accounted(p, o)' \/ (pc' # "recv" /\ cur' = <<p, o>>)
  <2>1. Accounted(p, o) \/ (pc # "recv" /\ cur = <<p, o>>)
    BY <1>2 DEF PassedMessagesAccounted, Accounted
  <2>2. o \in Nat /\ o < Len(log[p])
    BY <1>t
  <2>3. Accounted(p, o) => Accounted(p, o)'
    BY <1>g, <2>2, SettledStable
  <2> QED
    BY <1>2, <2>1, <2>2, <2>3
<1>3. ASSUME pc' # "down", NEW o \in base'[p]..(position'[p] - 1)
      PROVE  Accounted(p, o)' \/ (pc' # "recv" /\ cur' = <<p, o>>)
  <2>1. ASSUME NEW q \in Partitions, NEW m \in Messages,
               Produce(q, m) \/ ApplyCommit(q) \/ LoseCommit(q)
        PROVE  Accounted(p, o)' \/ (pc' # "recv" /\ cur' = <<p, o>>)
    <3>1. UNCHANGED <<base, position, pc, cur>>
      BY <2>1 DEF Produce, ApplyCommit, LoseCommit, history
    <3> QED
      BY <1>2, <1>3, <3>1
  <2>2. CASE Rebalance \/ Start
    <3>1. /\ committed' = committed
          /\ position'[p] = StartOffset(p)
          /\ base'[p] = IF committed[p] = NoOffset THEN Len(log[p]) ELSE base[p]
      BY <2>2 DEF Rebalance, Start, Assign
    <3>2. committed[p] # NoOffset
      BY <1>3, <1>t, <3>1 DEF StartOffset
    <3>3. o \in base'[p]..(committed'[p] - 1)
      BY <1>3, <3>1, <3>2 DEF StartOffset
    <3> QED
      BY <1>1, <3>3
  <2>3. ASSUME NEW q \in Partitions,
               RejectMalformed(q) \/ BeginDelivery(q) \/ HandleNoOutput(q)
        PROVE  Accounted(p, o)' \/ (pc' # "recv" /\ cur' = <<p, o>>)
    <3>1. Take(q)
      BY <2>3 DEF RejectMalformed, BeginDelivery, HandleNoOutput
    <3>2. /\ base' = base /\ pc = "recv" /\ cur' = <<q, position[q]>>
          /\ position'[p] = IF p = q THEN position[p] + 1 ELSE position[p]
      BY <3>1 DEF Take, TypeOK
    <3>3. CASE o \in base[p]..(position[p] - 1)
      <4>1. Accounted(p, o)
        BY <3>2, <3>3 DEF PassedMessagesAccounted, Accounted
      <4>2. o \in Nat /\ o < Len(log[p])
        BY <1>t, <3>3
      <4> QED
        BY <1>g, <4>1, <4>2, SettledStable
    <3>4. CASE p = q /\ o = position[p]
      <4>1. pc' # "recv" \/ <<p, o>> \in errored'
        BY <2>3, <3>4 DEF RejectMalformed, BeginDelivery, HandleNoOutput
      <4> QED
        BY <3>2, <3>4, <4>1 DEF Accounted, Recorded
    <3> QED
      BY <1>3, <1>t, <3>2, <3>3, <3>4
  <2>4. ASSUME NEW s \in todo,
               DeliverOk(s) \/ DeliverOptionalErr(s) \/ DeliverRequiredErr(s)
        PROVE  Accounted(p, o)' \/ (pc' # "recv" /\ cur' = <<p, o>>)
    <3>1. /\ UNCHANGED <<base, position, cur>>
          /\ pc = "deliver" /\ pc' # "recv"
      BY <2>4 DEF DeliverOk, DeliverOptionalErr, DeliverRequiredErr,
                  AfterAttempt
    <3> QED
      BY <1>2, <1>3, <3>1
  <2>5. CASE DlqPublishOk \/ DlqPublishErr \/ CommitRefused
    <3>1. /\ UNCHANGED <<base, position, cur>>
          /\ pc # "down"
          /\ cur \in dlq' \/ cur \in errored'
      BY <2>5 DEF DlqPublishOk, DlqPublishErr, CommitRefused, history
    <3>2. \A q \in Partitions, k \in Nat : cur = <<q, k>> => Accounted(q, k)'
      BY <3>1 DEF Accounted, Recorded
    <3> QED
      BY <1>2, <1>3, <3>1, <3>2
  <2>6. CASE CommitMessage
    <3>1. UNCHANGED <<base, position, cur>> /\ pc = "commit"
      BY <2>6 DEF CommitMessage, history
    <3>2. ASSUME NEW q \in Partitions, NEW k \in Nat, cur = <<q, k>>
          PROVE  Accounted(q, k)'
      <4>1. cur[1] = q /\ cur[2] = k
        BY <3>2
      <4>2. Settled(q, k) /\ k < Len(log[q])
        BY <3>1, <4>1, CurrentInLog DEF PassConsistent
      <4> QED
        BY <1>g, <4>2, SettledStable DEF Accounted
    <3> QED
      BY <1>2, <1>3, <3>1, <3>2
  <2>7. CASE Crash
    BY <1>3, <2>7 DEF Crash
  <2>8. CASE UNCHANGED vars
    BY <1>2, <1>3, <2>8 DEF vars
  <2> QED
    BY <2>1, <2>2, <2>3, <2>4, <2>5, <2>6, <2>7, <2>8
       DEF Next, Receive, ProcessStep, DeliverDestination, Messages
<1> QED
  BY <1>1, <1>3

-----------------------------------------------------------------------------
(***************************************************************************)
(* Deliveries.                                                             *)
(***************************************************************************)
\* A destination is tried only by the attempt deliver_to_routes is at.
LEMMA ReachedStep ==
    ASSUME [Next]_vars, NEW d \in tried', d \notin tried
    PROVE  pc = "deliver" /\ \E s \in todo : NextSlot(s) /\ d = <<cur, s>>
<1>1. CASE tried' = tried
  BY <1>1
<1>2. ASSUME NEW p \in Partitions, NEW m \in Messages,
             Produce(p, m) \/ ApplyCommit(p) \/ LoseCommit(p)
      PROVE  tried' = tried
  BY <1>2 DEF Produce, ApplyCommit, LoseCommit, history
<1>3. ASSUME NEW p \in Partitions,
             RejectMalformed(p) \/ BeginDelivery(p) \/ HandleNoOutput(p)
      PROVE  tried' = tried
  BY <1>3 DEF RejectMalformed, BeginDelivery, HandleNoOutput, Take
<1>4. CASE Rebalance \/ Start \/ Crash \/ DlqPublishOk \/ DlqPublishErr
           \/ CommitMessage \/ CommitRefused \/ UNCHANGED vars
  BY <1>4 DEF Rebalance, Start, Crash, Assign, DlqPublishOk, DlqPublishErr,
              CommitMessage, CommitRefused, history, vars
<1>5. ASSUME NEW s \in todo,
             DeliverOk(s) \/ DeliverOptionalErr(s) \/ DeliverRequiredErr(s)
      PROVE  pc = "deliver" /\ NextSlot(s) /\ d = <<cur, s>>
  BY <1>5 DEF DeliverOk, DeliverOptionalErr, DeliverRequiredErr, ErrEffect
<1> QED
  BY <1>1, <1>2, <1>3, <1>4, <1>5
     DEF Next, Receive, ProcessStep, DeliverDestination, Messages

\* An attempt is made only after the required ones before it succeeded.
LEMMA GatesStep ==
    ASSUME TypeOK, OffsetsOrdered, PassConsistent, ReachedInLog,
           RequiredGatesLater, [Next]_vars
    PROVE  ReachedInLog' /\ RequiredGatesLater'
<1>g. Grows
  BY StepGrows
<1> SUFFICES ASSUME NEW d \in tried'
             PROVE  /\ d[1][2] < Len(log'[d[1][1]])
                    /\ \A t \in RoutedSlots(d[1][1], Message(d[1][1], d[1][2])') :
                          Required(t) /\ AttemptedBefore(t, d[2]) =>
                              <<<<d[1][1], d[1][2]>>, t>> \in acked'
  BY DEF ReachedInLog, RequiredGatesLater, RoutedSlots, RouteMatches,
         RouteEventFilterMatch, Required, AttemptedBefore
<1> DEFINE p == d[1][1]
           o == d[1][2]
           slots == RoutedSlots(p, Message(p, o))
<1>1. /\ p \in Partitions /\ o \in Nat /\ o < Len(log[p])
      /\ \A t \in slots :
            Required(t) /\ AttemptedBefore(t, d[2]) => <<<<p, o>>, t>> \in acked
  <2>1. CASE d \in tried
    BY <2>1 DEF ReachedInLog, RequiredGatesLater, TypeOK
  <2>2. CASE d \notin tried
    <3>1. pc = "deliver"
      BY <2>2, ReachedStep
    <3>2. PICK s \in todo : NextSlot(s) /\ d = <<cur, s>>
      BY <2>2, ReachedStep
    <3>3. d[1] = cur /\ d[2] = s
      BY <3>2
    <3>4. p \in Partitions /\ o \in Nat /\ cur = <<p, o>> /\ o < Len(log[p])
      BY <3>1, <3>3, CurrentInLog
    <3>5. todo \subseteq slots /\ \A t \in slots \ todo : Required(t) => <<cur, t>> \in acked
      BY <3>1, <3>3 DEF PassConsistent
    <3> HIDE DEF p, o
    <3>6. ASSUME NEW t \in slots, Required(t), AttemptedBefore(t, s)
          PROVE  <<<<p, o>>, t>> \in acked
      <4>1. t \in Slots /\ s \in Slots
        BY <3>5, RoutedSlotsType
      <4>2. s # t /\ ~AttemptedBefore(s, t)
        BY <3>6, <4>1, AttemptedBeforeStrict
      <4>3. t \notin todo
        BY <3>2, <4>2 DEF NextSlot
      <4> QED
        BY <3>4, <3>5, <3>6, <4>3
    <3> QED
      BY <3>3, <3>4, <3>6
  <2> QED
    BY <2>1, <2>2
<1>2. Message(p, o)' = Message(p, o) /\ Len(log[p]) <= Len(log'[p]) /\ acked \subseteq acked'
  <2>0. Len(log[p]) \in Nat
    BY <1>1 DEF TypeOK
  <2>1. o \in 0..(Len(log[p]) - 1)
    BY <1>1, <2>0
  <2> QED
    BY <1>1, <1>g, <2>1 DEF Grows
<1>3. o < Len(log'[p])
  <2>1. TypeOK'
    BY NextTypeOK
  <2> HIDE DEF p, o
  <2>2. log[p] \in Seq(Messages) /\ log'[p] \in Seq(Messages)
    BY <1>1, <2>1 DEF TypeOK
  <2>3. Len(log[p]) \in Nat /\ Len(log'[p]) \in Nat
    BY <2>2
  <2> QED
    BY <1>1, <1>2, <2>3
<1> QED
  BY <1>1, <1>2, <1>3

-----------------------------------------------------------------------------
(***************************************************************************)
(* The results.                                                            *)
(***************************************************************************)
\* The inductive invariant holds before the process starts.
LEMMA InitIInv == Init => IInv
<1> SUFFICES ASSUME Init
             PROVE  IInv
  OBVIOUS
<1>1. TypeOK
  BY InitTypeOK
<1>2. ASSUME NEW p \in Partitions
      PROVE  /\ log[p] = <<>> /\ pending[p] = <<>> /\ position[p] = 0
             /\ base[p] = 0 /\ committed[p] = NoOffset
  BY DEF Init
<1>3. OffsetsOrdered
  <2>1. ASSUME NEW p \in Partitions
        PROVE  OrderedAt(p)
    BY <1>2 DEF OrderedAt, InOrder, NoOffset
  <2> QED
    BY <2>1 DEF OffsetsOrdered
<1>4. \A p \in Partitions : Commits(p) = {}
  <2>1. ASSUME NEW p \in Partitions
        PROVE  DOMAIN pending[p] = {} /\ {committed[p]} \ {NoOffset} = {}
    BY <1>2
  <2>2. ASSUME NEW p \in Partitions
        PROVE  {pending[p][i] : i \in DOMAIN pending[p]} = {}
    BY <2>1
  <2> QED
    BY <2>1, <2>2 DEF Commits
<1>5. PassConsistent /\ ReachedInLog /\ RequiredGatesLater
  BY DEF Init, PassConsistent, ReachedInLog, RequiredGatesLater
<1>6. CommitIsEarned /\ CommitsCovered
  BY <1>4 DEF CommitIsEarned, CommitsCovered
<1>7. PassedMessagesAccounted
  <2>1. ASSUME NEW p \in Partitions
        PROVE  base[p]..(committed[p] - 1) = {}
    BY <1>2 DEF NoOffset
  <2>2. pc = "down"
    BY DEF Init
  <2> QED
    BY <2>1, <2>2 DEF PassedMessagesAccounted
<1> QED
  BY <1>1, <1>3, <1>5, <1>6, <1>7 DEF IInv

\* Every step keeps the inductive invariant.
LEMMA NextIInv == IInv /\ [Next]_vars => IInv'
<1> SUFFICES ASSUME IInv, [Next]_vars
             PROVE  IInv'
  OBVIOUS
<1>0. /\ TypeOK /\ OffsetsOrdered /\ PassConsistent /\ CommitsCovered
      /\ ReachedInLog /\ CommitIsEarned /\ PassedMessagesAccounted
      /\ RequiredGatesLater
  BY DEF IInv
<1>1. TypeOK' /\ OffsetsOrdered' /\ PassConsistent'
  BY <1>0, NextTypeOK, OrderedStep, PassStep
<1>2. CommitIsEarned' /\ CommitsCovered' /\ PassedMessagesAccounted'
  BY <1>0, EarnedStep, PassedStep
<1>3. ReachedInLog' /\ RequiredGatesLater'
  BY <1>0, GatesStep
<1> QED
  BY <1>1, <1>2, <1>3 DEF IInv

\* The invariant of the smash consumer holds in every reachable state.
THEOREM Invariance == Spec => []IInv
  BY InitIInv, NextIInv, PTL DEF Spec

\* process_message commits an offset only for a message that every required
\* destination has acknowledged or that the no-output policy let go.
THEOREM CommitsAreEarned == Spec => []CommitIsEarned
<1>1. IInv => CommitIsEarned
  BY DEF IInv
<1> QED
  BY <1>1, Invariance, PTL

\* run() never leaves a record behind unless it is settled, in the DLQ or in
\* the error log.
THEOREM PassedAreAccounted == Spec => []PassedMessagesAccounted
<1>1. IInv => PassedMessagesAccounted
  BY DEF IInv
<1> QED
  BY <1>1, Invariance, PTL

\* deliver_to_routes lets nothing reach a destination before the required
\* destinations ahead of it have acknowledged the message.
THEOREM RequiredGates == Spec => []RequiredGatesLater
<1>1. IInv => RequiredGatesLater
  BY DEF IInv
<1> QED
  BY <1>1, Invariance, PTL

\* process_message with asynchronous, losable commits: the group's committed
\* offset never moves back, so a restart never rereads what an earlier commit
\* already covered.
CommittedNeverRewinds ==
    [][\A p \in Partitions : committed'[p] >= committed[p]]_vars

\* Asynchronous commits that may be lost, crashes and rebalances never move the
\* committed offset back.
THEOREM CommittedMonotone == Spec => CommittedNeverRewinds
<1>1. ASSUME IInv, [Next]_vars
      PROVE  [\A p \in Partitions : committed'[p] >= committed[p]]_vars
  <2>0. TypeOK /\ OffsetsOrdered
    BY <1>1 DEF IInv
  <2>1. ASSUME NEW p \in Partitions, NEW q \in Partitions, ApplyCommit(q)
        PROVE  committed'[p] >= committed[p]
    <3>1. /\ committed'[p] = IF p = q THEN Head(pending[p]) ELSE committed[p]
          /\ p = q => pending[p] # <<>>
      BY <2>0, <2>1 DEF ApplyCommit, TypeOK
    <3>2. /\ pending[p] \in Seq(Nat) /\ committed[p] \in Int
          /\ base[p] \in Int /\ position[p] \in Int
          /\ InOrder(pending[p], base[p], committed[p], position[p])
      <4>1. /\ pending[p] \in Seq(Nat)
            /\ base[p] \in Int /\ position[p] \in Int
        BY <2>0 DEF TypeOK
      <4>c. committed[p] \in Int
        BY <2>0 DEF TypeOK, NoOffset
      <4>2. InOrder(pending[p], base[p], committed[p], position[p])
        BY <2>0 DEF OffsetsOrdered, OrderedAt
      <4> QED
        BY <4>1, <4>c, <4>2
    <3>3. p = q => committed[p] <= Head(pending[p])
      BY <3>1, <3>2, TailInOrder
    <3>4. p = q => Head(pending[p]) \in Nat
      BY <3>1, <3>2
    <3> QED
      BY <3>1, <3>2, <3>3, <3>4
  <2>2. ASSUME committed' = committed, NEW p \in Partitions
        PROVE  committed'[p] >= committed[p]
    <3>1. committed[p] \in Int
      BY <2>0 DEF TypeOK, NoOffset
    <3> QED
      BY <2>2, <3>1
  <2>3. ASSUME NEW p \in Partitions, NEW m \in Messages,
               Produce(p, m) \/ LoseCommit(p)
        PROVE  committed' = committed
    BY <2>3 DEF Produce, LoseCommit
  <2>4. ASSUME NEW p \in Partitions,
               RejectMalformed(p) \/ BeginDelivery(p) \/ HandleNoOutput(p)
        PROVE  committed' = committed
    BY <2>4 DEF RejectMalformed, BeginDelivery, HandleNoOutput, Take, kafka
  <2>5. CASE Rebalance \/ Start \/ CommitMessage
    BY <2>2, <2>5 DEF Rebalance, Start, Assign, CommitMessage
  <2>6. CASE UNCHANGED offsets
    BY <2>2, <2>6 DEF offsets
  <2>7. CASE UNCHANGED vars
    BY <2>7
  <2> QED
    BY <1>1, <2>1, <2>2, <2>3, <2>4, <2>5, <2>6, <2>7, QuietSteps
       DEF Next, Receive, ProcessStep, DeliverDestination, Messages
<1> QED
  BY <1>1, Invariance, PTL DEF Spec, CommittedNeverRewinds

-----------------------------------------------------------------------------
(***************************************************************************)
(* SmashConsumer implements SettledOffsets.                                *)
(***************************************************************************)
\* The bound on the log, which Produce keeps.
LogBounded == \A p \in Partitions : Len(log[p]) <= MaxLog

\* The records the consumer is through with, as SettledOffsets sees them.
ThroughSet == {r \in Partitions \X (0..MaxLog) : Through(r[1], r[2])}

\* Only Produce writes to the log, and it stops at the bound.
LEMMA LogBoundedStep == TypeOK /\ LogBounded /\ [Next]_vars => LogBounded'
<1> SUFFICES ASSUME TypeOK, LogBounded, [Next]_vars PROVE LogBounded'
  OBVIOUS
<1>1. ASSUME NEW p \in Partitions, NEW m \in Messages, Produce(p, m)
      PROVE  LogBounded'
  <2>1. ASSUME NEW q \in Partitions PROVE Len(log'[q]) <= MaxLog
    <3>1. log[q] \in Seq(Messages) /\ log'[q] = IF q = p THEN Append(log[q], m) ELSE log[q]
      BY <1>1 DEF Produce, TypeOK
    <3>2. q = p => Len(log[q]) < MaxLog
      BY <1>1 DEF Produce
    <3>3. Len(Append(log[q], m)) = Len(log[q]) + 1 /\ Len(log[q]) \in Nat
      BY <3>1
    <3> QED
      BY <3>1, <3>2, <3>3, ConstantsAssumption DEF LogBounded
  <2> QED
    BY <2>1 DEF LogBounded
<1>2. CASE log' = log
  BY <1>2 DEF LogBounded
<1>3. ASSUME NEW p \in Partitions, ApplyCommit(p) \/ LoseCommit(p)
      PROVE  log' = log
  BY <1>3 DEF ApplyCommit, LoseCommit
<1>4. ASSUME NEW p \in Partitions,
             RejectMalformed(p) \/ BeginDelivery(p) \/ HandleNoOutput(p)
      PROVE  log' = log
  BY <1>4 DEF RejectMalformed, BeginDelivery, HandleNoOutput, Take, kafka
<1>5. CASE Rebalance \/ Start \/ CommitMessage
  BY <1>2, <1>5 DEF Rebalance, Start, Assign, CommitMessage
<1>6. CASE UNCHANGED offsets
  BY <1>2, <1>6 DEF offsets
<1>7. CASE UNCHANGED vars
  BY <1>2, <1>7 DEF vars
<1> QED
  BY <1>1, <1>2, <1>3, <1>4, <1>5, <1>6, <1>7, QuietSteps
     DEF Next, Receive, ProcessStep, DeliverDestination

\* An assignment moves the place where the group began to read forward, and
\* nothing else moves it.
LEMMA BaseGrows ==
    ASSUME TypeOK, OffsetsOrdered, [Next]_vars, NEW p \in Partitions
    PROVE  base[p] <= base'[p]
<1>0. /\ base[p] \in Nat /\ position[p] \in Nat /\ Len(log[p]) \in Nat
      /\ base[p] <= position[p] /\ position[p] <= Len(log[p])
  BY DEF TypeOK, OffsetsOrdered, OrderedAt
<1>1. CASE Rebalance \/ Start
  <2>1. base'[p] = IF committed[p] = NoOffset THEN Len(log[p]) ELSE base[p]
    BY <1>1 DEF Rebalance, Start, Assign
  <2> QED
    BY <1>0, <2>1
<1>2. CASE base' = base
  BY <1>0, <1>2
<1>3. ASSUME NEW q \in Partitions, NEW m \in Messages,
             Produce(q, m) \/ ApplyCommit(q) \/ LoseCommit(q)
      PROVE  base' = base
  BY <1>3 DEF Produce, ApplyCommit, LoseCommit, history
<1>4. ASSUME NEW q \in Partitions,
             RejectMalformed(q) \/ BeginDelivery(q) \/ HandleNoOutput(q)
      PROVE  base' = base
  BY <1>4 DEF RejectMalformed, BeginDelivery, HandleNoOutput, Take
<1>5. CASE CommitMessage
  BY <1>2, <1>5 DEF CommitMessage, history
<1>6. CASE UNCHANGED offsets
  BY <1>2, <1>6 DEF offsets
<1>7. CASE UNCHANGED vars
  BY <1>2, <1>7 DEF vars
<1> QED
  BY <1>1, <1>2, <1>3, <1>4, <1>5, <1>6, <1>7, QuietSteps
     DEF Next, Receive, ProcessStep, DeliverDestination, Messages

\* What the consumer is through with, it stays through with.
LEMMA ThroughStable ==
    ASSUME TypeOK, TypeOK', OffsetsOrdered, [Next]_vars,
           NEW p \in Partitions, NEW o \in Nat, Through(p, o)
    PROVE  Through(p, o)'
<1>1. Grows
  BY StepGrows
<1>2. base[p] \in Nat /\ base'[p] \in Nat /\ base[p] <= base'[p]
  BY BaseGrows DEF TypeOK
<1>3. CASE o < base[p]
  <2>1. o < base'[p]
    BY <1>2, <1>3
  <2> QED
    BY <2>1 DEF Through
<1>4. CASE o < Len(log[p]) /\ Accounted(p, o)
  <2>1. Accounted(p, o)'
    BY <1>1, <1>4, SettledStable
  <2>2. Len(log[p]) \in Nat /\ Len(log'[p]) \in Nat /\ Len(log[p]) <= Len(log'[p])
    <3>1. log[p] \in Seq(Messages) /\ log'[p] \in Seq(Messages)
      BY DEF TypeOK
    <3>2. Len(log[p]) <= Len(log'[p])
      BY <1>1 DEF Grows
    <3> QED
      BY <3>1, <3>2
  <2>3. o < Len(log'[p])
    BY <1>4, <2>2
  <2> QED
    BY <2>1, <2>3 DEF Through, Accounted
<1> QED
  BY <1>3, <1>4 DEF Through, Accounted

\* The broker applies a commit only over records the consumer is through with.
LEMMA AppliedCommit ==
    ASSUME IInv, LogBounded, NEW p \in Partitions, ApplyCommit(p)
    PROVE  Promise!Commit(p)
<1>0. TypeOK /\ OffsetsOrdered /\ CommitsCovered
  BY DEF IInv
<1>1. /\ pending[p] \in Seq(Nat) /\ pending[p] # <<>>
      /\ committed' = [committed EXCEPT ![p] = Head(pending[p])]
      /\ UNCHANGED <<policy, log, base, acked, dlq, errored>>
  BY <1>0 DEF ApplyCommit, TypeOK, history
<1>2. /\ 1 \in DOMAIN pending[p] /\ Head(pending[p]) = pending[p][1]
      /\ Head(pending[p]) \in Nat
  BY <1>1
<1>3. /\ committed'[p] = Head(pending[p])
      /\ committed' = [committed EXCEPT ![p] = committed'[p]]
  BY <1>0, <1>1 DEF TypeOK
<1>4. /\ base[p] \in Nat /\ position[p] \in Nat /\ Len(log[p]) \in Nat
  BY <1>0 DEF TypeOK
<1>5. committed[p] \in Int
  BY <1>0 DEF TypeOK, NoOffset
<1>6. /\ committed[p] <= Head(pending[p]) /\ Head(pending[p]) <= position[p]
      /\ position[p] <= Len(log[p]) /\ Len(log[p]) <= MaxLog
  <2>1. InOrder(pending[p], base[p], committed[p], position[p]) /\ position[p] <= Len(log[p])
    BY <1>0 DEF OffsetsOrdered, OrderedAt
  <2> QED
    BY <1>1, <1>4, <1>5, <2>1, TailInOrder DEF LogBounded
<1>7. Head(pending[p]) \in Commits(p)
  BY <1>2 DEF Commits
<1>8. ASSUME NEW o \in 0..(committed'[p] - 1)
      PROVE  <<p, o>> \in ThroughSet
  <2>1. o \in Nat /\ o < Head(pending[p]) /\ o < Len(log[p]) /\ o \in 0..MaxLog
    BY <1>2, <1>3, <1>4, <1>6, <1>8, ConstantsAssumption
  <2>2. CASE o < base[p]
    BY <2>1, <2>2 DEF ThroughSet, Through
  <2>3. CASE ~(o < base[p])
    <3>1. o \in base[p]..(Head(pending[p]) - 1)
      BY <1>2, <1>4, <2>1, <2>3
    <3>2. Accounted(p, o)
      BY <1>0, <1>7, <3>1 DEF CommitsCovered, AccountedBelow
    <3> QED
      BY <2>1, <3>2 DEF ThroughSet, Through, Accounted
  <2> QED
    BY <2>2, <2>3
<1>9. ThroughSet' = ThroughSet
  BY <1>1 DEF ThroughSet, Through, Settled, Recorded, Message
<1> QED
  BY <1>3, <1>6, <1>8, <1>9 DEF Promise!Commit, ThroughSet

\* Every step settles records, or applies a commit, or does nothing that
\* SettledOffsets sees.
LEMMA PromiseStep ==
    ASSUME IInv, IInv', LogBounded, [Next]_vars
    PROVE  [Promise!Next]_<<ThroughSet, committed>>
<1>0. TypeOK /\ TypeOK' /\ OffsetsOrdered
  BY DEF IInv
<1>1. ThroughSet \subseteq ThroughSet'
  <2>1. ASSUME NEW r \in ThroughSet PROVE r \in ThroughSet'
    <3>1. PICK p \in Partitions, o \in 0..MaxLog : r = <<p, o>>
      BY DEF ThroughSet
    <3>2. o \in Nat /\ Through(p, o)
      BY <3>1, ConstantsAssumption DEF ThroughSet
    <3>3. Through(p, o)'
      BY <1>0, <3>2, ThroughStable
    <3> QED
      BY <3>1, <3>3 DEF ThroughSet
  <2> QED
    BY <2>1
<1>2. CASE committed' = committed
  BY <1>1, <1>2 DEF Promise!Next, Promise!Settle, ThroughSet
<1>3. ASSUME NEW p \in Partitions, ApplyCommit(p)
      PROVE  Promise!Next
  BY <1>3, AppliedCommit DEF Promise!Next
<1>4. ASSUME NEW p \in Partitions, NEW m \in Messages, Produce(p, m) \/ LoseCommit(p)
      PROVE  committed' = committed
  BY <1>4 DEF Produce, LoseCommit
<1>5. ASSUME NEW p \in Partitions,
             RejectMalformed(p) \/ BeginDelivery(p) \/ HandleNoOutput(p)
      PROVE  committed' = committed
  BY <1>5 DEF RejectMalformed, BeginDelivery, HandleNoOutput, Take, kafka
<1>6. CASE Rebalance \/ Start \/ CommitMessage
  BY <1>2, <1>6 DEF Rebalance, Start, Assign, CommitMessage
<1>7. CASE UNCHANGED offsets
  BY <1>2, <1>7 DEF offsets
<1>8. CASE UNCHANGED vars
  BY <1>2, <1>8 DEF vars
<1> QED
  BY <1>2, <1>3, <1>4, <1>5, <1>6, <1>7, <1>8, QuietSteps
     DEF Next, Receive, ProcessStep, DeliverDestination, Messages

\* hook-smash implements SettledOffsets: whatever fails, crashes or is lost, a
\* commit covers only records that are settled, in the DLQ, in the error log or
\* older than the group's start, and the group never goes back.
THEOREM ImplementsSettledOffsets == Spec => CommitsOnlyThrough
<1>1. Init => Promise!Init /\ LogBounded
  <2> SUFFICES ASSUME Init PROVE Promise!Init /\ LogBounded
    OBVIOUS
  <2>1. \A p \in Partitions : base[p] = 0 /\ Len(log[p]) = 0
    BY DEF Init
  <2>2. \A p \in Partitions, o \in 0..MaxLog : ~Through(p, o)
    BY <2>1, ConstantsAssumption DEF Through
  <2>3. ThroughSet = {}
    BY <2>2 DEF ThroughSet
  <2> QED
    BY <2>1, <2>3, ConstantsAssumption DEF Init, Promise!Init, ThroughSet, LogBounded, NoOffset
<1>2. IInv /\ LogBounded /\ [Next]_vars => LogBounded'
  BY LogBoundedStep DEF IInv
<1>3. IInv /\ IInv' /\ LogBounded /\ [Next]_vars => [Promise!Next]_<<ThroughSet, committed>>
  BY PromiseStep
<1> QED
  BY <1>1, <1>2, <1>3, Invariance, PTL
     DEF Spec, CommitsOnlyThrough, Promise!Spec, ThroughSet

============================================================================
