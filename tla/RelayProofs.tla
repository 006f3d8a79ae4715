---------------------------- MODULE RelayProofs -----------------------------
(***************************************************************************)
(* hook relay commits only what it is through with and keeps the order of  *)
(* its source partitions, for every set of partitions, every launch and    *)
(* every number of crashes, rebalances, failed sends and lost commits.     *)
(***************************************************************************)
EXTENDS Relay, SequenceTheorems, TLAPS

\* A record is in the relay's hands.
Busy == pc \in {"send", "backoff", "commit"}

\* The relay is through with the records of p before offset n.
Through(p, n) == \A o \in 0..(n - 1) : Settled(<<p, o>>)

\* Offsets stay in the log, and in their order: where reading began, what is
\* committed, what is about to be, what was read.
Bounds ==
    \A p \in Partitions :
        /\ Len(log[p]) <= MaxLog
        /\ base[p] <= position[p]
        /\ position[p] <= Len(log[p])
        /\ committed[p] <= position[p]
        /\ committed[p] # NoOffset => base[p] <= committed[p]
        /\ \A i \in DOMAIN pending[p] :
              /\ base[p] <= pending[p][i]
              /\ committed[p] <= pending[p][i]
              /\ pending[p][i] <= position[p]
        /\ \A i, j \in DOMAIN pending[p] : i <= j => pending[p][i] <= pending[p][j]

\* What is committed, or handed to the client for it, the relay is through with.
Covered ==
    \A p \in Partitions :
        /\ Through(p, committed[p])
        /\ \A i \in DOMAIN pending[p] : Through(p, pending[p][i])

\* A running relay is through with what it has read, but for the record in
\* its hands.
Reached ==
    pc # "down" =>
        \A p \in Partitions : \A o \in 0..(position[p] - 1) :
            Settled(<<p, o>>) \/ (Busy /\ cur = <<p, o>>)

\* The record in hand is the last one read, one that may be forwarded and that
\* is not older than the place where reading began.
InHand ==
    /\ Busy =>
          /\ position[cur[1]] = cur[2] + 1
          /\ base[cur[1]] <= cur[2]
          /\ Forwardable(log[cur[1]][cur[2] + 1])
    /\ pc = "commit" => cur \in acked

\* A deferred record cannot be forwarded, whenever it is read again.
DeferredRefused ==
    \A r \in deferred :
        /\ r[2] < Len(log[r[1]])
        /\ ~Forwardable(log[r[1]][r[2] + 1])

Copied == {output[i] : i \in DOMAIN output}

\* When a record was first sent the relay was through with those before it.
SentAfterSettled ==
    \A r \in Copied \cup late \cup {x \in {cur} : Busy} : Through(r[1], r[2])

AckedIsCopied == acked \subseteq Copied

RelayInv ==
    /\ TypeOK /\ Bounds /\ Covered /\ Reached /\ InHand /\ DeferredRefused
    /\ SentAfterSettled /\ AckedIsCopied /\ ForwardedInOrder

-----------------------------------------------------------------------------
(***************************************************************************)
(* Types, and what the steps do.                                           *)
(***************************************************************************)
\* The output topic has one place for a record: WithCopy appends or changes
\* nothing.
LEMMA CopyEffect ==
  ASSUME output \in Seq(Offsets), NEW r \in Offsets
  PROVE  /\ WithCopy(r) \in Seq(Offsets)
         /\ Len(output) \in Nat /\ DOMAIN output = 1..Len(output)
         /\ \/ WithCopy(r) = output /\ r \in Copied
            \/ /\ r \notin Copied
               /\ DOMAIN WithCopy(r) = 1..(Len(output) + 1)
               /\ \A i \in DOMAIN output : WithCopy(r)[i] = output[i]
               /\ WithCopy(r)[Len(output) + 1] = r
<1>1. Len(output) \in Nat /\ DOMAIN output = 1..Len(output)
  BY LenProperties
<1>2. CASE \E i \in DOMAIN output : output[i] = r
  BY <1>1, <1>2 DEF WithCopy, Copied
<1>3. CASE ~ \E i \in DOMAIN output : output[i] = r
  <2>1. WithCopy(r) = Append(output, r) /\ r \notin Copied
    BY <1>3 DEF WithCopy, Copied
  <2>2. /\ Append(output, r) \in Seq(Offsets)
        /\ Len(Append(output, r)) = Len(output) + 1
        /\ \A i \in 1..Len(output) : Append(output, r)[i] = output[i]
        /\ Append(output, r)[Len(output) + 1] = r
    BY AppendProperties
  <2>3. DOMAIN Append(output, r) = 1..(Len(output) + 1)
    BY <2>2, LenProperties
  <2> QED
    BY <1>1, <2>1, <2>2, <2>3
<1> QED
  BY <1>2, <1>3

\* Every variable has its type initially.
LEMMA InitTypeOK == Init => TypeOK
  BY RelayAssumption, EmptySeq DEF Init, TypeOK, Offsets, NoOffset

\* A new generation leaves the offsets well typed.
LEMMA AssignType ==
  ASSUME TypeOK, Assign
  PROVE  /\ pending' \in [Partitions -> Seq(Nat)]
         /\ position' \in [Partitions -> Nat]
         /\ base' \in [Partitions -> Nat]
         /\ UNCHANGED <<runtime, log, committed, cur, attempt, output, late,
                        acked, deferred, failed>>
<1>1. \A p \in Partitions : Len(log[p]) \in Nat
  BY LenProperties DEF TypeOK
<1>2. \A p \in Partitions : StartOffset(p) \in Nat
  BY <1>1 DEF TypeOK, StartOffset, NoOffset
<1> QED
  BY <1>1, <1>2, EmptySeq DEF Assign, TypeOK, outcomes

\* Every step keeps the types.
LEMMA NextTypeOK == TypeOK /\ [Next]_vars => TypeOK'
<1> SUFFICES ASSUME TypeOK, [Next]_vars
             PROVE  TypeOK'
  OBVIOUS
<1> USE DEF kafka, outcomes
<1>1. CASE UNCHANGED vars
  BY <1>1 DEF vars, TypeOK
<1>2. CASE Start
  BY <1>2, AssignType DEF Start, TypeOK
<1>3. CASE Rebalance
  BY <1>3, AssignType DEF Rebalance, TypeOK
<1>4. CASE Crash
  BY <1>4 DEF Crash, TypeOK
<1>5. ASSUME NEW r \in late, LandLate(r)
      PROVE  TypeOK'
  <2>1. WithCopy(r) \in Seq(Offsets)
    BY CopyEffect DEF TypeOK
  <2> QED
    BY <1>5, <2>1 DEF LandLate, TypeOK
<1>6. ASSUME NEW p \in Partitions, NEW m \in Records, Append1(p, m)
      PROVE  TypeOK'
  <2>1. log' \in [Partitions -> Seq(Records)]
    BY <1>6 DEF Append1, TypeOK
  <2> QED
    BY <1>6, <2>1 DEF Append1, TypeOK
<1>7. ASSUME NEW p \in Partitions, ApplyCommit(p)
      PROVE  TypeOK'
  <2>1. Head(pending[p]) \in Nat /\ Tail(pending[p]) \in Seq(Nat)
    BY <1>7, HeadTailProperties DEF ApplyCommit, TypeOK
  <2> QED
    BY <1>7, <2>1 DEF ApplyCommit, TypeOK
<1>8. ASSUME NEW p \in Partitions, LoseCommit(p)
      PROVE  TypeOK'
  <2>1. Tail(pending[p]) \in Seq(Nat)
    BY <1>8, HeadTailProperties DEF LoseCommit, TypeOK
  <2> QED
    BY <1>8, <2>1 DEF LoseCommit, TypeOK
<1>9. ASSUME NEW p \in Partitions, Take(p)
      PROVE  /\ cur' \in Offsets /\ position' \in [Partitions -> Nat]
             /\ UNCHANGED <<runtime, log, committed, pending, output, late,
                            disruptions, base>>
  BY <1>9 DEF Take, TypeOK, Offsets
<1>10. ASSUME NEW p \in Partitions, Defer(p)
       PROVE  TypeOK'
  BY <1>9, <1>10 DEF Defer, TypeOK
<1>11. ASSUME NEW p \in Partitions, BeginPublish(p)
       PROVE  TypeOK'
  BY <1>9, <1>11 DEF BeginPublish, TypeOK
<1>12. CASE SendOk
  <2>1. WithCopy(cur) \in Seq(Offsets)
    BY CopyEffect DEF TypeOK
  <2> QED
    BY <1>12, <2>1 DEF SendOk, TypeOK
<1>13. CASE SendErr
  <2>1. WithCopy(cur) \in Seq(Offsets)
    BY CopyEffect DEF TypeOK
  <2>2. output' \in Seq(Offsets) /\ late' \subseteq Offsets
    BY <1>13, <2>1 DEF SendErr, TypeOK
  <2>3. pc' \in {"recv", "backoff"} /\ attempt' \in Nat /\ failed' \subseteq Offsets
    BY <1>13 DEF SendErr, TypeOK
  <2>4. UNCHANGED <<runtime, log, committed, pending, position, cur, disruptions,
                    base, acked, deferred>>
    BY <1>13 DEF SendErr
  <2> QED
    BY <2>2, <2>3, <2>4 DEF TypeOK
<1>14. CASE BackoffOver
  BY <1>14 DEF BackoffOver, TypeOK
<1>15. CASE Commit
  <2>1. cur[1] \in Partitions /\ cur[2] + 1 \in Nat
    BY DEF TypeOK, Offsets
  <2>2. pending' \in [Partitions -> Seq(Nat)]
    <3>1. pending \in [Partitions -> Seq(Nat)]
      BY DEF TypeOK
    <3>2. Append(pending[cur[1]], cur[2] + 1) \in Seq(Nat)
      BY <2>1, <3>1, AppendProperties
    <3> QED
      BY <1>15, <2>1, <3>1, <3>2 DEF Commit
  <2> QED
    BY <1>15, <2>2 DEF Commit, TypeOK
<1> QED
  BY <1>1, <1>2, <1>3, <1>4, <1>5, <1>6, <1>7, <1>8, <1>10, <1>11, <1>12, <1>13,
     <1>14, <1>15 DEF Next, Receive, RelayStep, Produce, ReplayKafka

\* The steps, by the part of the state they touch.
bookkeeping == <<log, base, position, committed, pending>>

\* A step of the relay with the record in hand, a crash, or a late copy leaves
\* the offsets alone.
LEMMA OffsetsKept ==
  ASSUME Crash \/ SendOk \/ SendErr \/ BackoffOver \/ (\E r \in late : LandLate(r))
         \/ UNCHANGED vars
  PROVE  UNCHANGED bookkeeping /\ UNCHANGED <<runtime, cur>>
  BY DEF Crash, SendOk, SendErr, BackoffOver, LandLate, vars, bookkeeping, kafka

\* The disjuncts of Next.
LEMMA NextCases ==
  ASSUME [Next]_vars
  PROVE  \/ Start
         \/ Rebalance
         \/ Crash \/ SendOk \/ SendErr \/ BackoffOver \/ (\E r \in late : LandLate(r))
            \/ UNCHANGED vars
         \/ \E p \in Partitions, m \in Records : Append1(p, m)
         \/ \E p \in Partitions : ApplyCommit(p) \/ LoseCommit(p) \/ Defer(p)
                                  \/ BeginPublish(p)
         \/ Commit
  BY DEF Next, Receive, RelayStep, Produce, ReplayKafka

\* Reading begins where the group stands, or at the end of the log.
LEMMA AssignEffect ==
  ASSUME TypeOK, Assign, NEW p \in Partitions
  PROVE  /\ pending'[p] = <<>> /\ DOMAIN pending'[p] = {}
         /\ \/ /\ committed[p] = NoOffset
               /\ position'[p] = Len(log[p]) /\ base'[p] = Len(log[p])
            \/ /\ committed[p] \in Nat
               /\ position'[p] = committed[p] /\ base'[p] = base[p]
         /\ committed' = committed /\ log' = log
  BY DEF Assign, StartOffset, TypeOK, NoOffset

\* A record is appended behind the others.
LEMMA AppendEffect ==
  ASSUME TypeOK, NEW p \in Partitions, NEW m \in Records, Append1(p, m),
         NEW q \in Partitions
  PROVE  /\ Len(log[q]) \in Nat
         /\ Len(log'[q]) = IF q = p THEN Len(log[q]) + 1 ELSE Len(log[q])
         /\ \A i \in 1..Len(log[q]) : log'[q][i] = log[q][i]
         /\ Len(log[p]) < MaxLog
<1>1. log[p] \in Seq(Records) /\ log[q] \in Seq(Records)
  BY DEF TypeOK
<1>2. log'[q] = IF q = p THEN Append(log[q], m) ELSE log[q]
  BY DEF TypeOK, Append1
<1>3. Len(log[q]) \in Nat /\ Len(log[p]) < MaxLog
  BY <1>1, LenProperties DEF Append1
<1>4. CASE q = p
  BY <1>1, <1>2, <1>3, <1>4, AppendProperties
<1>5. CASE q # p
  BY <1>2, <1>3, <1>5
<1> QED
  BY <1>3, <1>4, <1>5

\* What a commit that leaves the client's queue does to the queue.
LEMMA TailEffect ==
  ASSUME NEW s \in Seq(Nat), s # <<>>
  PROVE  /\ Len(s) \in Nat \ {0} /\ DOMAIN s = 1..Len(s)
         /\ DOMAIN Tail(s) = 1..(Len(s) - 1)
         /\ \A i \in DOMAIN Tail(s) : i + 1 \in DOMAIN s /\ Tail(s)[i] = s[i + 1]
         /\ 1 \in DOMAIN s /\ Head(s) = s[1]
<1>1. Len(s) \in Nat \ {0} /\ DOMAIN s = 1..Len(s)
  BY EmptySeq, LenProperties
<1>2. /\ Tail(s) \in Seq(Nat) /\ Len(Tail(s)) = Len(s) - 1
      /\ \A i \in 1..Len(Tail(s)) : Tail(s)[i] = s[i + 1]
  BY HeadTailProperties
<1>3. DOMAIN Tail(s) = 1..(Len(s) - 1)
  BY <1>2, LenProperties
<1>4. Head(s) = s[1]
  OBVIOUS
<1> QED
  BY <1>1, <1>2, <1>3, <1>4

\* Offsets keep their order in every step.
LEMMA BoundsStep ==
  ASSUME TypeOK, Bounds, InHand, [Next]_vars
  PROVE  Bounds'
<1> USE DEF bookkeeping
<1>0. \A p \in Partitions :
         /\ Len(log[p]) \in Nat /\ position[p] \in Nat /\ base[p] \in Nat
         /\ committed[p] \in Int /\ pending[p] \in Seq(Nat)
         /\ DOMAIN pending[p] = 1..Len(pending[p])
         /\ \A i \in DOMAIN pending[p] : pending[p][i] \in Nat
  <2>1. \A p \in Partitions : log[p] \in Seq(Records) /\ pending[p] \in Seq(Nat)
    BY DEF TypeOK
  <2>2. \A p \in Partitions :
           /\ position[p] \in Nat /\ base[p] \in Nat /\ committed[p] \in Int
    BY DEF TypeOK, NoOffset
  <2> QED
    BY <2>1, <2>2, LenProperties
<1>1. CASE Assign
  BY <1>0, <1>1, AssignEffect DEF Bounds, NoOffset
<1>2. CASE UNCHANGED bookkeeping
  BY <1>2 DEF Bounds
<1>3. ASSUME NEW p \in Partitions, NEW m \in Records, Append1(p, m)
      PROVE  Bounds'
  <2>1. UNCHANGED <<base, position, committed, pending>>
    BY <1>3 DEF Append1
  <2>2. \A q \in Partitions : Len(log'[q]) <= MaxLog /\ Len(log[q]) <= Len(log'[q])
                              /\ Len(log'[q]) \in Nat
    BY <1>0, <1>3, AppendEffect, RelayAssumption DEF Bounds
  <2> QED
    BY <1>0, <2>1, <2>2 DEF Bounds
<1>4. ASSUME NEW p \in Partitions, ApplyCommit(p)
      PROVE  Bounds'
  <2>1. /\ committed' = [committed EXCEPT ![p] = Head(pending[p])]
        /\ pending' = [pending EXCEPT ![p] = Tail(@)]
        /\ pending[p] # <<>> /\ UNCHANGED <<log, base, position>>
    BY <1>4 DEF ApplyCommit
  <2>2. /\ committed'[p] = Head(pending[p]) /\ pending'[p] = Tail(pending[p])
        /\ \A q \in Partitions \ {p} : committed'[q] = committed[q]
                                       /\ pending'[q] = pending[q]
    BY <2>1 DEF TypeOK
  <2>3. /\ 1 \in DOMAIN pending[p] /\ Head(pending[p]) = pending[p][1]
        /\ \A i \in DOMAIN Tail(pending[p]) :
              i \in Int /\ 1 <= i + 1 /\ i + 1 \in DOMAIN pending[p]
              /\ Tail(pending[p])[i] = pending[p][i + 1]
    BY <1>0, <2>1, TailEffect
  <2>4. /\ base[p] <= committed'[p] /\ committed'[p] <= position[p]
        /\ \A i \in DOMAIN pending'[p] :
              /\ base[p] <= pending'[p][i]
              /\ committed'[p] <= pending'[p][i]
              /\ pending'[p][i] <= position[p]
    BY <2>2, <2>3 DEF Bounds
  <2>5. ASSUME NEW i \in DOMAIN pending'[p], NEW j \in DOMAIN pending'[p], i <= j
        PROVE  pending'[p][i] <= pending'[p][j]
    <3>1. /\ i + 1 \in DOMAIN pending[p] /\ j + 1 \in DOMAIN pending[p]
          /\ i + 1 <= j + 1
          /\ pending'[p][i] = pending[p][i + 1] /\ pending'[p][j] = pending[p][j + 1]
      BY <2>2, <2>3, <2>5
    <3> QED
      BY <3>1 DEF Bounds
  <2>6. ASSUME NEW q \in Partitions
        PROVE  /\ committed'[q] <= position[q]
               /\ committed'[q] # NoOffset => base[q] <= committed'[q]
               /\ \A i \in DOMAIN pending'[q] :
                     /\ base[q] <= pending'[q][i]
                     /\ committed'[q] <= pending'[q][i]
                     /\ pending'[q][i] <= position[q]
               /\ \A i, j \in DOMAIN pending'[q] :
                     i <= j => pending'[q][i] <= pending'[q][j]
    <3>1. CASE q = p
      BY <2>4, <2>5, <3>1
    <3>2. CASE q # p
      BY <2>2, <3>2 DEF Bounds
    <3> QED
      BY <3>1, <3>2
  <2> QED
    BY <2>1, <2>6 DEF Bounds
<1>5. ASSUME NEW p \in Partitions, LoseCommit(p)
      PROVE  Bounds'
  <2>1. /\ pending' = [pending EXCEPT ![p] = Tail(@)]
        /\ pending[p] # <<>> /\ UNCHANGED <<log, base, position, committed>>
    BY <1>5 DEF LoseCommit
  <2>2. /\ pending'[p] = Tail(pending[p])
        /\ \A q \in Partitions \ {p} : pending'[q] = pending[q]
    BY <2>1 DEF TypeOK
  <2>3. \A i \in DOMAIN Tail(pending[p]) :
              i \in Int /\ i + 1 \in DOMAIN pending[p]
              /\ Tail(pending[p])[i] = pending[p][i + 1]
    BY <1>0, <2>1, TailEffect
  <2>4. /\ \A i \in DOMAIN pending'[p] :
              /\ base[p] <= pending'[p][i]
              /\ committed[p] <= pending'[p][i]
              /\ pending'[p][i] <= position[p]
        /\ \A i, j \in DOMAIN pending'[p] : i <= j => pending'[p][i] <= pending'[p][j]
    BY <2>2, <2>3 DEF Bounds
  <2> QED
    BY <2>1, <2>2, <2>4 DEF Bounds
<1>6. ASSUME NEW p \in Partitions, Take(p)
      PROVE  Bounds'
  <2>1. /\ UNCHANGED <<log, base, committed, pending>>
        /\ position'[p] = position[p] + 1 /\ position[p] < Len(log[p])
        /\ \A q \in Partitions \ {p} : position'[q] = position[q]
    BY <1>6 DEF Take, TypeOK, kafka
  <2>2. \A q \in Partitions : position[q] <= position'[q] /\ position'[q] <= Len(log[q])
                              /\ position'[q] \in Nat
    BY <1>0, <2>1 DEF Bounds
  <2> QED
    BY <1>0, <2>1, <2>2 DEF Bounds
<1>7. CASE Commit /\ pending' # pending
  <2> DEFINE p == cur[1]
             n == cur[2] + 1
  <2>1. /\ p \in Partitions /\ n \in Nat /\ position[p] = n /\ base[p] <= n
    BY <1>7 DEF TypeOK, Offsets, InHand, Commit, Busy
  <2>2. /\ pending' = [pending EXCEPT ![p] = Append(@, n)]
        /\ UNCHANGED <<log, base, position, committed>>
    BY <1>7 DEF Commit
  <2>3. /\ pending'[p] = Append(pending[p], n)
        /\ \A q \in Partitions \ {p} : pending'[q] = pending[q]
    BY <2>1, <2>2 DEF TypeOK
  <2> HIDE DEF p, n
  <2>4. /\ Len(pending[p]) \in Nat /\ DOMAIN pending[p] = 1..Len(pending[p])
        /\ DOMAIN pending'[p] = 1..(Len(pending[p]) + 1)
        /\ \A i \in DOMAIN pending[p] : pending'[p][i] = pending[p][i]
        /\ pending'[p][Len(pending[p]) + 1] = n
    <3>1. pending[p] \in Seq(Nat)
      BY <1>0, <2>1
    <3>2. /\ Append(pending[p], n) \in Seq(Nat)
          /\ Len(Append(pending[p], n)) = Len(pending[p]) + 1
          /\ \A i \in 1..Len(pending[p]) : Append(pending[p], n)[i] = pending[p][i]
          /\ Append(pending[p], n)[Len(pending[p]) + 1] = n
      BY <2>1, <3>1, AppendProperties
    <3> QED
      BY <2>3, <3>1, <3>2, LenProperties
  <2>5. \A i \in DOMAIN pending'[p] :
           /\ pending'[p][i] \in Nat
           /\ base[p] <= pending'[p][i]
           /\ committed[p] <= pending'[p][i]
           /\ pending'[p][i] <= position[p]
    BY <1>0, <2>1, <2>4 DEF Bounds
  <2>6. \A i, j \in DOMAIN pending'[p] : i <= j => pending'[p][i] <= pending'[p][j]
    <3>1. SUFFICES ASSUME NEW i \in DOMAIN pending'[p], NEW j \in DOMAIN pending'[p], i <= j
                   PROVE  pending'[p][i] <= pending'[p][j]
      OBVIOUS
    <3>2. CASE j = Len(pending[p]) + 1
      BY <2>1, <2>4, <2>5, <3>2
    <3>3. CASE j \in DOMAIN pending[p]
      <4>1. i \in DOMAIN pending[p]
        BY <2>4, <3>1, <3>3
      <4> QED
        BY <2>1, <2>4, <3>1, <3>3, <4>1 DEF Bounds
    <3> QED
      BY <2>4, <3>2, <3>3
  <2>7. ASSUME NEW q \in Partitions
        PROVE  /\ \A i \in DOMAIN pending'[q] :
                     /\ base[q] <= pending'[q][i]
                     /\ committed[q] <= pending'[q][i]
                     /\ pending'[q][i] <= position[q]
               /\ \A i, j \in DOMAIN pending'[q] : i <= j => pending'[q][i] <= pending'[q][j]
    <3>1. CASE q = p
      BY <2>5, <2>6, <3>1
    <3>2. CASE q # p
      BY <2>3, <3>2 DEF Bounds
    <3> QED
      BY <3>1, <3>2
  <2> QED
    BY <2>2, <2>7 DEF Bounds
<1>8. CASE Commit /\ pending' = pending
  BY <1>2, <1>8 DEF Commit
<1> QED
  BY <1>1, <1>2, <1>3, <1>4, <1>5, <1>6, <1>7, <1>8, NextCases, OffsetsKept
     DEF Start, Rebalance, Defer, BeginPublish

-----------------------------------------------------------------------------
(***************************************************************************)
(* What the relay is through with.                                         *)
(***************************************************************************)
\* Numbers in the state.
LEMMA Numbers ==
  ASSUME TypeOK
  PROVE  /\ \A p \in Partitions :
               /\ Len(log[p]) \in Nat /\ position[p] \in Nat /\ base[p] \in Nat
               /\ committed[p] \in Int
               /\ \A i \in DOMAIN pending[p] : pending[p][i] \in Nat
         /\ cur[1] \in Partitions /\ cur[2] \in Nat /\ cur = <<cur[1], cur[2]>>
<1>1. \A p \in Partitions : log[p] \in Seq(Records) /\ pending[p] \in Seq(Nat)
  BY DEF TypeOK
<1>2. \A p \in Partitions :
         /\ position[p] \in Nat /\ base[p] \in Nat /\ committed[p] \in Int
  BY DEF TypeOK, NoOffset
<1>3. cur[1] \in Partitions /\ cur[2] \in Nat /\ cur = <<cur[1], cur[2]>>
  BY DEF TypeOK, Offsets
<1> QED
  BY <1>1, <1>2, <1>3, LenProperties

\* A record that is dealt with stays so.
LEMMA SettledGrows ==
  ASSUME TypeOK, Bounds, [Next]_vars, NEW p \in Partitions, NEW o \in Nat,
         Settled(<<p, o>>)
  PROVE  Settled(<<p, o>>)'
<1>1. acked \subseteq acked' /\ deferred \subseteq deferred' /\ failed \subseteq failed'
  <2>1. CASE SendOk
    BY <2>1 DEF SendOk
  <2>2. CASE SendErr
    BY <2>2 DEF SendErr
  <2>3. ASSUME NEW q \in Partitions, Defer(q)
        PROVE  acked \subseteq acked' /\ deferred \subseteq deferred'
               /\ failed \subseteq failed'
    BY <2>3 DEF Defer
  <2> QED
    BY <2>1, <2>2, <2>3, NextCases
       DEF Start, Rebalance, Assign, Crash, BackoffOver, LandLate, vars, Append1,
           ApplyCommit, LoseCommit, BeginPublish, Commit, outcomes
<1>2. base[p] <= base'[p] /\ base[p] \in Nat /\ base'[p] \in Nat
  <2>1. CASE Assign
    BY <2>1, AssignEffect, Numbers DEF Bounds
  <2>2. CASE UNCHANGED base
    BY <2>2, Numbers
  <2> QED
    BY <2>1, <2>2, NextCases, OffsetsKept
       DEF Start, Rebalance, bookkeeping, Append1, ApplyCommit, LoseCommit, Defer,
           BeginPublish, Take, Commit
<1> QED
  BY <1>1, <1>2 DEF Settled

\* What is settled through an offset stays settled.
LEMMA ThroughGrows ==
  ASSUME TypeOK, Bounds, [Next]_vars, NEW p \in Partitions, NEW n \in Int,
         Through(p, n)
  PROVE  Through(p, n)'
<1>1. \A o \in 0..(n - 1) : Settled(<<p, o>>)'
  BY SettledGrows DEF Through
<1> QED
  BY <1>1 DEF Through

\* A commit is handed over when everything up to its record is dealt with.
LEMMA CoveredStep ==
  ASSUME TypeOK, Bounds, Covered, Reached, InHand, [Next]_vars
  PROVE  Covered'
<1>0. /\ \A p \in Partitions : committed[p] \in Int
      /\ \A p \in Partitions : \A i \in DOMAIN pending[p] : pending[p][i] \in Nat
      /\ cur[1] \in Partitions /\ cur[2] \in Nat /\ cur = <<cur[1], cur[2]>>
      /\ \A p \in Partitions : pending[p] \in Seq(Nat)
  BY Numbers DEF TypeOK
<1>1. ASSUME NEW p \in Partitions
      PROVE  /\ Through(p, committed[p])'
                  \/ committed'[p] # committed[p]
             /\ \A i \in DOMAIN pending[p] : \A n \in Int :
                   n = pending[p][i] => Through(p, n)'
  <2>1. \A n \in Int : n = committed[p] => Through(p, n)'
    BY <1>0, ThroughGrows DEF Covered
  <2>2. Through(p, committed[p])' \/ committed'[p] # committed[p]
    BY <1>0, <2>1 DEF Through
  <2>3. ASSUME NEW i \in DOMAIN pending[p], NEW n \in Int, n = pending[p][i]
        PROVE  Through(p, n)'
    BY <2>3, ThroughGrows DEF Covered
  <2> QED
    BY <2>2, <2>3
<1>2. CASE UNCHANGED <<committed, pending>>
  <2>1. ASSUME NEW p \in Partitions, NEW i \in DOMAIN pending'[p]
        PROVE  Through(p, pending[p][i])'
    <3>1. i \in DOMAIN pending[p] /\ pending'[p][i] = pending[p][i]
      BY <1>2, <2>1
    <3> QED
      BY <1>0, <1>1, <3>1 DEF Through
  <2> QED
    BY <1>1, <1>2, <2>1 DEF Covered
<1>3. CASE Assign
  BY <1>1, <1>3, AssignEffect DEF Covered
<1>4. ASSUME NEW p \in Partitions, pending[p] # <<>>,
             pending' = [pending EXCEPT ![p] = Tail(@)]
      PROVE  \A q \in Partitions : \A i \in DOMAIN pending'[q] : Through(q, pending[q][i])'
  <2>1. /\ pending'[p] = Tail(pending[p])
        /\ \A q \in Partitions \ {p} : pending'[q] = pending[q]
    BY <1>4 DEF TypeOK
  <2>2. \A i \in DOMAIN Tail(pending[p]) :
           i + 1 \in DOMAIN pending[p] /\ Tail(pending[p])[i] = pending[p][i + 1]
    BY <1>0, <1>4, TailEffect
  <2>3. ASSUME NEW q \in Partitions, NEW i \in DOMAIN pending'[q]
        PROVE  Through(q, pending[q][i])'
    <3>1. \E j \in DOMAIN pending[q] : pending'[q][i] = pending[q][j]
      BY <2>1, <2>2, <2>3
    <3> QED
      BY <1>0, <1>1, <3>1 DEF Through
  <2> QED
    BY <2>3
<1>5. ASSUME NEW p \in Partitions, ApplyCommit(p)
      PROVE  Covered'
  <2>1. /\ committed'[p] = Head(pending[p]) /\ pending[p] # <<>>
        /\ \A q \in Partitions \ {p} : committed'[q] = committed[q]
    BY <1>5 DEF ApplyCommit, TypeOK
  <2>2. 1 \in DOMAIN pending[p] /\ Head(pending[p]) = pending[p][1]
    BY <1>0, <2>1, TailEffect
  <2>3. Through(p, committed[p])'
    BY <1>0, <1>1, <2>1, <2>2 DEF Through
  <2>4. \A q \in Partitions : Through(q, committed[q])'
    BY <1>1, <2>1, <2>3
  <2> QED
    BY <1>4, <1>5, <2>1, <2>4 DEF ApplyCommit, Covered
<1>6. ASSUME NEW p \in Partitions, LoseCommit(p)
      PROVE  Covered'
  BY <1>1, <1>4, <1>6 DEF LoseCommit, Covered
<1>7. CASE Commit /\ pending' # pending
  <2>0. PICK p \in Partitions, n \in Nat : p = cur[1] /\ n = cur[2] + 1
    BY <1>0
  <2>1. position[p] = n /\ cur \in acked /\ pc = "commit"
    BY <1>0, <1>7, <2>0 DEF InHand, Commit, Busy
  <2>2. Through(p, n)
    <3>1. \A o \in 0..(n - 1) : Settled(<<p, o>>) \/ <<p, o>> \in acked
      BY <2>1 DEF Reached
    <3> QED
      BY <3>1 DEF Through, Settled
  <2>3. Through(p, n)'
    BY <2>1, <2>2, ThroughGrows
  <2>4. /\ pending' = [pending EXCEPT ![p] = Append(@, n)] /\ UNCHANGED committed
    BY <1>7, <2>0 DEF Commit
  <2>5. /\ pending'[p] = Append(pending[p], n)
        /\ \A q \in Partitions \ {p} : pending'[q] = pending[q]
    BY <2>4 DEF TypeOK
  <2>6. \A i \in DOMAIN pending'[p] :
           \/ pending'[p][i] = n
           \/ \E j \in DOMAIN pending[p] : pending'[p][i] = pending[p][j]
    <3>1. pending[p] \in Seq(Nat)
      BY <1>0, <2>1
    <3>2. /\ Append(pending[p], n) \in Seq(Nat)
          /\ Len(Append(pending[p], n)) = Len(pending[p]) + 1
          /\ \A i \in 1..Len(pending[p]) : Append(pending[p], n)[i] = pending[p][i]
          /\ Append(pending[p], n)[Len(pending[p]) + 1] = n
      BY <2>1, <3>1, AppendProperties
    <3>3. /\ Len(pending[p]) \in Nat /\ DOMAIN pending[p] = 1..Len(pending[p])
          /\ DOMAIN pending'[p] = 1..(Len(pending[p]) + 1)
      BY <2>5, <3>1, <3>2, LenProperties
    <3> QED
      BY <2>5, <3>2, <3>3
  <2>7. ASSUME NEW q \in Partitions, NEW i \in DOMAIN pending'[q]
        PROVE  Through(q, pending[q][i])'
    <3>1. CASE q = p /\ pending'[p][i] = n
      BY <2>3, <3>1 DEF Through
    <3>2. CASE \E j \in DOMAIN pending[q] : pending'[q][i] = pending[q][j]
      BY <1>0, <1>1, <3>2 DEF Through
    <3> QED
      BY <2>5, <2>6, <2>7, <3>1, <3>2
  <2> QED
    BY <1>1, <2>4, <2>7 DEF Covered
<1>8. CASE Commit /\ pending' = pending
  BY <1>2, <1>8 DEF Commit
<1> QED
  BY <1>2, <1>3, <1>5, <1>6, <1>7, <1>8, NextCases, OffsetsKept
     DEF Start, Rebalance, bookkeeping, Append1, Defer, BeginPublish, Take, kafka

\* What Take does: the record in hand is the last one read.
LEMMA TakeEffect ==
  ASSUME TypeOK, NEW p \in Partitions, Take(p)
  PROVE  /\ pc = "recv" /\ ~Busy
         /\ cur' = <<p, position[p]>> /\ position[p] \in Nat
         /\ position[p] < Len(log[p])
         /\ position'[p] = position[p] + 1
         /\ \A q \in Partitions \ {p} : position'[q] = position[q]
         /\ UNCHANGED <<runtime, log, committed, pending, output, late, base>>
  BY DEF Take, TypeOK, kafka, Busy

\* A running relay stays through with what it has read.
LEMMA ReachedStep ==
  ASSUME TypeOK, Bounds, Covered, Reached, InHand, [Next]_vars
  PROVE  Reached'
<1>0. \A p \in Partitions :
         /\ Len(log[p]) \in Nat /\ position[p] \in Nat /\ base[p] \in Nat
         /\ committed[p] \in Int
  BY Numbers
<1>1. ASSUME Assign
      PROVE  Reached'
  <2> SUFFICES ASSUME NEW p \in Partitions, NEW o \in 0..(position'[p] - 1)
               PROVE  Settled(<<p, o>>)'
    BY DEF Reached
  <2>1. CASE position'[p] = base'[p] /\ base'[p] \in Nat
    BY <2>1 DEF Settled
  <2>2. CASE committed[p] \in Nat /\ position'[p] = committed[p]
    BY <2>2, SettledGrows DEF Covered, Through
  <2> QED
    BY <1>0, <1>1, <2>1, <2>2, AssignEffect
<1>2. ASSUME UNCHANGED <<position, cur>>, pc # "down",
             Busy => Busy' \/ Settled(cur) \/ Settled(cur)'
      PROVE  Reached'
  <2> SUFFICES ASSUME NEW p \in Partitions, NEW o \in 0..(position[p] - 1)
               PROVE  Settled(<<p, o>>)' \/ (Busy' /\ cur = <<p, o>>)
    BY <1>2 DEF Reached
  <2>1. o \in Nat
    BY <1>0
  <2>2. CASE Settled(<<p, o>>)
    BY <2>1, <2>2, SettledGrows
  <2>3. CASE Busy /\ cur = <<p, o>>
    <3>1. CASE Busy'
      BY <2>3, <3>1
    <3>2. CASE Settled(cur)
      BY <2>1, <2>3, <3>2, SettledGrows
    <3>3. CASE Settled(cur)'
      BY <1>2, <2>3, <3>3
    <3> QED
      BY <1>2, <2>3, <3>1, <3>2, <3>3
  <2> QED
    BY <1>2, <2>2, <2>3 DEF Reached
<1>3. ASSUME NEW p \in Partitions, Take(p), Busy' \/ Settled(cur)', pc' # "down"
      PROVE  Reached'
  <2> SUFFICES ASSUME NEW q \in Partitions, NEW o \in 0..(position'[q] - 1)
               PROVE  Settled(<<q, o>>)' \/ (Busy' /\ cur' = <<q, o>>)
    BY DEF Reached
  <2>1. CASE q = p /\ o = position[p]
    <3>1. cur' = <<q, o>>
      BY <1>3, <2>1, TakeEffect
    <3> QED
      BY <1>3, <3>1
  <2>2. CASE o \in 0..(position[q] - 1)
    <3>1. Settled(<<q, o>>)
      BY <1>3, <2>2, TakeEffect DEF Reached
    <3> QED
      BY <1>0, <2>2, <3>1, SettledGrows
  <2> QED
    BY <1>0, <1>3, <2>1, <2>2, TakeEffect
<1>4. CASE Crash
  BY <1>4 DEF Crash, Reached
<1>5. CASE SendOk
  <2>1. Settled(cur)' /\ UNCHANGED <<position, cur>> /\ pc # "down"
    BY <1>5 DEF SendOk, Settled
  <2> QED
    BY <1>2, <2>1
<1>6. CASE SendErr
  <2>1. UNCHANGED <<position, cur>> /\ pc # "down"
    BY <1>6 DEF SendErr
  <2>2. Settled(cur)' \/ pc' = "backoff"
    BY <1>6, <2>1 DEF SendErr, Settled
  <2> QED
    BY <1>2, <2>1, <2>2 DEF Busy
<1>7. CASE BackoffOver
  BY <1>2, <1>7 DEF BackoffOver, Busy
<1>8. CASE Commit
  <2>1. Settled(cur)
    BY <1>8 DEF Commit, InHand, Settled
  <2> QED
    BY <1>2, <1>8, <2>1 DEF Commit
<1>9. ASSUME NEW p \in Partitions, Defer(p)
      PROVE  Reached'
  <2>1. Take(p) /\ pc' = pc /\ deferred' = deferred \cup {cur'}
    BY <1>9 DEF Defer
  <2>2. Settled(cur)' /\ pc = "recv"
    BY <2>1, TakeEffect DEF Settled
  <2> QED
    BY <1>3, <2>1, <2>2
<1>10. ASSUME NEW p \in Partitions, BeginPublish(p)
       PROVE  Reached'
  BY <1>3, <1>10 DEF BeginPublish, Busy
<1>11. CASE UNCHANGED <<position, cur, pc>>
  <2>1. CASE pc # "down"
    BY <1>2, <1>11, <2>1 DEF Busy
  <2>2. CASE pc = "down"
    BY <1>11, <2>2 DEF Reached
  <2> QED
    BY <2>1, <2>2
<1> QED
  BY <1>1, <1>4, <1>5, <1>6, <1>7, <1>8, <1>9, <1>10, <1>11, NextCases
     DEF Start, Rebalance, LandLate, Append1, ApplyCommit, LoseCommit, vars

\* The record in hand stays what it is until the relay lets go of it.
LEMMA InHandStep ==
  ASSUME TypeOK, Bounds, InHand, [Next]_vars
  PROVE  InHand'
<1>0. /\ \A p \in Partitions : Len(log[p]) \in Nat /\ position[p] \in Nat
                               /\ base[p] \in Nat
      /\ cur[1] \in Partitions /\ cur[2] \in Nat
  BY Numbers
<1>1. CASE ~Busy'
  BY <1>1 DEF InHand, Busy
<1>2. CASE /\ UNCHANGED <<runtime, log, position, base, cur>>
           /\ Busy' => Busy
           /\ pc' = "commit" => cur \in acked'
  BY <1>2 DEF InHand, Forwardable
<1>3. CASE SendOk
  BY <1>2, <1>3 DEF SendOk, kafka, Busy
<1>4. ASSUME NEW p \in Partitions, BeginPublish(p)
      PROVE  InHand'
  <2>1. Take(p) /\ Forwardable(Record(p)) /\ pc' = "send"
    BY <1>4 DEF BeginPublish
  <2>2. /\ cur'[1] = p /\ cur'[2] = position[p] /\ position'[p] = position[p] + 1
        /\ UNCHANGED <<runtime, log, base>>
    BY <2>1, TakeEffect
  <2>3. base[p] <= position[p]
    BY DEF Bounds
  <2> QED
    BY <2>1, <2>2, <2>3 DEF InHand, Forwardable, Record
<1>5. ASSUME NEW p \in Partitions, NEW m \in Records, Append1(p, m), Busy
      PROVE  InHand'
  <2>1. UNCHANGED <<runtime, position, base, cur, pc, acked>>
    BY <1>5 DEF Append1, outcomes
  <2>2. /\ position[cur[1]] = cur[2] + 1 /\ base[cur[1]] <= cur[2]
        /\ Forwardable(log[cur[1]][cur[2] + 1])
        /\ position[cur[1]] <= Len(log[cur[1]])
    BY <1>0, <1>5 DEF InHand, Bounds
  <2>3. cur[2] + 1 \in 1..Len(log[cur[1]])
    BY <1>0, <2>2
  <2>4. log'[cur[1]][cur[2] + 1] = log[cur[1]][cur[2] + 1]
    BY <1>0, <1>5, <2>3, AppendEffect
  <2> QED
    BY <2>1, <2>2, <2>4 DEF InHand, Forwardable
<1>6. CASE Start \/ Rebalance \/ Crash \/ Commit
  BY <1>1, <1>6 DEF Start, Rebalance, Crash, Commit, Busy
<1>7. CASE SendErr
  BY <1>2, <1>7 DEF SendErr, kafka, Busy
<1>8. CASE BackoffOver
  BY <1>2, <1>8 DEF BackoffOver, kafka, Busy
<1>9. CASE UNCHANGED <<runtime, log, position, base, cur, pc, acked>>
  BY <1>9 DEF InHand, Forwardable, Busy
<1>10. ASSUME NEW p \in Partitions, Defer(p)
       PROVE  InHand'
  BY <1>1, <1>10 DEF Defer, Take, Busy
<1>11. ASSUME NEW p \in Partitions, NEW m \in Records, Append1(p, m), ~Busy
       PROVE  InHand'
  BY <1>1, <1>11 DEF Append1, Busy
<1> QED
  BY <1>3, <1>4, <1>5, <1>6, <1>7, <1>8, <1>9, <1>10, <1>11, NextCases
     DEF LandLate, ApplyCommit, LoseCommit, vars, kafka, outcomes

\* The log is append-only and the mode fixed, so a deferred record is refused
\* for good.
LEMMA DeferredStep ==
  ASSUME TypeOK, DeferredRefused, [Next]_vars
  PROVE  DeferredRefused'
<1>0. \A r \in deferred : r[1] \in Partitions /\ r[2] \in Nat /\ Len(log[r[1]]) \in Nat
  BY Numbers DEF TypeOK, Offsets
<1>1. CASE UNCHANGED <<runtime, log, deferred>>
  BY <1>1 DEF DeferredRefused, Forwardable
<1>2. ASSUME NEW p \in Partitions, NEW m \in Records, Append1(p, m)
      PROVE  DeferredRefused'
  <2>1. UNCHANGED <<runtime, deferred>>
    BY <1>2 DEF Append1, outcomes
  <2>2. ASSUME NEW r \in deferred
        PROVE  /\ r[2] < Len(log'[r[1]])
               /\ log'[r[1]][r[2] + 1] = log[r[1]][r[2] + 1]
    <3>1. r[2] < Len(log[r[1]]) /\ r[2] + 1 \in 1..Len(log[r[1]])
      BY <1>0 DEF DeferredRefused
    <3>2. /\ \A k \in 1..Len(log[r[1]]) : log'[r[1]][k] = log[r[1]][k]
          /\ Len(log'[r[1]]) \in {Len(log[r[1]]), Len(log[r[1]]) + 1}
      BY <1>0, <1>2, AppendEffect
    <3> QED
      BY <1>0, <3>1, <3>2
  <2> QED
    BY <2>1, <2>2 DEF DeferredRefused, Forwardable
<1>3. ASSUME NEW p \in Partitions, Defer(p)
      PROVE  DeferredRefused'
  <2>1. Take(p) /\ ~Forwardable(Record(p)) /\ deferred' = deferred \cup {cur'}
    BY <1>3 DEF Defer
  <2>2. /\ cur' = <<p, position[p]>> /\ position[p] < Len(log[p])
        /\ UNCHANGED <<runtime, log>>
    BY <2>1, TakeEffect
  <2> QED
    BY <2>1, <2>2 DEF DeferredRefused, Forwardable, Record
<1> QED
  BY <1>1, <1>2, <1>3, NextCases, OffsetsKept
     DEF Start, Rebalance, Assign, Crash, SendOk, SendErr, BackoffOver, LandLate,
         vars, ApplyCommit, LoseCommit, BeginPublish, Take, Commit, kafka, outcomes

-----------------------------------------------------------------------------
(***************************************************************************)
(* The order of the copies.                                                *)
(***************************************************************************)
\* A new copy goes behind the others, and a record has one place.
LEMMA CopiedGrows ==
  ASSUME TypeOK, NEW r \in Offsets, output' = WithCopy(r)
  PROVE  /\ Copied' = Copied \cup {r}
         /\ \A j \in DOMAIN output' :
               \/ j \in DOMAIN output /\ output'[j] = output[j]
               \/ /\ output'[j] = r /\ r \notin Copied
                  /\ \A i \in DOMAIN output : i \in 1..(j - 1)
         /\ \A i \in DOMAIN output : i \in DOMAIN output' /\ output'[i] = output[i]
<1>1. /\ Len(output) \in Nat /\ DOMAIN output = 1..Len(output)
      /\ \/ output' = output /\ r \in Copied
         \/ /\ r \notin Copied
            /\ DOMAIN output' = 1..(Len(output) + 1)
            /\ \A i \in DOMAIN output : output'[i] = output[i]
            /\ output'[Len(output) + 1] = r
  BY CopyEffect DEF TypeOK
<1>2. CASE output' = output /\ r \in Copied
  BY <1>2 DEF Copied
<1>3. CASE /\ r \notin Copied
           /\ DOMAIN output' = 1..(Len(output) + 1)
           /\ \A i \in DOMAIN output : output'[i] = output[i]
           /\ output'[Len(output) + 1] = r
  <2>1. \A i \in DOMAIN output : i \in DOMAIN output' /\ output'[i] = output[i]
    BY <1>1, <1>3
  <2>2. \A j \in DOMAIN output' :
           \/ j \in DOMAIN output /\ output'[j] = output[j]
           \/ /\ output'[j] = r
              /\ \A i \in DOMAIN output : i \in 1..(j - 1)
    BY <1>1, <1>3
  <2>3. Len(output) + 1 \in DOMAIN output' /\ output'[Len(output) + 1] = r
    BY <1>1, <1>3
  <2>4. Copied' = Copied \cup {r}
    BY <2>1, <2>2, <2>3 DEF Copied
  <2> QED
    BY <1>3, <2>1, <2>2, <2>4
<1> QED
  BY <1>1, <1>2, <1>3

\* The steps by what they add to the output topic and to what is on its way.
LEMMA CopyCases ==
  ASSUME TypeOK, [Next]_vars
  PROVE  /\ \/ UNCHANGED output
            \/ \E r \in late : output' = WithCopy(r) /\ UNCHANGED <<acked, failed>>
            \/ Busy /\ output' = WithCopy(cur) /\ acked \subseteq acked'
                    /\ acked' \subseteq acked \cup {cur}
         /\ late' \subseteq late \cup {x \in {cur} : Busy}
         /\ \/ Busy' => Busy /\ cur' = cur
            \/ \E p \in Partitions : BeginPublish(p)
         /\ UNCHANGED acked \/ SendOk
         /\ failed \subseteq failed'
<1> USE DEF Busy, kafka, outcomes
<1>1. CASE Start \/ Rebalance
  BY <1>1 DEF Start, Rebalance, Assign
<1>2. CASE Crash
  BY <1>2 DEF Crash
<1>3. CASE SendOk
  BY <1>3 DEF SendOk
<1>4. CASE SendErr
  BY <1>4 DEF SendErr
<1>5. CASE BackoffOver \/ Commit \/ UNCHANGED vars
  BY <1>5 DEF BackoffOver, Commit, vars
<1>6. ASSUME NEW r \in late, LandLate(r)
      PROVE  /\ output' = WithCopy(r) /\ late' \subseteq late
             /\ UNCHANGED <<acked, failed, pc, cur>>
  BY <1>6 DEF LandLate
<1>7. ASSUME NEW p \in Partitions, NEW m \in Records, Append1(p, m)
      PROVE  UNCHANGED <<output, late, acked, failed, pc, cur>>
  BY <1>7 DEF Append1
<1>8. ASSUME NEW p \in Partitions, ApplyCommit(p) \/ LoseCommit(p)
      PROVE  UNCHANGED <<output, late, acked, failed, pc, cur>>
  BY <1>8 DEF ApplyCommit, LoseCommit
<1>9. ASSUME NEW p \in Partitions, Defer(p)
      PROVE  UNCHANGED <<output, late, acked, failed>> /\ ~Busy'
  BY <1>9 DEF Defer, Take
<1>10. ASSUME NEW p \in Partitions, BeginPublish(p)
       PROVE  UNCHANGED <<output, late, acked, failed>>
  BY <1>10 DEF BeginPublish, Take
<1> QED
  BY <1>1, <1>2, <1>3, <1>4, <1>5, <1>6, <1>7, <1>8, <1>9, <1>10, NextCases

\* A record is sent for the first time when those before it are dealt with.
LEMMA SentStep ==
  ASSUME TypeOK, Bounds, Reached, SentAfterSettled, [Next]_vars
  PROVE  SentAfterSettled'
<1> DEFINE Sent == Copied \cup late \cup {x \in {cur} : Busy}
<1>1. Sent \subseteq Offsets
  <2>1. \A i \in DOMAIN output : output[i] \in Offsets
    BY LenProperties DEF TypeOK
  <2> QED
    BY <2>1 DEF TypeOK, Copied
<1>2. \A r \in Sent : r[1] \in Partitions /\ r[2] \in Nat /\ r[2] \in Int
  BY <1>1 DEF Offsets
<1>3. \A r \in Sent : Through(r[1], r[2])'
  BY <1>2, ThroughGrows DEF SentAfterSettled
<1>4. Copied' \subseteq Sent
  <2>1. CASE UNCHANGED output
    BY <2>1 DEF Copied
  <2>2. ASSUME NEW r \in Sent, output' = WithCopy(r)
        PROVE  Copied' \subseteq Sent
    BY <1>1, <2>2, CopiedGrows
  <2> QED
    BY <2>1, <2>2, CopyCases
<1>5. late' \subseteq Sent
  BY CopyCases
<1>6. CASE Busy' => Busy /\ cur' = cur
  <2>1. {x \in {cur'} : Busy'} \subseteq Sent
    BY <1>6
  <2> HIDE DEF Sent
  <2>2. \A r \in Copied' \cup late' \cup {x \in {cur'} : Busy'} : r \in Sent
    BY <1>4, <1>5, <2>1
  <2> QED
    BY <1>3, <2>2 DEF SentAfterSettled, Through
<1>7. ASSUME NEW p \in Partitions, BeginPublish(p)
      PROVE  SentAfterSettled'
  <2>1. Take(p)
    BY <1>7 DEF BeginPublish
  <2>2. cur' = <<p, position[p]>> /\ position[p] \in Nat /\ pc = "recv" /\ ~Busy
    BY <2>1, TakeEffect
  <2>3. Through(p, position[p])
    BY <2>2 DEF Reached, Through
  <2>4. \A n \in Int : n = position[p] => Through(p, n)'
    BY <2>2, <2>3, ThroughGrows
  <2>5. Through(cur[1], cur[2])'
    BY <2>2, <2>4 DEF Through
  <2> HIDE DEF Sent
  <2>6. \A r \in Copied' \cup late' \cup {x \in {cur'} : Busy'} :
           r \in Sent \/ r = cur'
    BY <1>4, <1>5
  <2> QED
    BY <1>3, <2>5, <2>6 DEF SentAfterSettled, Through
<1> QED
  BY <1>6, <1>7, CopyCases

\* An acknowledged record is in the output topic.
LEMMA AckedStep ==
  ASSUME TypeOK, AckedIsCopied, [Next]_vars
  PROVE  AckedIsCopied'
<1>1. Copied \subseteq Copied'
  <2>1. CASE UNCHANGED output
    BY <2>1 DEF Copied
  <2>2. ASSUME NEW r \in Offsets, output' = WithCopy(r)
        PROVE  Copied \subseteq Copied'
    BY <2>2, CopiedGrows
  <2> QED
    BY <2>1, <2>2, CopyCases DEF TypeOK
<1>2. CASE SendOk
  <2>1. output' = WithCopy(cur) /\ acked' = acked \cup {cur} /\ cur \in Offsets
    BY <1>2 DEF SendOk, TypeOK
  <2> QED
    BY <2>1, CopiedGrows DEF AckedIsCopied
<1>3. CASE UNCHANGED acked
  BY <1>1, <1>3 DEF AckedIsCopied
<1> QED
  BY <1>2, <1>3, CopyCases

\* A record that is acknowledged for the first time is behind no copy of a
\* later one: that copy was sent when this record was already dealt with.
LEMMA OrderStep ==
  ASSUME TypeOK, InHand, DeferredRefused, SentAfterSettled, AckedIsCopied,
         ForwardedInOrder, [Next]_vars
  PROVE  ForwardedInOrder'
<1> SUFFICES ASSUME NEW j \in DOMAIN output', NEW a \in acked' \ failed',
                    a[1] = output'[j][1], a[2] < output'[j][2]
             PROVE  \E i \in 1..(j - 1) : output'[i] = a
  BY DEF ForwardedInOrder
<1>0. /\ cur \in Offsets /\ late \subseteq Offsets
      /\ DOMAIN output = 1..Len(output) /\ Len(output) \in Nat
      /\ \A i \in DOMAIN output : output[i] \in Offsets
  BY LenProperties DEF TypeOK
<1>1. a \notin failed
  BY CopyCases
<1>2. PICK r \in Offsets :
        /\ \/ j \in DOMAIN output /\ output'[j] = output[j]
           \/ /\ output'[j] = r /\ \A i \in DOMAIN output : i \in 1..(j - 1)
        /\ \A i \in DOMAIN output : i \in DOMAIN output' /\ output'[i] = output[i]
        /\ SendOk => r = cur
  <2>1. ASSUME NEW x \in Offsets, output' = WithCopy(x)
        PROVE  /\ \/ j \in DOMAIN output /\ output'[j] = output[j]
                  \/ /\ output'[j] = x /\ \A i \in DOMAIN output : i \in 1..(j - 1)
               /\ \A i \in DOMAIN output : i \in DOMAIN output' /\ output'[i] = output[i]
    BY <2>1, CopiedGrows
  <2>2. CASE UNCHANGED output
    BY <1>0, <2>2
  <2>3. CASE SendOk
    BY <1>0, <2>1, <2>3 DEF SendOk
  <2>4. CASE ~SendOk /\ \E x \in late \cup {cur} : output' = WithCopy(x)
    BY <1>0, <2>1, <2>4
  <2> QED
    BY <2>2, <2>3, <2>4, CopyCases
<1>3. a \in acked \/ (SendOk /\ a = cur)
  BY CopyCases DEF SendOk
<1>4. CASE a \in acked
  <2>1. \E i \in DOMAIN output : output[i] = a
    BY <1>4 DEF AckedIsCopied, Copied
  <2>2. CASE j \in DOMAIN output /\ output'[j] = output[j]
    <3>1. PICK i \in 1..(j - 1) : output[i] = a
      BY <1>1, <1>4, <2>2 DEF ForwardedInOrder
    <3>2. i \in DOMAIN output
      BY <1>0, <2>2, <3>1
    <3> QED
      BY <1>2, <3>1, <3>2
  <2> QED
    BY <1>2, <2>1, <2>2
<1>5. CASE a \notin acked /\ SendOk /\ a = cur
  <2>1. CASE output'[j] = r
    BY <1>0, <1>2, <1>5, <2>1 DEF Offsets
  <2>2. CASE j \in DOMAIN output /\ output'[j] = output[j]
    <3>1. output[j] \in Copied /\ a[1] = output[j][1] /\ a[2] < output[j][2]
      BY <2>2 DEF Copied
    <3>2. a = <<a[1], a[2]>> /\ a[2] \in Nat /\ output[j][2] \in Nat
      BY <1>0, <1>5, <2>2 DEF Offsets
    <3>3. Through(output[j][1], output[j][2])
      BY <3>1 DEF SentAfterSettled
    <3>4. Settled(a)
      <4>1. a[2] \in 0..(output[j][2] - 1)
        BY <3>1, <3>2
      <4>2. Settled(<<output[j][1], a[2]>>)
        BY <3>3, <4>1 DEF Through
      <4>3. <<output[j][1], a[2]>> = a
        BY <3>1, <3>2
      <4> QED
        BY <4>2, <4>3
    <3>5. /\ base[a[1]] <= a[2] /\ base[a[1]] \in Nat
          /\ Forwardable(log[a[1]][a[2] + 1])
      BY <1>5, Numbers DEF InHand, Busy, SendOk
    <3>6. a \notin deferred
      BY <3>5 DEF DeferredRefused
    <3> QED
      BY <1>1, <1>5, <3>2, <3>4, <3>5, <3>6 DEF Settled
  <2> QED
    BY <1>2, <2>1, <2>2
<1> QED
  BY <1>3, <1>4, <1>5

-----------------------------------------------------------------------------
(***************************************************************************)
(* The results.                                                            *)
(***************************************************************************)
\* The invariant holds when nothing has been read.
LEMMA InitRelayInv == Init => RelayInv
<1> SUFFICES ASSUME Init
             PROVE  RelayInv
  OBVIOUS
<1>1. TypeOK
  BY InitTypeOK
<1>2. ASSUME NEW p \in Partitions
      PROVE  /\ Len(log[p]) = 0 /\ base[p] = 0 /\ position[p] = 0
             /\ committed[p] = -1 /\ DOMAIN pending[p] = {}
  <2>1. log[p] = <<>> /\ pending[p] = <<>> /\ base[p] = 0 /\ position[p] = 0
    BY DEF Init
  <2>2. committed[p] = -1
    BY DEF Init, NoOffset
  <2>3. Len(<<>>) = 0 /\ DOMAIN <<>> = {}
    OBVIOUS
  <2> QED
    BY <2>1, <2>2, <2>3
<1>3. Bounds
  <2>1. ASSUME NEW p \in Partitions
        PROVE  /\ Len(log[p]) <= MaxLog
               /\ base[p] <= position[p]
               /\ position[p] <= Len(log[p])
               /\ committed[p] <= position[p]
               /\ committed[p] = NoOffset
    BY <1>2, RelayAssumption DEF NoOffset
  <2> QED
    BY <1>2, <2>1 DEF Bounds
<1>4. Covered
  <2>1. \A p \in Partitions : Through(p, committed[p])
    <3>1. ASSUME NEW p \in Partitions, NEW o \in 0..(committed[p] - 1)
          PROVE  FALSE
      <4>1. committed[p] = -1
        BY <1>2
      <4> QED
        BY <3>1, <4>1
    <3> QED
      BY <3>1 DEF Through
  <2> QED
    BY <1>2, <2>1 DEF Covered
<1>5. /\ DOMAIN output = {} /\ late = {} /\ acked = {} /\ deferred = {}
      /\ pc = "down" /\ ~Busy
  BY DEF Init, Busy
<1>6. SentAfterSettled /\ AckedIsCopied /\ ForwardedInOrder
  BY <1>5 DEF SentAfterSettled, AckedIsCopied, ForwardedInOrder, Copied
<1>7. Reached /\ InHand /\ DeferredRefused
  BY <1>5 DEF Reached, InHand, DeferredRefused
<1> QED
  BY <1>1, <1>3, <1>4, <1>6, <1>7 DEF RelayInv

\* Every step keeps it.
LEMMA NextRelayInv == RelayInv /\ [Next]_vars => RelayInv'
<1> SUFFICES ASSUME RelayInv, [Next]_vars
             PROVE  RelayInv'
  OBVIOUS
<1>0. /\ TypeOK /\ Bounds /\ Covered /\ Reached /\ InHand /\ DeferredRefused
      /\ SentAfterSettled /\ AckedIsCopied /\ ForwardedInOrder
  BY DEF RelayInv
<1>1. TypeOK' /\ Bounds' /\ Covered' /\ Reached'
  BY <1>0, NextTypeOK, BoundsStep, CoveredStep, ReachedStep
<1>2. InHand' /\ DeferredRefused' /\ SentAfterSettled' /\ AckedIsCopied'
  BY <1>0, InHandStep, DeferredStep, SentStep, AckedStep
<1>3. ForwardedInOrder'
  BY <1>0, OrderStep
<1> QED
  BY <1>1, <1>2, <1>3 DEF RelayInv

\* The invariant of the relay holds in every reachable state.
THEOREM RelayInvariance == Spec => []RelayInv
  BY InitRelayInv, NextRelayInv, PTL DEF Spec

\* Offsets, records and the relay's place in run() keep their types.
THEOREM TypeCorrect == Spec => []TypeOK
<1>1. RelayInv => TypeOK
  BY DEF RelayInv
<1> QED
  BY <1>1, RelayInvariance, PTL

\* publish_with_retry keeps the order of a partition: of two copied records the
\* earlier is first in the output topic, whatever is retried, repeated after a
\* crash or arrives late, unless it had been reported as failed.
THEOREM OrderKept == Spec => []ForwardedInOrder
<1>1. RelayInv => ForwardedInOrder
  BY DEF RelayInv
<1> QED
  BY <1>1, RelayInvariance, PTL

\* The records the relay is through with, as SettledOffsets sees them.
SettledSet == {r \in Partitions \X (0..MaxLog) : Settled(r)}

\* Every step of the relay settles records, or lets the group commit what is
\* settled, or does nothing that SettledOffsets sees.
LEMMA PromiseStep ==
  ASSUME RelayInv, [Next]_vars
  PROVE  [Promise!Next]_<<SettledSet, committed>>
<1>0. TypeOK /\ Bounds /\ Covered
  BY DEF RelayInv
<1>1. SettledSet \subseteq SettledSet'
  <2>1. ASSUME NEW r \in SettledSet
        PROVE  r \in SettledSet'
    <3>1. /\ r \in Partitions \X (0..MaxLog) /\ Settled(r)
      BY DEF SettledSet
    <3>2. PICK p \in Partitions, o \in 0..MaxLog : r = <<p, o>>
      BY <3>1
    <3>3. o \in Nat
      BY RelayAssumption
    <3>4. Settled(r)'
      BY <1>0, <3>1, <3>2, <3>3, SettledGrows
    <3> QED
      BY <3>1, <3>4 DEF SettledSet
  <2> QED
    BY <2>1
<1>2. CASE UNCHANGED committed
  BY <1>1, <1>2 DEF Promise!Next, Promise!Settle, SettledSet
<1>3. ASSUME NEW p \in Partitions, ApplyCommit(p)
      PROVE  Promise!Commit(p)
  <2>1. /\ pending[p] \in Seq(Nat) /\ pending[p] # <<>>
        /\ committed' = [committed EXCEPT ![p] = Head(pending[p])]
        /\ UNCHANGED <<acked, deferred, failed, base>>
    BY <1>0, <1>3 DEF ApplyCommit, TypeOK, outcomes
  <2>2. /\ 1 \in DOMAIN pending[p] /\ committed'[p] = pending[p][1]
        /\ committed' = [committed EXCEPT ![p] = committed'[p]]
    BY <1>0, <2>1, TailEffect DEF TypeOK
  <2>3. committed[p] <= committed'[p]
    BY <1>0, <2>2 DEF Bounds
  <2>4. ASSUME NEW o \in 0..(committed'[p] - 1)
        PROVE  <<p, o>> \in SettledSet
    <3>1. Settled(<<p, o>>)
      BY <1>0, <2>2 DEF Covered, Through
    <3>2. /\ pending[p][1] <= position[p] /\ position[p] <= Len(log[p])
          /\ Len(log[p]) <= MaxLog
      BY <1>0, <2>2 DEF Bounds
    <3>3. /\ pending[p][1] \in Nat /\ position[p] \in Nat /\ Len(log[p]) \in Nat
      BY <1>0, <2>2, Numbers
    <3>4. o \in 0..MaxLog
      BY <2>2, <3>2, <3>3, RelayAssumption
    <3> QED
      BY <3>1, <3>4 DEF SettledSet
  <2>5. SettledSet' = SettledSet
    BY <2>1 DEF SettledSet, Settled
  <2> QED
    BY <2>2, <2>3, <2>4, <2>5 DEF Promise!Commit, SettledSet
<1> QED
  BY <1>2, <1>3, NextCases, OffsetsKept
     DEF Start, Rebalance, Assign, Append1, LoseCommit, Defer, BeginPublish, Take,
         Commit, kafka, bookkeeping, Promise!Next

\* hook relay implements SettledOffsets: process_message hands a commit over
\* only when everything before it is copied, deferred or reported as failed,
\* and no crash, rebalance or lost commit moves the group back.
THEOREM ImplementsSettledOffsets == Spec => CommitsOnlySettled
<1>1. Init => Promise!Init
  BY RelayAssumption DEF Init, Promise!Init, Settled, NoOffset
<1>2. RelayInv /\ [Next]_vars => [Promise!Next]_<<SettledSet, committed>>
  BY PromiseStep
<1> QED
  BY <1>1, <1>2, RelayInvariance, PTL
     DEF Spec, CommitsOnlySettled, Promise!Spec, SettledSet

============================================================================
