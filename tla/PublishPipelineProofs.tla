----------------------- MODULE PublishPipelineProofs -----------------------
(***************************************************************************)
(* The publish channel and its worker neither lose, double nor reorder an  *)
(* accepted event, for every set of events and ingress tasks, every        *)
(* capacity and every publish_max_retries.                                 *)
(***************************************************************************)
EXTENDS PublishPipeline, SequenceTheorems, TLAPS

-----------------------------------------------------------------------------
(***************************************************************************)
(* What a step does to the events, whatever action it is of.               *)
(***************************************************************************)
events == <<queue, worker, job, attempt, accepted, finished, published,
            given_up, sends>>

\* try_send took the event e.
Enters(e) ==
    /\ worker # "exited"
    /\ Len(queue) < Capacity
    /\ e \notin Taken
    /\ queue' = Append(queue, e)
    /\ accepted' = Append(accepted, e)
    /\ UNCHANGED <<worker, job, attempt, finished, published, given_up, sends,
                   ended>>

\* The worker moves between its states and holds what it held.
Turns ==
    /\ \/ worker = "recv" /\ queue = <<>> /\ worker' = "exited"
       \/ worker = "backoff" /\ worker' = "send"
    /\ UNCHANGED <<queue, job, attempt, accepted, finished, published, given_up,
                   sends, ended>>

\* No event moves.
Quiet ==
    /\ UNCHANGED events
    /\ ended' = ended \/ (ended' = "drained" => worker = "exited")

\* A handler's step lets one event in or moves none.
LEMMA IngressEffect ==
  ASSUME NEW e \in Events, Ingress(e)
  PROVE  Enters(e) \/ Quiet
<1>1. Offer(e)
  BY DEF Ingress, HttpIngress, KafkaIngress, SessionIngress
<1>2. UNCHANGED <<task, outcome>>
  BY <1>1 DEF Offer
<1>3. CASE TrySend(e)
  BY <1>1, <1>2, <1>3 DEF Offer, TrySend, Fresh, Enters, Quiet, events, task,
     outcome
<1>4. CASE UNCHANGED <<queue, accepted, refused>>
  BY <1>2, <1>4 DEF Quiet, events, task, outcome
<1> QED
  BY <1>1, <1>3, <1>4 DEF Offer

\* Every step of the pipeline is one of six, as far as the events go.
LEMMA StepEffect ==
  ASSUME [Next]_vars
  PROVE  \/ \E e \in Events : Enters(e)
         \/ WorkerRecv
         \/ SendOk
         \/ SendErr
         \/ Turns
         \/ Quiet
<1>1. CASE \E e \in Events : Ingress(e)
  BY <1>1, IngressEffect
<1>2. CASE WorkerStep
  BY <1>2 DEF WorkerStep, WorkerEnd, BackoffOver, Turns, intake, outcome
<1>3. CASE \E w \in KafkaWorkers : KafkaWorkerFails(w)
  BY <1>3 DEF KafkaWorkerFails, Quiet, events, intake, task, outcome
<1>4. CASE \E s \in Sessions : OpenSession(s) \/ CloseSession(s)
  BY <1>4 DEF OpenSession, CloseSession, Quiet, events, intake, task, outcome
<1>5. CASE BrokerChanges \/ Interrupt \/ ServerDone
  BY <1>5 DEF BrokerChanges, Interrupt, ServerDone, Quiet, events, intake, task,
     outcome
<1>6. CASE ExitDrained
  BY <1>6 DEF ExitDrained, ExitAs, Quiet, events, intake, task
<1>7. CASE ExitTimedOut \/ Kill
  BY <1>7 DEF ExitTimedOut, Kill, ExitAs, Quiet, events, intake, task
<1>8. CASE UNCHANGED vars
  BY <1>8 DEF vars, Quiet, events
<1> QED
  BY <1>1, <1>2, <1>3, <1>4, <1>5, <1>6, <1>7, <1>8 DEF Next

-----------------------------------------------------------------------------
(***************************************************************************)
(* Type correctness.                                                       *)
(***************************************************************************)
\* Every variable has its type when main has set everything up.
LEMMA InitTypeOK == Init => TypeOK
  BY PipelineAssumption DEF Init, TypeOK

\* The variables that no event moves through keep their types in every step.
LEMMA SurroundingsType ==
  ASSUME TypeOK, [Next]_vars
  PROVE  /\ broker' \in {"up", "down"}
         /\ phase' \in {"serving", "closing", "draining", "exited"}
         /\ consuming' \subseteq KafkaWorkers
         /\ sessions' \subseteq Sessions
         /\ rejected' \subseteq Events
         /\ refused' \subseteq Events
         /\ committed' \subseteq Events
         /\ ended' \in {"running", "drained", "timed_out", "killed"}
<1> USE DEF TypeOK
<1>1. CASE \E e \in Events : Ingress(e)
  <2>1. PICK e \in Events : Ingress(e)
    BY <1>1
  <2>2. Offer(e) /\ committed' \in {committed, committed \cup {e}}
    BY <2>1 DEF Ingress, HttpIngress, KafkaIngress, SessionIngress
  <2>3. UNCHANGED <<broker, phase, consuming, sessions, ended>>
    BY <2>2 DEF Offer, holders, outcome
  <2>4. rejected' \subseteq Events /\ refused' \subseteq Events
    BY <2>2 DEF Offer, TrySend
  <2> QED
    BY <2>2, <2>3, <2>4
<1>2. CASE WorkerStep
  BY <1>2 DEF WorkerStep, WorkerRecv, WorkerEnd, SendOk, SendErr, BackoffOver,
     intake, holders, outcome
<1>3. CASE \E w \in KafkaWorkers : KafkaWorkerFails(w)
  BY <1>3 DEF KafkaWorkerFails, intake, outcome
<1>4. CASE \E s \in Sessions : OpenSession(s) \/ CloseSession(s)
  BY <1>4 DEF OpenSession, CloseSession, intake, outcome
<1>5. CASE BrokerChanges \/ Interrupt \/ ServerDone
  BY <1>5 DEF BrokerChanges, Interrupt, ServerDone, intake, holders, outcome
<1>6. CASE ExitDrained \/ ExitTimedOut \/ Kill
  BY <1>6 DEF ExitDrained, ExitTimedOut, Kill, ExitAs, intake
<1>7. CASE UNCHANGED vars
  BY <1>7 DEF vars
<1> QED
  BY <1>1, <1>2, <1>3, <1>4, <1>5, <1>6, <1>7 DEF Next

\* The job in the worker's hands is one event.
LEMMA HeldJob ==
  ASSUME TypeOK, worker \in {"send", "backoff"}
  PROVE  Len(job) = 1 /\ job[1] \in Events /\ job = <<job[1]>>
<1>1. Len(job) = 1 /\ job \in Seq(Events)
  BY DEF TypeOK
<1>2. job[1] \in Events
  BY <1>1, ElementOfSeq
<1> QED
  BY <1>1, <1>2

\* Every step keeps every variable in its type; the channel never holds more
\* than publish_queue_capacity jobs and the worker never more than one.
LEMMA NextTypeOK == TypeOK /\ [Next]_vars => TypeOK'
<1> SUFFICES ASSUME TypeOK, [Next]_vars
             PROVE  TypeOK'
  OBVIOUS
<1>0. /\ broker' \in {"up", "down"}
      /\ phase' \in {"serving", "closing", "draining", "exited"}
      /\ consuming' \subseteq KafkaWorkers
      /\ sessions' \subseteq Sessions
      /\ rejected' \subseteq Events
      /\ refused' \subseteq Events
      /\ committed' \subseteq Events
      /\ ended' \in {"running", "drained", "timed_out", "killed"}
  BY SurroundingsType
<1>1. ASSUME NEW e \in Events, Enters(e)
      PROVE  TypeOK'
  <2>1. /\ Append(queue, e) \in Seq(Events)
        /\ Len(Append(queue, e)) = Len(queue) + 1
        /\ Append(accepted, e) \in Seq(Events)
    BY AppendProperties DEF TypeOK
  <2>2. queue' \in Seq(Events) /\ Len(queue') <= Capacity
    BY <1>1, <2>1, PipelineAssumption DEF Enters, TypeOK
  <2> QED
    BY <1>0, <1>1, <2>1, <2>2 DEF Enters, TypeOK
<1>2. CASE WorkerRecv
  <2>1. /\ Head(queue) \in Events
        /\ Tail(queue) \in Seq(Events)
        /\ Len(Tail(queue)) = Len(queue) - 1
    BY <1>2, HeadTailProperties DEF WorkerRecv, TypeOK
  <2>2. job' \in Seq(Events) /\ Len(job') = 1
    BY <1>2, <2>1 DEF WorkerRecv
  <2>3. queue' \in Seq(Events) /\ Len(queue') <= Capacity
    BY <1>2, <2>1, PipelineAssumption DEF WorkerRecv, TypeOK
  <2>4. attempt' = 0 /\ worker' = "send"
    BY <1>2 DEF WorkerRecv
  <2>5. UNCHANGED <<accepted, finished, published, given_up, sends>>
    BY <1>2 DEF WorkerRecv, outcome
  <2> QED
    BY <1>0, <2>2, <2>3, <2>4, <2>5 DEF TypeOK
<1>3. ASSUME worker = "send"
      PROVE  /\ SendOnce => sends' \in [Events -> Nat]
             /\ FinishJob => /\ finished' \in Seq(Events)
                             /\ job' \in Seq(Events) /\ Len(job') = 0
  <2>1. job \in Seq(Events) /\ job[1] \in Events
    BY <1>3, HeldJob DEF TypeOK
  <2>2. finished \o job \in Seq(Events)
    BY <2>1, ConcatProperties DEF TypeOK
  <2>3. SendOnce => sends' \in [Events -> Nat]
    BY <2>1 DEF SendOnce, TypeOK
  <2>4. FinishJob => /\ finished' \in Seq(Events)
                     /\ job' \in Seq(Events) /\ Len(job') = 0
    BY <2>2 DEF FinishJob
  <2> QED
    BY <2>3, <2>4
<1>4. CASE SendOk
  <2>1. worker = "send" /\ job[1] \in Events
    BY <1>4, HeldJob DEF SendOk
  <2> QED
    BY <1>0, <1>3, <1>4, <2>1 DEF SendOk, FinishJob, TypeOK, intake
<1>5. CASE SendErr
  <2>1. worker = "send" /\ job[1] \in Events
    BY <1>5, HeldJob DEF SendErr
  <2>2. /\ sends' \in [Events -> Nat]
        /\ attempt' \in Nat
        /\ UNCHANGED <<queue, accepted, published>>
    BY <1>3, <1>5, <2>1 DEF SendErr, TypeOK, intake
  <2>3. CASE FinishJob /\ given_up' = given_up \cup {job[1]}
    BY <1>0, <1>3, <2>1, <2>2, <2>3 DEF FinishJob, TypeOK
  <2>4. CASE worker' = "backoff" /\ UNCHANGED <<job, finished, given_up>>
    BY <1>0, <2>1, <2>2, <2>4 DEF TypeOK
  <2> QED
    BY <1>5, <2>3, <2>4 DEF SendErr
<1>6. CASE Turns
  BY <1>0, <1>6 DEF Turns, TypeOK
<1>7. CASE Quiet
  BY <1>0, <1>7 DEF Quiet, events, TypeOK
<1> QED
  BY <1>1, <1>2, <1>4, <1>5, <1>6, <1>7, StepEffect

-----------------------------------------------------------------------------
(***************************************************************************)
(* No event is lost, doubled or overtaken.                                 *)
(***************************************************************************)
\* Where an accepted event is to be found, by its place in the order.
LEMMA Places ==
  ASSUME TypeOK, Conserved
  PROVE  /\ Len(accepted) = Len(finished) + Len(job) + Len(queue)
         /\ \A i \in 1..Len(finished) : accepted[i] = finished[i]
         /\ \A i \in 1..Len(job) : accepted[Len(finished) + i] = job[i]
         /\ \A i \in 1..Len(queue) :
               accepted[Len(finished) + Len(job) + i] = queue[i]
<1> DEFINE front == finished \o job
<1>1. /\ finished \in Seq(Events) /\ job \in Seq(Events)
      /\ queue \in Seq(Events)
  BY DEF TypeOK
<1>2. /\ Len(finished) \in Nat /\ Len(job) \in Nat /\ Len(queue) \in Nat
  BY <1>1, LenProperties
<1>3. /\ front \in Seq(Events)
      /\ Len(front) = Len(finished) + Len(job)
      /\ \A i \in 1..(Len(finished) + Len(job)) :
            front[i] = IF i <= Len(finished) THEN finished[i]
                                             ELSE job[i - Len(finished)]
  BY <1>1, ConcatProperties
<1>a. front \in Seq(Events)
  BY <1>3
<1> HIDE DEF front
<1>4. /\ Len(front \o queue) = Len(front) + Len(queue)
      /\ \A i \in 1..(Len(front) + Len(queue)) :
            (front \o queue)[i] = IF i <= Len(front) THEN front[i]
                                                     ELSE queue[i - Len(front)]
  BY <1>1, <1>a, ConcatProperties
<1>5. accepted = front \o queue
  BY DEF Conserved, front
<1>6. Len(accepted) = Len(finished) + Len(job) + Len(queue)
  BY <1>3, <1>4, <1>5
<1>7. \A i \in 1..(Len(finished) + Len(job)) : accepted[i] = front[i]
  BY <1>2, <1>3, <1>4, <1>5
<1>8. ASSUME NEW i \in 1..Len(finished)
      PROVE  accepted[i] = finished[i]
  BY <1>2, <1>3, <1>7
<1>9. ASSUME NEW i \in 1..Len(job)
      PROVE  accepted[Len(finished) + i] = job[i]
  <2>1. Len(finished) + i \in 1..(Len(finished) + Len(job))
    BY <1>2
  <2>2. front[Len(finished) + i] = job[i]
    BY <1>2, <1>3, <2>1
  <2> QED
    BY <1>7, <2>1, <2>2
<1>10. ASSUME NEW i \in 1..Len(queue)
       PROVE  accepted[Len(finished) + Len(job) + i] = queue[i]
  <2>1. /\ Len(front) + i \in 1..(Len(front) + Len(queue))
        /\ ~(Len(front) + i <= Len(front))
        /\ (Len(front) + i) - Len(front) = i
    BY <1>2, <1>3
  <2> QED
    BY <1>3, <1>4, <1>5, <2>1
<1> QED
  BY <1>6, <1>8, <1>9, <1>10

\* A job that waits in the channel and is taken off it stays in its place.
LEMMA ConservedStep ==
  ASSUME TypeOK, Conserved, [Next]_vars
  PROVE  Conserved'
<1>0. /\ finished \in Seq(Events) /\ job \in Seq(Events)
      /\ queue \in Seq(Events) /\ finished \o job \in Seq(Events)
      /\ accepted \in Seq(Events)
  BY ConcatProperties DEF TypeOK
<1>1. ASSUME NEW e \in Events, Enters(e)
      PROVE  Conserved'
  <2>1. Append(accepted, e) = accepted \o <<e>> /\ Append(queue, e) = queue \o <<e>>
    BY <1>0, AppendIsConcat
  <2>2. /\ finished \o job \in Seq(Events) /\ queue \in Seq(Events)
        /\ <<e>> \in Seq(Events)
    BY <1>0
  <2>3. ((finished \o job) \o queue) \o <<e>> = (finished \o job) \o (queue \o <<e>>)
    BY <2>2, ConcatAssociative
  <2> QED
    BY <1>1, <2>1, <2>3 DEF Enters, Conserved
<1>2. CASE WorkerRecv
  <2>1. job = <<>> /\ queue # <<>>
    BY <1>2, <1>0, EmptySeq DEF WorkerRecv, TypeOK
  <2>2. Head(queue) \in Events /\ Tail(queue) \in Seq(Events)
    BY <1>0, <2>1, HeadTailProperties
  <2>3. queue = <<Head(queue)>> \o Tail(queue)
    <3>1. /\ Len(<<Head(queue)>> \o Tail(queue)) = 1 + Len(Tail(queue))
          /\ <<Head(queue)>> \o Tail(queue) \in Seq(Events)
          /\ \A i \in 1..(1 + Len(Tail(queue))) :
                (<<Head(queue)>> \o Tail(queue))[i] =
                   IF i <= 1 THEN <<Head(queue)>>[i] ELSE Tail(queue)[i - 1]
      BY <2>2, ConcatProperties
    <3>2. /\ Len(Tail(queue)) = Len(queue) - 1
          /\ \A i \in 1..Len(Tail(queue)) : Tail(queue)[i] = queue[i + 1]
          /\ Len(queue) \in Nat
      BY <1>0, <2>1, HeadTailProperties, LenProperties
    <3>3. \A i \in 1..Len(queue) : queue[i] = (<<Head(queue)>> \o Tail(queue))[i]
      BY <1>0, <3>1, <3>2
    <3> QED
      BY <1>0, <3>1, <3>2, <3>3, SeqEqual
  <2>4. finished \o job = finished
    BY <1>0, <2>1, ConcatEmptySeq
  <2>5. finished \o (<<Head(queue)>> \o Tail(queue)) =
          (finished \o <<Head(queue)>>) \o Tail(queue)
    <3>1. /\ finished \in Seq(Events) /\ <<Head(queue)>> \in Seq(Events)
          /\ Tail(queue) \in Seq(Events)
      BY <1>0, <2>2
    <3> QED
      BY <3>1, ConcatAssociative
  <2>6. accepted = (finished \o <<Head(queue)>>) \o Tail(queue)
    BY <2>3, <2>4, <2>5 DEF Conserved
  <2>7. /\ job' = <<Head(queue)>> /\ queue' = Tail(queue)
        /\ UNCHANGED <<accepted, finished>>
    BY <1>2 DEF WorkerRecv, outcome
  <2> QED
    BY <2>6, <2>7 DEF Conserved
<1>3. ASSUME FinishJob, UNCHANGED <<queue, accepted>>
      PROVE  Conserved'
  <2>1. (finished \o job) \o <<>> = finished \o job
    BY <1>0, ConcatEmptySeq
  <2> QED
    BY <1>3, <2>1 DEF FinishJob, Conserved
<1>4. CASE SendOk
  BY <1>3, <1>4 DEF SendOk, intake
<1>5. CASE SendErr
  BY <1>3, <1>5 DEF SendErr, intake, Conserved
<1>6. CASE Turns
  BY <1>6 DEF Turns, Conserved
<1>7. CASE Quiet
  BY <1>7 DEF Quiet, events, Conserved
<1> QED
  BY <1>1, <1>2, <1>4, <1>5, <1>6, <1>7, StepEffect

-----------------------------------------------------------------------------
(***************************************************************************)
(* The rest of the invariant.                                              *)
(***************************************************************************)
\* The event in the worker's hands is accepted, not finished, and neither
\* published nor given up nor one that waits behind it.
LEMMA HeldPlace ==
  ASSUME TypeOK, Conserved, AcceptedOnce, FinishedOutcome,
         worker \in {"send", "backoff"}
  PROVE  /\ job[1] \in Events
         /\ Len(finished) + 1 \in DOMAIN accepted
         /\ accepted[Len(finished) + 1] = job[1]
         /\ job[1] \in Taken
         /\ job[1] \notin published \cup given_up
         /\ \A i \in DOMAIN accepted : i > Len(finished) + 1 => accepted[i] # job[1]
<1>1. Len(job) = 1 /\ job[1] \in Events
  BY HeldJob
<1>2. /\ Len(finished) \in Nat /\ Len(queue) \in Nat
      /\ DOMAIN accepted = 1..Len(accepted)
      /\ DOMAIN finished = 1..Len(finished)
  BY LenProperties DEF TypeOK
<1>3. /\ Len(accepted) = Len(finished) + Len(job) + Len(queue)
      /\ \A i \in 1..Len(finished) : accepted[i] = finished[i]
      /\ \A i \in 1..Len(job) : accepted[Len(finished) + i] = job[i]
  BY Places
<1>4. Len(finished) + 1 \in DOMAIN accepted /\ accepted[Len(finished) + 1] = job[1]
  BY <1>1, <1>2, <1>3
<1>5. job[1] \in Taken
  BY <1>4 DEF Taken
<1>6. job[1] \notin published \cup given_up
  <2> SUFFICES ASSUME job[1] \in published \cup given_up
               PROVE  FALSE
    OBVIOUS
  <2>1. PICK i \in DOMAIN finished : finished[i] = job[1]
    BY DEF FinishedOutcome
  <2>2. i \in DOMAIN accepted /\ accepted[i] = job[1] /\ i # Len(finished) + 1
    BY <1>1, <1>2, <1>3, <2>1
  <2> QED
    BY <1>4, <2>2 DEF AcceptedOnce
<1>7. ASSUME NEW i \in DOMAIN accepted, i > Len(finished) + 1
      PROVE  accepted[i] # job[1]
  <2>1. i # Len(finished) + 1
    BY <1>2, <1>7
  <2> QED
    BY <1>4, <2>1 DEF AcceptedOnce
<1> QED
  BY <1>1, <1>4, <1>5, <1>6, <1>7

\* What the channel takes is new to it.
LEMMA OnceStep ==
  ASSUME TypeOK, AcceptedOnce, [Next]_vars
  PROVE  AcceptedOnce'
<1>1. ASSUME NEW e \in Events, Enters(e)
      PROVE  AcceptedOnce'
  <2>1. /\ accepted' \in Seq(Events)
        /\ Len(accepted') = Len(accepted) + 1
        /\ \A i \in 1..Len(accepted) : accepted'[i] = accepted[i]
        /\ accepted'[Len(accepted) + 1] = e
    BY <1>1, AppendProperties DEF TypeOK, Enters
  <2>2. /\ Len(accepted) \in Nat
        /\ DOMAIN accepted = 1..Len(accepted)
        /\ DOMAIN accepted' = 1..(Len(accepted) + 1)
    BY <2>1, LenProperties DEF TypeOK
  <2>3. \A i \in 1..Len(accepted) : accepted[i] # e
    BY <1>1, <2>2 DEF Enters, Taken
  <2> QED
    BY <2>1, <2>2, <2>3 DEF AcceptedOnce
<1>2. CASE UNCHANGED accepted
  BY <1>2 DEF AcceptedOnce
<1> QED
  BY <1>1, <1>2, StepEffect
     DEF WorkerRecv, SendOk, SendErr, Turns, Quiet, events, intake

\* Only the event in the worker's hands is sent.
LEMMA UnsentStep ==
  ASSUME TypeOK, Conserved, AcceptedOnce, FinishedOutcome, UnsentWaits,
         [Next]_vars
  PROVE  UnsentWaits'
<1>0. /\ Len(finished) \in Nat /\ Len(job) \in Nat /\ Len(accepted) \in Nat
      /\ DOMAIN accepted = 1..Len(accepted)
      /\ finished \in Seq(Events) /\ job \in Seq(Events)
      /\ sends \in [Events -> Nat] /\ accepted \in [1..Len(accepted) -> Events]
  BY LenProperties DEF TypeOK
<1>1. ASSUME NEW e \in Events, Enters(e)
      PROVE  UnsentWaits'
  <2>1. /\ accepted' \in Seq(Events)
        /\ Len(accepted') = Len(accepted) + 1
        /\ \A i \in 1..Len(accepted) : accepted'[i] = accepted[i]
        /\ accepted'[Len(accepted) + 1] = e
    BY <1>1, AppendProperties DEF TypeOK, Enters
  <2>2. DOMAIN accepted' = 1..(Len(accepted) + 1)
    BY <2>1, LenProperties
  <2>3. UNCHANGED <<finished, job, sends>> /\ sends[e] = 0
    BY <1>1 DEF Enters, UnsentWaits
  <2>4. Taken \subseteq Taken'
    BY <1>0, <2>1, <2>2 DEF Taken
  <2>5. ASSUME NEW i \in DOMAIN accepted', i > Len(finished) + Len(job)
        PROVE  sends[accepted'[i]] = 0
    <3>1. CASE i = Len(accepted) + 1
      BY <2>1, <2>3, <3>1
    <3>2. CASE i \in 1..Len(accepted)
      BY <1>0, <2>1, <2>5, <3>2 DEF UnsentWaits
    <3> QED
      BY <1>0, <2>2, <3>1, <3>2
  <2> QED
    BY <2>3, <2>4, <2>5 DEF UnsentWaits
<1>2. ASSUME UNCHANGED <<accepted, sends>>,
             Len(finished') + Len(job') >= Len(finished) + Len(job),
             Len(finished') \in Nat, Len(job') \in Nat
      PROVE  UnsentWaits'
  BY <1>0, <1>2 DEF UnsentWaits, Taken
<1>3. CASE WorkerRecv
  <2>1. Len(job') = 1 /\ Len(job) = 0
    BY <1>3 DEF WorkerRecv, TypeOK
  <2> QED
    BY <1>0, <1>2, <1>3, <2>1 DEF WorkerRecv, outcome
<1>4. ASSUME worker = "send", SendOnce, UNCHANGED accepted,
             Len(finished') + Len(job') = Len(finished) + Len(job)
      PROVE  UnsentWaits'
  <2>1. /\ job[1] \in Taken /\ Len(job) = 1
        /\ \A i \in DOMAIN accepted : i > Len(finished) + 1 => accepted[i] # job[1]
    BY <1>4, HeldPlace, HeldJob
  <2>2. \A e \in Events \ {job[1]} : sends'[e] = sends[e]
    BY <1>0, <1>4 DEF SendOnce
  <2>3. \A e \in Events \ Taken' : sends'[e] = 0
    BY <1>4, <2>1, <2>2 DEF Taken, UnsentWaits
  <2>4. ASSUME NEW i \in DOMAIN accepted', i > Len(finished') + Len(job')
        PROVE  sends'[accepted'[i]] = 0
    <3>1. i \in DOMAIN accepted /\ i > Len(finished) + 1 /\ accepted'[i] = accepted[i]
      BY <1>4, <2>1, <2>4
    <3>2. accepted[i] \in Events \ {job[1]}
      BY <1>0, <2>1, <3>1
    <3> QED
      BY <2>1, <2>2, <3>1, <3>2 DEF UnsentWaits
  <2> QED
    BY <2>3, <2>4 DEF UnsentWaits
<1>5. FinishJob => Len(finished') + Len(job') = Len(finished) + Len(job)
  <2>1. Len(finished \o job) = Len(finished) + Len(job)
    BY <1>0, ConcatProperties
  <2> QED
    BY <1>0, <2>1, EmptySeq DEF FinishJob
<1>6. CASE SendOk
  BY <1>4, <1>5, <1>6 DEF SendOk, intake
<1>7. CASE SendErr
  BY <1>4, <1>5, <1>7 DEF SendErr, intake
<1>8. CASE Turns \/ Quiet
  BY <1>0, <1>2, <1>8 DEF Turns, Quiet, events
<1> QED
  BY <1>1, <1>3, <1>6, <1>7, <1>8, StepEffect

\* A job is taken up unsent, and kept only while attempts are left.
LEMMA HeldStep ==
  ASSUME TypeOK, Conserved, UnsentWaits, HeldHasAttempts, [Next]_vars
  PROVE  HeldHasAttempts'
<1>1. CASE UNCHANGED <<job, attempt, sends>>
  BY <1>1 DEF HeldHasAttempts
<1>2. CASE WorkerRecv
  <2>1. /\ queue \in Seq(Events) /\ queue # <<>> /\ Len(job) = 0
        /\ job'[1] = Head(queue) /\ attempt' = 0 /\ sends' = sends
    BY <1>2 DEF WorkerRecv, TypeOK, outcome
  <2>2. Len(queue) \in Nat \ {0} /\ Head(queue) = queue[1]
    BY <2>1, EmptySeq
  <2>3. /\ Len(accepted) = Len(finished) + Len(job) + Len(queue)
        /\ accepted[Len(finished) + Len(job) + 1] = queue[1]
    BY <2>2, Places
  <2>4. /\ Len(finished) \in Nat
        /\ DOMAIN accepted = 1..Len(accepted)
    BY LenProperties DEF TypeOK
  <2>5. /\ Len(finished) + Len(job) + 1 \in DOMAIN accepted
        /\ Len(finished) + Len(job) + 1 > Len(finished) + Len(job)
    BY <2>1, <2>2, <2>3, <2>4
  <2>6. sends[queue[1]] = 0
    BY <2>3, <2>5 DEF UnsentWaits
  <2>7. Attempts \in Nat /\ 0 < Attempts
    BY PipelineAssumption DEF Attempts
  <2> QED
    BY <2>1, <2>2, <2>6, <2>7 DEF HeldHasAttempts, Attempts
<1>3. CASE SendOk
  BY <1>3 DEF SendOk, FinishJob, HeldHasAttempts
<1>4. CASE SendErr
  <2>1. /\ job # <<>> /\ job[1] \in Events /\ sends \in [Events -> Nat]
        /\ attempt \in Nat
    BY <1>4, HeldJob, EmptySeq DEF SendErr, TypeOK
  <2>2. CASE FinishJob
    BY <2>2 DEF FinishJob, HeldHasAttempts
  <2>3. CASE attempt + 1 < MaxRetries /\ UNCHANGED job
    <3>1. attempt' = attempt + 1 /\ sends'[job[1]] = sends[job[1]] + 1
      BY <1>4, <2>1 DEF SendErr, SendOnce
    <3>2. Attempts = MaxRetries
      BY <2>1, <2>3, PipelineAssumption DEF Attempts
    <3> QED
      BY <2>1, <2>3, <3>1, <3>2 DEF HeldHasAttempts, Attempts
  <2> QED
    BY <1>4, <2>2, <2>3 DEF SendErr
<1> QED
  BY <1>1, <1>2, <1>3, <1>4, StepEffect DEF Enters, Turns, Quiet, events

\* publish sends no job more often than its attempts allow, and run_publish_worker
\* gives none up before.
LEMMA BoundedStep ==
  ASSUME TypeOK, Conserved, AcceptedOnce, FinishedOutcome, HeldHasAttempts,
         SendsBounded, [Next]_vars
  PROVE  SendsBounded'
<1>1. CASE UNCHANGED <<sends, published, given_up>>
  BY <1>1 DEF SendsBounded, Attempts
<1>2. ASSUME worker = "send", SendOnce
      PROVE  /\ \A e \in Events \ {job[1]} : sends'[e] = sends[e]
             /\ sends'[job[1]] = attempt + 1
             /\ attempt + 1 <= Attempts
             /\ job[1] \in Events /\ job[1] \notin published \cup given_up
             /\ attempt \in Nat
  <2>1. /\ job[1] \in Events /\ job[1] \notin published \cup given_up /\ job # <<>>
        /\ sends \in [Events -> Nat] /\ attempt \in Nat
    BY <1>2, HeldPlace, HeldJob, EmptySeq DEF TypeOK
  <2>2. attempt < Attempts /\ sends[job[1]] = attempt /\ Attempts \in Nat
    BY <2>1, PipelineAssumption DEF HeldHasAttempts, Attempts
  <2> QED
    BY <1>2, <2>1, <2>2 DEF SendOnce
<1>3. CASE SendOk
  BY <1>2, <1>3 DEF SendOk, SendsBounded, Attempts
<1>4. CASE SendErr
  <2>1. /\ \A e \in Events \ {job[1]} : sends'[e] = sends[e]
        /\ sends'[job[1]] = attempt + 1
        /\ attempt + 1 <= Attempts
        /\ job[1] \in Events /\ job[1] \notin published \cup given_up
        /\ attempt \in Nat /\ published' = published
    BY <1>2, <1>4 DEF SendErr
  <2>2. CASE UNCHANGED given_up
    BY <2>1, <2>2 DEF SendsBounded, Attempts
  <2>3. CASE attempt + 1 >= MaxRetries /\ given_up' = given_up \cup {job[1]}
    <3>1. attempt + 1 = Attempts
      BY <2>1, <2>3, PipelineAssumption DEF Attempts
    <3> QED
      BY <2>1, <2>3, <3>1 DEF SendsBounded, Attempts
  <2> QED
    BY <1>4, <2>2, <2>3 DEF SendErr
<1> QED
  BY <1>1, <1>3, <1>4, StepEffect
     DEF Enters, WorkerRecv, Turns, Quiet, events, outcome

\* A job is finished by publishing it or by giving it up.
LEMMA OutcomeStep ==
  ASSUME TypeOK, FinishedOutcome, [Next]_vars
  PROVE  FinishedOutcome'
<1>1. CASE UNCHANGED <<finished, published, given_up>>
  BY <1>1 DEF FinishedOutcome
<1>2. ASSUME worker = "send", FinishJob
      PROVE  /\ DOMAIN finished' = 1..(Len(finished) + 1)
             /\ DOMAIN finished = 1..Len(finished)
             /\ Len(finished) \in Nat
             /\ \A i \in 1..Len(finished) : finished'[i] = finished[i]
             /\ finished'[Len(finished) + 1] = job[1]
  <2>1. job \in Seq(Events) /\ Len(job) = 1 /\ finished \in Seq(Events)
    BY <1>2, HeldJob DEF TypeOK
  <2>2. /\ finished \o job \in Seq(Events)
        /\ Len(finished \o job) = Len(finished) + Len(job)
        /\ \A i \in 1..(Len(finished) + Len(job)) :
              (finished \o job)[i] = IF i <= Len(finished) THEN finished[i]
                                     ELSE job[i - Len(finished)]
    BY <2>1, ConcatProperties
  <2>3. /\ DOMAIN finished' = 1..(Len(finished) + 1)
        /\ DOMAIN finished = 1..Len(finished)
        /\ Len(finished) \in Nat
    BY <1>2, <2>1, <2>2, LenProperties DEF FinishJob
  <2> QED
    BY <1>2, <2>1, <2>2, <2>3 DEF FinishJob
<1>3. CASE SendOk
  BY <1>2, <1>3 DEF SendOk, FinishedOutcome
<1>4. CASE SendErr
  BY <1>1, <1>2, <1>4 DEF SendErr, FinishedOutcome
<1> QED
  BY <1>1, <1>3, <1>4, StepEffect
     DEF Enters, WorkerRecv, Turns, Quiet, events, outcome

\* Once the worker has seen the channel closed and empty nothing enters it.
LEMMA EndStep ==
  ASSUME EndIsClean, [Next]_vars
  PROVE  EndIsClean'
<1> USE DEF EndIsClean
<1>1. ASSUME NEW e \in Events, Enters(e)
      PROVE  EndIsClean'
  BY <1>1 DEF Enters
<1>2. CASE WorkerRecv
  BY <1>2 DEF WorkerRecv, outcome
<1>3. CASE SendOk
  BY <1>3 DEF SendOk, FinishJob
<1>4. CASE SendErr
  BY <1>4 DEF SendErr, FinishJob
<1>5. CASE Turns
  BY <1>5 DEF Turns
<1>6. CASE Quiet
  BY <1>6 DEF Quiet, events
<1> QED
  BY <1>1, <1>2, <1>3, <1>4, <1>5, <1>6, StepEffect

-----------------------------------------------------------------------------
(***************************************************************************)
(* The results.                                                            *)
(***************************************************************************)
\* The invariant holds when main has set everything up.
LEMMA InitPipelineInv == Init => PipelineInv
<1> SUFFICES ASSUME Init
             PROVE  PipelineInv
  OBVIOUS
<1>1. TypeOK
  BY InitTypeOK
<1>2. Conserved
  <2>1. <<>> \o <<>> = <<>>
    BY ConcatEmptySeq, EmptySeq
  <2> QED
    BY <2>1 DEF Init, Conserved
<1>3. DOMAIN accepted = {} /\ DOMAIN finished = {}
  BY DEF Init
<1>4. SendsBounded
  <2>1. Attempts \in Nat
    BY PipelineAssumption DEF Attempts
  <2>2. \A e \in Events : sends[e] = 0 /\ e \notin given_up
    BY DEF Init
  <2>3. 0 <= Attempts
    BY <2>1
  <2>4. \A e \in Events : sends[e] <= Attempts
    BY <2>2, <2>3
  <2> QED
    BY <2>2, <2>4 DEF SendsBounded
<1>5. AcceptedOnce /\ UnsentWaits /\ FinishedOutcome
  BY <1>3 DEF Init, AcceptedOnce, UnsentWaits, FinishedOutcome
<1>6. HeldHasAttempts /\ EndIsClean
  BY DEF Init, HeldHasAttempts, EndIsClean
<1> QED
  BY <1>1, <1>2, <1>4, <1>5, <1>6 DEF PipelineInv

\* Every step keeps the invariant.
LEMMA NextPipelineInv == PipelineInv /\ [Next]_vars => PipelineInv'
<1> SUFFICES ASSUME PipelineInv, [Next]_vars
             PROVE  PipelineInv'
  OBVIOUS
<1>0. /\ TypeOK /\ Conserved /\ SendsBounded /\ AcceptedOnce /\ UnsentWaits
      /\ HeldHasAttempts /\ FinishedOutcome /\ EndIsClean
  BY DEF PipelineInv
<1>1. TypeOK' /\ Conserved' /\ AcceptedOnce' /\ FinishedOutcome' /\ EndIsClean'
  BY <1>0, NextTypeOK, ConservedStep, OnceStep, OutcomeStep, EndStep
<1>2. UnsentWaits' /\ HeldHasAttempts' /\ SendsBounded'
  BY <1>0, UnsentStep, HeldStep, BoundedStep
<1> QED
  BY <1>1, <1>2 DEF PipelineInv

\* The invariant of the publish pipeline holds in every reachable state.
THEOREM PipelineInvariance == Spec => []PipelineInv
  BY InitPipelineInv, NextPipelineInv, PTL DEF Spec

\* The channel of run_publish_worker never holds more than
\* publish_queue_capacity jobs, the worker never more than one, and every
\* other variable keeps its type.
THEOREM TypeCorrect == Spec => []TypeOK
<1>1. PipelineInv => TypeOK
  BY DEF PipelineInv
<1> QED
  BY <1>1, PipelineInvariance, PTL

\* The accepted events are always the finished ones, the one in the worker's
\* hands and the queued ones, in the order in which try_send took them.
THEOREM NothingLost == Spec => []Conserved
<1>1. PipelineInv => Conserved
  BY DEF PipelineInv
<1> QED
  BY <1>1, PipelineInvariance, PTL

\* publish sends an event at most publish_max_retries times (once when that is
\* 0), and run_publish_worker gives one up after exactly as many, none of which
\* was acknowledged.
THEOREM AttemptsRespected == Spec => []SendsBounded
<1>1. PipelineInv => SendsBounded
  BY DEF PipelineInv
<1> QED
  BY <1>1, PipelineInvariance, PTL

\* A shutdown of main that saw the worker end leaves no accepted event that is
\* neither published nor given up.
THEOREM DrainIsComplete == Spec => []DrainedLeavesNothing
<1>1. ASSUME PipelineInv
      PROVE  DrainedLeavesNothing
  <2>1. SUFFICES ASSUME ended = "drained", NEW i \in DOMAIN accepted
                 PROVE  accepted[i] \in published \cup given_up
    BY DEF DrainedLeavesNothing
  <2>2. TypeOK /\ Conserved /\ FinishedOutcome /\ EndIsClean
    BY <1>1 DEF PipelineInv
  <2>3. Len(job) = 0 /\ Len(queue) = 0
    BY <2>1, <2>2 DEF EndIsClean, TypeOK
  <2>4. /\ DOMAIN accepted = 1..Len(accepted)
        /\ DOMAIN finished = 1..Len(finished)
        /\ Len(finished) \in Nat
    BY <2>2, LenProperties DEF TypeOK
  <2>5. /\ Len(accepted) = Len(finished) + Len(job) + Len(queue)
        /\ \A k \in 1..Len(finished) : accepted[k] = finished[k]
    BY <2>2, Places
  <2>6. i \in DOMAIN finished /\ accepted[i] = finished[i]
    BY <2>1, <2>3, <2>4, <2>5
  <2> QED
    BY <2>2, <2>6 DEF FinishedOutcome
<1> QED
  BY <1>1, PipelineInvariance, PTL

\* A SIGTERM or a crash at any moment, which main does not handle, loses at
\* most publish_queue_capacity events and the one in the worker's hands.
THEOREM KillIsBounded == Spec => []KillLosesAtMost
<1>1. ASSUME PipelineInv
      PROVE  KillLosesAtMost
  <2>1. SUFFICES ASSUME NEW i \in DOMAIN accepted,
                        i + Capacity + 1 <= Len(accepted)
                 PROVE  accepted[i] \in published \cup given_up
    BY DEF KillLosesAtMost
  <2>2. TypeOK /\ Conserved /\ FinishedOutcome
    BY <1>1 DEF PipelineInv
  <2>3. /\ Len(job) \in Nat /\ Len(queue) \in Nat /\ Len(finished) \in Nat
        /\ DOMAIN accepted = 1..Len(accepted) /\ Len(accepted) \in Nat
        /\ DOMAIN finished = 1..Len(finished)
    BY <2>2, LenProperties DEF TypeOK
  <2>4. Len(job) <= 1 /\ Len(queue) <= Capacity /\ Capacity \in Nat
    BY <2>2, PipelineAssumption DEF TypeOK
  <2>5. /\ Len(accepted) = Len(finished) + Len(job) + Len(queue)
        /\ \A k \in 1..Len(finished) : accepted[k] = finished[k]
    BY <2>2, Places
  <2>6. i \in 1..Len(finished)
    BY <2>1, <2>3, <2>4, <2>5
  <2> QED
    BY <2>2, <2>3, <2>5, <2>6 DEF FinishedOutcome
<1> QED
  BY <1>1, PipelineInvariance, PTL

\* Every step of the pipeline is a step of OrderedHandoff or leaves it alone.
LEMMA HandoffStep ==
  ASSUME PipelineInv, [Next]_vars
  PROVE  [Handoff!Next]_<<accepted, finished>>
<1>0. TypeOK /\ Conserved /\ AcceptedOnce /\ FinishedOutcome
  BY DEF PipelineInv
<1>1. CASE UNCHANGED <<accepted, finished>>
  BY <1>1
<1>2. ASSUME NEW e \in Events, Enters(e)
      PROVE  Handoff!Accept(e)
  BY <1>2 DEF Enters, Taken, Handoff!Accept, Handoff!Taken
<1>3. ASSUME worker = "send", FinishJob, UNCHANGED accepted
      PROVE  Handoff!Finish
  <2>1. /\ job = <<job[1]>> /\ job[1] \in Events
        /\ Len(finished) + 1 \in DOMAIN accepted
        /\ accepted[Len(finished) + 1] = job[1]
    BY <1>0, <1>3, HeldJob, HeldPlace
  <2>2. finished \in Seq(Events) /\ Len(finished) \in Nat
        /\ DOMAIN accepted = 1..Len(accepted) /\ Len(accepted) \in Nat
    BY <1>0, LenProperties DEF TypeOK
  <2>3. Append(finished, job[1]) = finished \o <<job[1]>>
    BY <2>1, <2>2, AppendIsConcat
  <2>4. Len(finished) < Len(accepted)
    BY <2>1, <2>2
  <2>5. finished' = Append(finished, accepted[Len(finished) + 1])
    BY <1>3, <2>1, <2>3 DEF FinishJob
  <2> QED
    BY <1>3, <2>4, <2>5 DEF Handoff!Finish
<1>4. CASE SendOk
  BY <1>3, <1>4 DEF SendOk, intake, Handoff!Next
<1>5. CASE SendErr
  BY <1>1, <1>3, <1>5 DEF SendErr, intake, Handoff!Next
<1> QED
  BY <1>1, <1>2, <1>4, <1>5, StepEffect
     DEF WorkerRecv, Turns, Quiet, events, intake, outcome, Handoff!Next

\* The publish channel and run_publish_worker implement OrderedHandoff.
THEOREM ImplementsHandoff == Spec => HandoffSpec
<1>1. Init => Handoff!Init
  BY DEF Init, Handoff!Init
<1>2. PipelineInv /\ [Next]_vars => [Handoff!Next]_<<accepted, finished>>
  BY HandoffStep
<1> QED
  BY <1>1, <1>2, PipelineInvariance, PTL DEF Spec, HandoffSpec, Handoff!Spec

============================================================================
