------------------------ MODULE EgressDeliveryProofs ------------------------
(***************************************************************************)
(* What deliver() of the egress adapters promises, for every adapter       *)
(* configuration and whatever the destination, the network and the         *)
(* timeouts do.                                                            *)
(***************************************************************************)
EXTENDS EgressDelivery, SequenceTheorems, TLAPS

Starting == pc \in {"post", "connect", "write", "spawn", "stdin"}
Waiting == pc \in {"answer", "wait"}

\* One result per envelope, one request at most per attempt.
Counting ==
    /\ envelope = IF pc = "idle" THEN Len(results) ELSE Len(results) + 1
    /\ pc # "idle" => attempt \in 1..Attempts
    /\ Starting => sends < attempt
    /\ Waiting \/ pc \in {"backoff", "close"} => sends <= attempt
    /\ pc = "backoff" => attempt < Attempts

\* Adapters whose attempt is one post have posted in every attempt so far.
PostCounting ==
    AttemptStep = "post" =>
        /\ pc \in {"idle", "post", "answer", "backoff"}
        /\ pc = "post" => sends = attempt - 1
        /\ pc \in {"answer", "backoff"} => sends = attempt

\* The pause before attempt i + 1.
PauseOf(i) == retry_backoff_seconds(target.backoff_base, target.backoff_max, i - 1)

\* Each failed attempt but the last has had its pause, in their order.
PausesComputed ==
    /\ pc # "idle" => Len(waits) = IF pc = "backoff" THEN attempt ELSE attempt - 1
    /\ target.driver = "openclaw" => \A i \in DOMAIN waits : waits[i] = PauseOf(i)

\* A request is the adapter's current one or an earlier one, it is taken once,
\* and while it is on its way the adapter waits for it or gave up on it.
Traffic ==
    /\ \A r \in onTheWay \cup Range1(taken) :
          r[1] <= envelope /\ (r[1] = envelope => r[2] <= sends)
    /\ \A r \in onTheWay :
          /\ r \notin Range1(taken)
          /\ r \in unheard \/ (Waiting /\ r = Request)

\* What reached or may reach the destination.
Requests == onTheWay \cup Range1(taken)

\* While a delivery runs, every request made for its envelope but the one that
\* is waited for is unheard; of two requests for one envelope the first is.
Repeats ==
    /\ \A r \in Requests :
          (pc # "idle" /\ r[1] = envelope) => r \in unheard \/ (Waiting /\ r = Request)
    /\ \A r, q \in Requests : (r[1] = q[1] /\ r[2] < q[2]) => r \in unheard

\* A refusal ends the delivery.
RefusalEnds == \A e \in refused : e <= envelope /\ (e = envelope => pc = "idle")

DeliveryInv ==
    /\ TypeOK /\ Counting /\ PostCounting /\ PausesComputed
    /\ Traffic /\ Repeats /\ RefusalEnds
    /\ EffortSpent /\ DisorderOnlyUnheard

-----------------------------------------------------------------------------
(***************************************************************************)
(* What the steps have in common.                                          *)
(***************************************************************************)
\* The adapter's configuration gives a number of attempts, and it stays.
LEMMA AttemptsType ==
  ASSUME TypeOK
  PROVE  Attempts \in Nat /\ target \in AdapterTargets
  BY DEF TypeOK, AdapterTargets, Attempts

\* A result is put behind the others.
LEMMA AnswerEffect ==
  ASSUME TypeOK, NEW x \in {"ok", "err"}, Answer(x)
  PROVE  /\ pc' = "idle" /\ results' \in Seq({"ok", "err"})
         /\ Len(results) \in Nat /\ DOMAIN results = 1..Len(results)
         /\ Len(results') = Len(results) + 1
         /\ DOMAIN results' = 1..(Len(results) + 1)
         /\ \A e \in DOMAIN results : results'[e] = results[e]
         /\ results'[Len(results) + 1] = x
<1>1. results \in Seq({"ok", "err"}) /\ results' = Append(results, x) /\ pc' = "idle"
  BY DEF TypeOK, Answer
<1>2. /\ Append(results, x) \in Seq({"ok", "err"})
      /\ Len(Append(results, x)) = Len(results) + 1
      /\ \A i \in 1..Len(results) : Append(results, x)[i] = results[i]
      /\ Append(results, x)[Len(results) + 1] = x
  BY <1>1, AppendProperties
<1> QED
  BY <1>1, <1>2, LenProperties

\* The pauses of retry_backoff_seconds are numbers.
LEMMA BackoffType ==
  ASSUME NEW base \in Nat, NEW max \in Nat, NEW index \in Nat
  PROVE  retry_backoff_seconds(base, max, index) \in Int
<1> DEFINE exponent == IF index < 31 THEN index ELSE 31
<1>1. exponent \in Nat
  OBVIOUS
<1>2. 2 ^ exponent \in Int
  BY <1>1, SMT
<1>3. base * 2 ^ exponent \in Int
  BY <1>2
<1> QED
  BY <1>3 DEF retry_backoff_seconds

\* A failed attempt is the last one, and answered, or is followed by a pause.
LEMMA FailEffect ==
  ASSUME TypeOK, Counting, pc # "idle", FailAttempt
  PROVE  /\ attempt' = attempt /\ waits' \in Seq(Int)
         /\ \/ attempt >= Attempts /\ Answer("err") /\ waits' = waits
            \/ attempt < Attempts /\ pc' = "backoff" /\ results' = results
<1>0. /\ Attempts \in Nat /\ target \in AdapterTargets /\ attempt \in Nat
      /\ attempt - 1 \in Nat /\ waits \in Seq(Int)
  BY AttemptsType DEF TypeOK, Counting
<1>1. CASE attempt >= Attempts
  BY <1>0, <1>1 DEF FailAttempt, TypeOK
<1>2. CASE attempt < Attempts
  <2>1. ~(attempt >= Attempts)
    BY <1>0, <1>2
  <2>2. /\ pc' = "backoff" /\ UNCHANGED <<attempt, results>>
        /\ waits' = Append(waits,
              IF target.driver = "openclaw"
                THEN retry_backoff_seconds(target.backoff_base,
                                           target.backoff_max, attempt - 1)
                ELSE target.backoff_base)
    BY <2>1 DEF FailAttempt
  <2>3. target.backoff_base \in Nat /\ target.backoff_max \in Nat
    BY <1>0 DEF AdapterTargets
  <2>4. retry_backoff_seconds(target.backoff_base, target.backoff_max, attempt - 1)
          \in Int
    BY <1>0, <2>3, BackoffType
  <2>5. \A x \in Int : Append(waits, x) \in Seq(Int)
    BY <1>0, AppendProperties
  <2> QED
    BY <1>2, <2>2, <2>3, <2>4, <2>5
<1> QED
  BY <1>0, <1>1, <1>2

\* Where an attempt starts.
LEMMA StartEffect ==
  AttemptStep \in {"post", "connect", "spawn"}
  BY DEF AttemptStep

\* The disjuncts of Next, by what they do.
LEMMA StepCases ==
  ASSUME [Next]_vars
  PROVE  \/ UNCHANGED vars
         \/ Deliver
         \/ BackoffOver
         \/ Post \/ StdinWritten
         \/ AnswerOk \/ ChildOk
         \/ AnswerRetryable \/ ChildErr
         \/ AnswerPermanent
         \/ Connected \/ Spawn
         \/ ConnectErr \/ SpawnErr \/ StdinErr
         \/ WriteOk
         \/ Closed
         \/ WriteErr
         \/ \E r \in onTheWay : TakeRequest(r) \/ LoseRequest(r)
  BY DEF Next, TimedStep, AnswerStep, UnboundedStep

\* A new request enters the traffic.
SentNow == <<envelope, sends + 1>>

\* Every step leaves the adapter what it is.
LEMMA TargetKept ==
  ASSUME [Next]_vars
  PROVE  target' = target /\ Attempts' = Attempts /\ AttemptStep' = AttemptStep
<1>1. target' = target
  BY StepCases
     DEF vars, Deliver, BackoffOver, Post, StdinWritten, AnswerOk, ChildOk,
         AnswerRetryable, ChildErr, AnswerPermanent, Connected, Spawn, ConnectErr,
         SpawnErr, StdinErr, WriteOk, Closed, WriteErr, TakeRequest, LoseRequest
<1> QED
  BY <1>1 DEF Attempts, AttemptStep

\* The steps in which the adapter answers, with what it knows when it does.
LEMMA ResultCases ==
  ASSUME TypeOK, Counting, [Next]_vars
  PROVE  \/ results' = results /\ pc # "idle" /\ pc' # "idle" /\ envelope' = envelope
            /\ (attempt' = attempt \/ pc = "backoff")
         \/ UNCHANGED <<results, pc, envelope, attempt, sends, waits>>
         \/ Deliver
         \/ Answer("ok") /\ pc # "idle" /\ envelope' = envelope
         \/ /\ Answer("err") /\ pc \notin {"idle", "post", "backoff"}
            /\ envelope' = envelope /\ attempt' = attempt
            /\ \/ envelope \in refused'
               \/ /\ attempt >= Attempts /\ waits' = waits
                  /\ sends' = sends \/ pc = "write"
<1>1. CASE UNCHANGED vars
  BY <1>1 DEF vars
<1>2. CASE BackoffOver
  BY <1>2, StartEffect DEF BackoffOver
<1>3. CASE Post \/ StdinWritten \/ Connected \/ Spawn
  BY <1>3 DEF Post, StdinWritten, Connected, Spawn, Send
<1>4. CASE AnswerOk \/ ChildOk \/ Closed
  BY <1>4 DEF AnswerOk, ChildOk, Closed
<1>5. CASE AnswerPermanent
  BY <1>5 DEF AnswerPermanent
<1>6. CASE AnswerRetryable \/ ChildErr \/ ConnectErr \/ SpawnErr \/ StdinErr \/ WriteErr
  <2>1. /\ pc \notin {"idle", "post", "backoff"} /\ FailAttempt /\ envelope' = envelope
        /\ sends' = sends \/ pc = "write"
    BY <1>6 DEF AnswerRetryable, ChildErr, ConnectErr, SpawnErr, StdinErr, WriteErr
  <2> QED
    BY <2>1, FailEffect
<1>7. CASE WriteOk
  BY <1>7 DEF WriteOk, Send
<1>8. ASSUME NEW r \in onTheWay, TakeRequest(r) \/ LoseRequest(r)
      PROVE  UNCHANGED <<results, pc, envelope, attempt, sends, waits>>
  BY <1>8 DEF TakeRequest, LoseRequest
<1> QED
  BY <1>1, <1>2, <1>3, <1>4, <1>5, <1>6, <1>7, <1>8, StepCases

-----------------------------------------------------------------------------
(***************************************************************************)
(* Types and counts.                                                       *)
(***************************************************************************)
\* Everything has its type before the first delivery.
LEMMA InitTypeOK == Init => TypeOK
<1> SUFFICES ASSUME Init
             PROVE  TypeOK
  OBVIOUS
<1>1. target \in AdapterTargets
  BY EgressAssumption DEF Init
<1>2. Attempts \in Nat
  BY <1>1 DEF AdapterTargets, Attempts
<1>3. /\ waits \in Seq(Int) /\ taken \in Seq(Nat \X Nat)
      /\ results \in Seq({"ok", "err"})
  BY EmptySeq DEF Init
<1> QED
  BY <1>1, <1>2, <1>3 DEF Init, TypeOK

\* Every step keeps the types; an envelope is sent no more often than Attempts.
LEMMA NextTypeOK == TypeOK /\ Counting /\ [Next]_vars => TypeOK'
<1> SUFFICES ASSUME TypeOK, Counting, [Next]_vars
             PROVE  TypeOK'
  OBVIOUS
<1>0. /\ Attempts \in Nat /\ Attempts' = Attempts /\ target' \in AdapterTargets
      /\ envelope \in Nat /\ sends \in Nat /\ attempt \in Nat
  BY AttemptsType, TargetKept DEF TypeOK
<1> USE DEF network, history
<1>1. CASE UNCHANGED vars
  BY <1>0, <1>1 DEF vars, TypeOK
<1>2. CASE Deliver
  <2>1. /\ envelope' \in Nat /\ attempt' \in Nat /\ sends' \in 0..Attempts
        /\ waits' \in Seq(Int) /\ UNCHANGED <<onTheWay, taken, unheard, refused>>
    BY <1>0, <1>2, EmptySeq DEF Deliver
  <2>2. /\ pc' \in {"idle", "post", "connect", "spawn"}
        /\ results' \in Seq({"ok", "err"})
    <3>1. CASE Answer("err")
      BY <3>1, AnswerEffect
    <3>2. CASE pc' = AttemptStep /\ UNCHANGED results
      BY <3>2, StartEffect DEF TypeOK
    <3> QED
      BY <1>2, <3>1, <3>2 DEF Deliver
  <2> QED
    BY <1>0, <2>1, <2>2 DEF TypeOK
<1>3. CASE BackoffOver
  BY <1>0, <1>3, StartEffect DEF BackoffOver, TypeOK
<1>4. ASSUME Starting, sends' = sends + 1
      PROVE  sends' \in 0..Attempts /\ SentNow \in Nat \X Nat /\ sends + 1 <= attempt
  BY <1>0, <1>4 DEF Counting, Starting, SentNow
<1>5. CASE Post \/ StdinWritten
  <2>1. /\ pc' \in {"answer", "wait"} /\ sends' = sends + 1 /\ Starting
        /\ onTheWay' = onTheWay \cup {SentNow}
        /\ UNCHANGED <<target, envelope, attempt, waits, taken, unheard, refused,
                       results>>
    BY <1>5 DEF Post, StdinWritten, Send, Starting, SentNow
  <2> QED
    BY <1>0, <1>4, <2>1 DEF TypeOK
<1>6. CASE AnswerOk \/ ChildOk \/ Closed
  <2>1. /\ Answer("ok") /\ onTheWay' \subseteq onTheWay
        /\ UNCHANGED <<target, envelope, attempt, sends, waits, taken, unheard,
                       refused>>
    BY <1>6 DEF AnswerOk, ChildOk, Closed
  <2> QED
    BY <1>0, <2>1, AnswerEffect DEF TypeOK
<1>7. ASSUME pc # "idle", FailAttempt
      PROVE  /\ attempt' \in Nat /\ waits' \in Seq(Int)
             /\ pc' \in {"idle", "backoff"} /\ results' \in Seq({"ok", "err"})
  BY <1>0, <1>7, FailEffect, AnswerEffect DEF TypeOK
<1>8. CASE AnswerRetryable \/ ChildErr
  <2>1. /\ pc # "idle" /\ FailAttempt /\ unheard' = unheard \cup {Request}
        /\ UNCHANGED <<target, envelope, sends, onTheWay, taken, refused>>
    BY <1>8 DEF AnswerRetryable, ChildErr
  <2>2. Request \in Nat \X Nat
    BY <1>0 DEF Request
  <2> QED
    BY <1>0, <1>7, <2>1, <2>2 DEF TypeOK
<1>9. CASE AnswerPermanent
  <2>1. /\ Answer("err") /\ refused' = refused \cup {envelope}
        /\ onTheWay' = onTheWay \ {Request}
        /\ UNCHANGED <<target, envelope, attempt, sends, waits, taken, unheard>>
    BY <1>9 DEF AnswerPermanent
  <2> QED
    BY <1>0, <2>1, AnswerEffect DEF TypeOK
<1>10. CASE Connected \/ Spawn
  BY <1>0, <1>10 DEF Connected, Spawn, TypeOK
<1>11. CASE ConnectErr \/ SpawnErr \/ StdinErr
  <2>1. /\ pc # "idle" /\ FailAttempt
        /\ UNCHANGED <<target, envelope, sends, onTheWay, taken, unheard, refused>>
    BY <1>11 DEF ConnectErr, SpawnErr, StdinErr
  <2> QED
    BY <1>0, <1>7, <2>1 DEF TypeOK
<1>12. CASE WriteOk
  <2>1. /\ pc' = "close" /\ sends' = sends + 1 /\ Starting
        /\ onTheWay' = onTheWay \cup {SentNow} /\ unheard' = unheard \cup {SentNow}
        /\ UNCHANGED <<target, envelope, attempt, waits, taken, refused, results>>
    BY <1>12 DEF WriteOk, Send, Starting, SentNow
  <2> QED
    BY <1>0, <1>4, <2>1 DEF TypeOK
<1>13. CASE WriteErr
  <2>1. /\ FailAttempt /\ sends' = sends + 1 /\ Starting /\ pc # "idle"
        /\ onTheWay' \subseteq onTheWay \cup {SentNow}
        /\ unheard' = unheard \cup {SentNow}
        /\ UNCHANGED <<target, envelope, taken, refused>>
    BY <1>13 DEF WriteErr, Starting, SentNow
  <2> QED
    BY <1>0, <1>4, <1>7, <2>1 DEF TypeOK
<1>14. ASSUME NEW r \in onTheWay, TakeRequest(r) \/ LoseRequest(r)
       PROVE  TypeOK'
  <2>1. /\ onTheWay' = onTheWay \ {r}
        /\ taken' \in {taken, Append(taken, r)}
        /\ UNCHANGED <<target, pc, envelope, attempt, sends, waits, unheard, refused,
                       results>>
    BY <1>14 DEF TakeRequest, LoseRequest
  <2>2. Append(taken, r) \in Seq(Nat \X Nat)
    BY AppendProperties DEF TypeOK
  <2> QED
    BY <1>0, <2>1, <2>2 DEF TypeOK
<1> QED
  BY <1>1, <1>2, <1>3, <1>5, <1>6, <1>8, <1>9, <1>10, <1>11, <1>12, <1>13, <1>14,
     StepCases

\* Attempts, requests and results keep step.
LEMMA CountingStep ==
  ASSUME TypeOK, Counting, [Next]_vars
  PROVE  Counting'
<1>0. /\ Attempts \in Nat /\ Attempts' = Attempts /\ Len(results) \in Nat
      /\ envelope \in Nat /\ sends \in Nat /\ attempt \in Nat
  BY AttemptsType, TargetKept, LenProperties DEF TypeOK
<1> USE DEF Starting, Waiting
<1>1. CASE UNCHANGED <<pc, envelope, attempt, sends, results>>
  BY <1>0, <1>1 DEF Counting
<1>2. CASE Deliver
  <2>1. pc = "idle" /\ envelope' = envelope + 1 /\ attempt' = 1 /\ sends' = 0
    BY <1>2 DEF Deliver
  <2>2. CASE Answer("err")
    BY <1>0, <2>1, <2>2, AnswerEffect DEF Counting
  <2>3. CASE Attempts # 0 /\ pc' = AttemptStep /\ UNCHANGED results
    BY <1>0, <2>1, <2>3, StartEffect DEF Counting
  <2> QED
    BY <1>2, <2>2, <2>3 DEF Deliver
<1>3. CASE BackoffOver
  <2>1. /\ pc = "backoff" /\ attempt' = attempt + 1
        /\ pc' \in {"post", "connect", "spawn"}
        /\ UNCHANGED <<envelope, sends, results>>
    BY <1>3, StartEffect DEF BackoffOver
  <2> QED
    BY <1>0, <2>1 DEF Counting
<1>4. CASE Post \/ StdinWritten \/ WriteOk
  <2>1. /\ pc' \in {"answer", "wait", "close"} /\ sends' = sends + 1 /\ Starting
        /\ UNCHANGED <<envelope, attempt, results>>
    BY <1>4 DEF Post, StdinWritten, WriteOk, Send
  <2> QED
    BY <1>0, <2>1 DEF Counting
<1>5. CASE Connected \/ Spawn
  <2>1. /\ pc' \in {"write", "stdin"} /\ Starting
        /\ UNCHANGED <<envelope, attempt, sends, results>>
    BY <1>5 DEF Connected, Spawn
  <2> QED
    BY <1>0, <2>1 DEF Counting
<1>6. ASSUME pc # "idle", NEW x \in {"ok", "err"}, Answer(x), envelope' = envelope
      PROVE  Counting'
  BY <1>0, <1>6, AnswerEffect DEF Counting
<1>7. ASSUME pc # "idle", FailAttempt, envelope' = envelope,
             sends' = sends \/ (Starting /\ sends' = sends + 1)
      PROVE  Counting'
  <2>1. CASE Answer("err")
    BY <1>6, <1>7, <2>1
  <2>2. CASE /\ attempt < Attempts /\ pc' = "backoff" /\ results' = results
             /\ attempt' = attempt
    <3>1. sends' <= attempt /\ attempt \in 1..Attempts /\ sends' \in Nat
      BY <1>0, <1>7 DEF Counting, TypeOK
    <3> QED
      BY <1>0, <1>7, <2>2, <3>1 DEF Counting
  <2> QED
    BY <1>7, <2>1, <2>2, FailEffect
<1>8. CASE AnswerOk \/ ChildOk \/ AnswerPermanent \/ Closed
  <2>1. pc # "idle" /\ envelope' = envelope /\ \E x \in {"ok", "err"} : Answer(x)
    BY <1>8 DEF AnswerOk, ChildOk, AnswerPermanent, Closed
  <2> QED
    BY <1>6, <2>1
<1>9. CASE AnswerRetryable \/ ChildErr \/ ConnectErr \/ SpawnErr \/ StdinErr \/ WriteErr
  <2>1. /\ pc # "idle" /\ FailAttempt /\ envelope' = envelope
        /\ sends' = sends \/ (Starting /\ sends' = sends + 1)
    BY <1>9 DEF AnswerRetryable, ChildErr, ConnectErr, SpawnErr, StdinErr, WriteErr
  <2> QED
    BY <1>7, <2>1
<1> QED
  BY <1>1, <1>2, <1>3, <1>4, <1>5, <1>8, <1>9, StepCases
     DEF vars, TakeRequest, LoseRequest

\* An adapter that posts has posted once in every attempt it made.
LEMMA PostStep ==
  ASSUME TypeOK, Counting, PostCounting, [Next]_vars
  PROVE  PostCounting'
<1> SUFFICES ASSUME AttemptStep = "post"
             PROVE  PostCounting'
  BY TargetKept DEF PostCounting
<1>0. /\ attempt \in Nat /\ sends \in Nat
      /\ pc \in {"idle", "post", "answer", "backoff"}
      /\ pc = "post" => sends = attempt - 1
      /\ pc \in {"answer", "backoff"} => sends = attempt
  BY DEF TypeOK, PostCounting
<1>1. CASE UNCHANGED <<pc, attempt, sends>> \/ pc' = "idle"
  BY <1>0, <1>1, TargetKept DEF PostCounting
<1>2. CASE Deliver \/ BackoffOver
  <2>1. pc' = "idle" \/ (pc' = "post" /\ sends' = attempt' - 1)
    BY <1>0, <1>2 DEF Deliver, BackoffOver, Answer
  <2> QED
    BY <2>1 DEF PostCounting
<1>3. CASE Post
  BY <1>0, <1>3 DEF Post, Send, PostCounting
<1>4. CASE AnswerRetryable
  <2>1. pc = "answer" /\ FailAttempt /\ sends' = sends
    BY <1>4 DEF AnswerRetryable
  <2>2. attempt' = attempt /\ pc' \in {"idle", "backoff"}
    BY <2>1, FailEffect DEF Answer
  <2> QED
    BY <1>0, <2>1, <2>2 DEF PostCounting
<1>5. ~(\/ Connected \/ ConnectErr \/ WriteOk \/ WriteErr \/ Closed \/ Spawn
        \/ SpawnErr \/ StdinWritten \/ StdinErr \/ ChildOk \/ ChildErr)
  BY <1>0 DEF Connected, ConnectErr, WriteOk, WriteErr, Closed, Spawn, SpawnErr,
              StdinWritten, StdinErr, ChildOk, ChildErr
<1>6. CASE AnswerOk \/ AnswerPermanent
  BY <1>1, <1>6 DEF AnswerOk, AnswerPermanent, Answer
<1> QED
  BY <1>1, <1>2, <1>3, <1>4, <1>5, <1>6, StepCases DEF vars, TakeRequest, LoseRequest

\* A step that leaves the pauses and the attempt alone keeps them in step.
LEMMA PausesKept ==
  ASSUME PausesComputed, UNCHANGED <<waits, target>>,
         \/ pc' = "idle"
         \/ attempt' = attempt /\ pc # "idle" /\ (pc' = "backoff" <=> pc = "backoff")
         \/ attempt' = attempt + 1 /\ attempt \in Nat /\ pc = "backoff" /\ pc' # "backoff"
  PROVE  PausesComputed'
<1>1. \A i : PauseOf(i)' = PauseOf(i)
  BY DEF PauseOf
<1> QED
  BY <1>1 DEF PausesComputed

\* A failed attempt adds the pause that is its own.
LEMMA PauseStep ==
  ASSUME TypeOK, Counting, PausesComputed, FailAttempt, pc \notin {"idle", "backoff"},
         target' = target
  PROVE  PausesComputed'
<1>0. /\ Attempts \in Nat /\ attempt \in Nat /\ attempt - 1 \in Nat
      /\ waits \in Seq(Int) /\ target \in AdapterTargets
  BY AttemptsType DEF TypeOK, Counting
<1>1. CASE attempt >= Attempts
  <2>1. pc' = "idle" /\ UNCHANGED waits
    BY <1>1 DEF FailAttempt, Answer
  <2> QED
    BY <2>1, PausesKept
<1>2. CASE ~(attempt >= Attempts)
  <2> DEFINE pause == IF target.driver = "openclaw" THEN PauseOf(attempt)
                                                   ELSE target.backoff_base
  <2>1. /\ pc' = "backoff" /\ attempt' = attempt /\ waits' = Append(waits, pause)
    BY <1>2 DEF FailAttempt, PauseOf
  <2>2. pause \in Int
    <3>1. target.backoff_base \in Nat /\ target.backoff_max \in Nat
      BY <1>0 DEF AdapterTargets
    <3>2. PauseOf(attempt) \in Int
      BY <1>0, <3>1, BackoffType DEF PauseOf
    <3> QED
      BY <3>1, <3>2
  <2>3. Len(waits) = attempt - 1 /\ DOMAIN waits = 1..(attempt - 1)
    BY <1>0, LenProperties DEF PausesComputed
  <2> HIDE DEF pause
  <2>4. /\ Append(waits, pause) \in Seq(Int) /\ Len(Append(waits, pause)) = attempt
        /\ \A i \in 1..(attempt - 1) : Append(waits, pause)[i] = waits[i]
        /\ Append(waits, pause)[attempt] = pause
    BY <1>0, <2>2, <2>3, AppendProperties
  <2>5. DOMAIN Append(waits, pause) = 1..attempt
    BY <2>4, LenProperties
  <2>6. \A i : PauseOf(i)' = PauseOf(i)
    BY DEF PauseOf
  <2>7. ASSUME target.driver = "openclaw", NEW i \in 1..attempt
        PROVE  waits'[i] = PauseOf(i)
    <3>1. CASE i = attempt
      BY <2>1, <2>4, <2>7, <3>1 DEF pause
    <3>2. CASE i \in 1..(attempt - 1)
      BY <2>1, <2>3, <2>4, <2>7, <3>2 DEF PausesComputed
    <3> QED
      BY <1>0, <3>1, <3>2
  <2> QED
    BY <2>1, <2>4, <2>5, <2>6, <2>7 DEF PausesComputed
<1> QED
  BY <1>1, <1>2

\* Every step keeps the pauses in step with the attempts.
LEMMA NextPauses ==
  ASSUME TypeOK, Counting, PausesComputed, [Next]_vars
  PROVE  PausesComputed'
<1>0. target' = target /\ attempt \in Nat
  BY TargetKept DEF TypeOK
<1> USE DEF network, history
<1>1. CASE UNCHANGED <<pc, attempt, waits>>
  BY <1>0, <1>1 DEF PausesComputed, PauseOf
<1>2. CASE Deliver
  <2>1. waits' = <<>> /\ attempt' = 1 /\ pc' # "backoff"
    BY <1>2, StartEffect DEF Deliver, Answer
  <2>2. Len(<<>>) = 0 /\ DOMAIN <<>> = {}
    OBVIOUS
  <2>3. Len(waits') = 0 /\ DOMAIN waits' = {}
    BY <2>1, <2>2
  <2> QED
    BY <2>1, <2>3 DEF PausesComputed
<1>3. CASE BackoffOver
  BY <1>0, <1>3, StartEffect, PausesKept DEF BackoffOver
<1>4. CASE Post \/ StdinWritten \/ WriteOk \/ Connected \/ Spawn
  BY <1>0, <1>4, PausesKept DEF Post, StdinWritten, WriteOk, Connected, Spawn, Send
<1>5. CASE AnswerOk \/ ChildOk \/ AnswerPermanent \/ Closed
  BY <1>0, <1>5, PausesKept DEF AnswerOk, ChildOk, AnswerPermanent, Closed, Answer
<1>6. CASE AnswerRetryable \/ ChildErr \/ ConnectErr \/ SpawnErr \/ StdinErr \/ WriteErr
  <2>1. pc \notin {"idle", "backoff"} /\ FailAttempt
    BY <1>6 DEF AnswerRetryable, ChildErr, ConnectErr, SpawnErr, StdinErr, WriteErr
  <2> QED
    BY <1>0, <2>1, PauseStep
<1>7. ASSUME NEW r \in onTheWay, TakeRequest(r) \/ LoseRequest(r)
      PROVE  UNCHANGED <<pc, attempt, waits>>
  BY <1>7 DEF TakeRequest, LoseRequest
<1> QED
  BY <1>1, <1>2, <1>3, <1>4, <1>5, <1>6, <1>7, StepCases DEF vars

-----------------------------------------------------------------------------
(***************************************************************************)
(* Requests and results.                                                   *)
(***************************************************************************)
\* What a request taken by the destination adds.
LEMMA TakenGrows ==
  ASSUME TypeOK, NEW r \in onTheWay, taken' = Append(taken, r)
  PROVE  /\ Range1(taken)' = Range1(taken) \cup {r}
         /\ Len(taken) \in Nat /\ DOMAIN taken = 1..Len(taken)
         /\ DOMAIN taken' = 1..(Len(taken) + 1)
         /\ \A i \in DOMAIN taken : taken'[i] = taken[i]
         /\ taken'[Len(taken) + 1] = r
<1>1. taken \in Seq(Nat \X Nat) /\ r \in Nat \X Nat
  BY DEF TypeOK
<1>2. /\ taken' \in Seq(Nat \X Nat) /\ Len(taken') = Len(taken) + 1
      /\ \A i \in 1..Len(taken) : taken'[i] = taken[i]
      /\ taken'[Len(taken) + 1] = r
  BY <1>1, AppendProperties
<1>3. /\ Len(taken) \in Nat /\ DOMAIN taken = 1..Len(taken)
      /\ DOMAIN taken' = 1..(Len(taken) + 1)
  BY <1>1, <1>2, LenProperties
<1>4. Range1(taken') = Range1(taken) \cup {r}
  <2>1. Range1(taken') \subseteq Range1(taken) \cup {r}
    BY <1>2, <1>3 DEF Range1
  <2>2. Range1(taken) \subseteq Range1(taken')
    BY <1>2, <1>3 DEF Range1
  <2>3. Len(taken) + 1 \in DOMAIN taken'
    BY <1>3
  <2>4. r \in Range1(taken')
    BY <1>2, <2>3 DEF Range1
  <2> QED
    BY <2>1, <2>2, <2>4
<1>5. Range1(taken)' = Range1(taken')
  BY DEF Range1
<1> QED
  BY <1>2, <1>3, <1>4, <1>5

\* Every step accounts for the requests on their way.
LEMMA TrafficStep ==
  ASSUME TypeOK, Counting, Traffic, [Next]_vars
  PROVE  Traffic'
<1>0. /\ envelope \in Nat /\ sends \in Nat
      /\ \A r \in onTheWay \cup Range1(taken) : r \in Nat \X Nat
      /\ SentNow \in Nat \X Nat /\ SentNow[1] = envelope /\ SentNow[2] = sends + 1
      /\ Request[1] = envelope /\ Request[2] = sends
  <2>1. \A i \in DOMAIN taken : taken[i] \in Nat \X Nat
    BY LenProperties DEF TypeOK
  <2> QED
    BY <2>1 DEF TypeOK, Range1, SentNow, Request
<1>1. SentNow \notin onTheWay \cup Range1(taken)
  BY <1>0 DEF Traffic
<1>2. UNCHANGED taken => Range1(taken)' = Range1(taken)
  BY DEF Range1
<1>3. ASSUME UNCHANGED <<taken, envelope, sends>>, onTheWay' \subseteq onTheWay,
             unheard \subseteq unheard',
             Waiting => \/ Waiting'
                        \/ Request \in unheard'
                        \/ Request \notin onTheWay'
      PROVE  Traffic'
  <2>1. Request' = Request
    BY <1>3 DEF Request
  <2>2. ASSUME NEW r \in onTheWay'
        PROVE  r \in unheard' \/ (Waiting' /\ r = Request')
    BY <1>3, <2>1, <2>2 DEF Traffic
  <2> QED
    BY <1>2, <1>3, <2>2 DEF Traffic
<1>4. CASE UNCHANGED <<pc, onTheWay, taken, envelope, sends, unheard>>
  BY <1>3, <1>4 DEF Waiting
<1>5. CASE Deliver
  <2>1. /\ pc = "idle" /\ envelope' = envelope + 1 /\ sends' = 0
        /\ UNCHANGED <<onTheWay, taken, unheard>>
    BY <1>5 DEF Deliver, network, history
  <2>2. \A r \in onTheWay : r \in unheard
    BY <2>1 DEF Traffic, Waiting
  <2>3. \A r \in onTheWay \cup Range1(taken) : r[1] < envelope'
    BY <1>0, <2>1 DEF Traffic
  <2>4. \A r \in onTheWay' \cup Range1(taken)' :
           r[1] <= envelope' /\ (r[1] = envelope' => r[2] <= sends')
    <3>1. \A r \in onTheWay \cup Range1(taken) : r[1] \in Nat
      BY <1>0
    <3> QED
      BY <1>0, <1>2, <2>1, <2>3, <3>1
  <2> QED
    BY <1>2, <2>1, <2>2, <2>4 DEF Traffic
<1>6. CASE BackoffOver \/ Connected \/ Spawn \/ Closed
  <2>1. /\ ~Waiting /\ UNCHANGED <<onTheWay, taken, envelope, sends, unheard>>
    BY <1>6 DEF BackoffOver, Connected, Spawn, Closed, Waiting, network, history
  <2> QED
    BY <1>3, <2>1
<1>7. ASSUME UNCHANGED <<taken, envelope>>, sends' = sends + 1, ~Waiting,
             onTheWay' \subseteq onTheWay \cup {SentNow}, unheard \subseteq unheard',
             Waiting' \/ SentNow \in unheard'
      PROVE  Traffic'
  <2>1. Request' = SentNow
    BY <1>7 DEF Request, SentNow
  <2>2. \A r \in onTheWay : r \in unheard
    BY <1>7 DEF Traffic
  <2>3. \A r \in onTheWay' \cup Range1(taken)' :
           r[1] <= envelope' /\ (r[1] = envelope' => r[2] <= sends')
    <3>1. \A r \in onTheWay \cup Range1(taken) :
             r[1] <= envelope /\ (r[1] = envelope => r[2] <= sends) /\ r[2] \in Nat
      BY <1>0 DEF Traffic
    <3> QED
      BY <1>0, <1>2, <1>7, <3>1
  <2>4. \A r \in onTheWay' : r \notin Range1(taken)
    BY <1>1, <1>7 DEF Traffic
  <2> QED
    BY <1>2, <1>7, <2>1, <2>2, <2>3, <2>4 DEF Traffic
<1>8. CASE Post \/ StdinWritten
  <2>1. /\ ~Waiting /\ Waiting' /\ sends' = sends + 1
        /\ onTheWay' = onTheWay \cup {SentNow}
        /\ UNCHANGED <<taken, envelope, unheard>>
    BY <1>8 DEF Post, StdinWritten, Send, Waiting, SentNow, history
  <2> QED
    BY <1>7, <2>1
<1>9. CASE AnswerOk \/ ChildOk
  <2>1. /\ onTheWay' = onTheWay \ {Request}
        /\ UNCHANGED <<taken, envelope, sends, unheard>>
    BY <1>9 DEF AnswerOk, ChildOk, history
  <2> QED
    BY <1>3, <2>1
<1>10. CASE AnswerRetryable \/ ChildErr
  <2>1. /\ unheard' = unheard \cup {Request}
        /\ UNCHANGED <<onTheWay, taken, envelope, sends>>
    BY <1>10 DEF AnswerRetryable, ChildErr, network
  <2> QED
    BY <1>3, <2>1
<1>11. CASE AnswerPermanent
  <2>1. /\ onTheWay' = onTheWay \ {Request}
        /\ UNCHANGED <<taken, envelope, sends, unheard>>
    BY <1>11 DEF AnswerPermanent
  <2> QED
    BY <1>3, <2>1
<1>12. CASE ConnectErr \/ SpawnErr \/ StdinErr
  <2>1. ~Waiting /\ UNCHANGED <<onTheWay, taken, envelope, sends, unheard>>
    BY <1>12 DEF ConnectErr, SpawnErr, StdinErr, Waiting, network, history
  <2> QED
    BY <1>3, <2>1
<1>13. CASE WriteOk \/ WriteErr
  <2>1. /\ ~Waiting /\ sends' = sends + 1 /\ onTheWay' \subseteq onTheWay \cup {SentNow}
        /\ unheard' = unheard \cup {SentNow} /\ UNCHANGED <<taken, envelope>>
    BY <1>13 DEF WriteOk, WriteErr, Send, Waiting, SentNow
  <2> QED
    BY <1>7, <2>1
<1>14. ASSUME NEW r \in onTheWay, LoseRequest(r)
       PROVE  Traffic'
  <2>1. /\ onTheWay' = onTheWay \ {r}
        /\ UNCHANGED <<pc, taken, envelope, sends, unheard>>
    BY <1>14 DEF LoseRequest, history
  <2> QED
    BY <1>3, <2>1 DEF Waiting
<1>15. ASSUME NEW r \in onTheWay, TakeRequest(r)
       PROVE  Traffic'
  <2>1. /\ onTheWay' = onTheWay \ {r} /\ taken' = Append(taken, r)
        /\ UNCHANGED <<pc, envelope, sends, unheard>>
    BY <1>15 DEF TakeRequest, history
  <2>2. Range1(taken)' = Range1(taken) \cup {r}
    BY <2>1, TakenGrows
  <2>3. Request' = Request /\ Waiting' = Waiting
    BY <2>1 DEF Request, Waiting
  <2> QED
    BY <2>1, <2>2, <2>3 DEF Traffic
<1> QED
  BY <1>4, <1>5, <1>6, <1>8, <1>9, <1>10, <1>11, <1>12, <1>13, <1>14, <1>15,
     StepCases DEF vars

\* The history only grows, and requests are taken one at a time.
LEMMA HistoryGrows ==
  ASSUME TypeOK, [Next]_vars
  PROVE  /\ unheard \subseteq unheard'
         /\ refused' = refused
            \/ (refused' = refused \cup {envelope} /\ pc' = "idle" /\ envelope' = envelope)
         /\ \/ taken' = taken
            \/ \E r \in onTheWay : TakeRequest(r)
<1> USE DEF network, history
<1>1. CASE UNCHANGED <<taken, unheard, refused>>
  BY <1>1
<1>2. CASE \/ Deliver \/ BackoffOver \/ Post \/ StdinWritten \/ AnswerOk \/ ChildOk
           \/ Connected \/ Spawn \/ ConnectErr \/ SpawnErr \/ StdinErr \/ Closed
  BY <1>1, <1>2
     DEF Deliver, BackoffOver, Post, StdinWritten, AnswerOk, ChildOk, Connected,
         Spawn, ConnectErr, SpawnErr, StdinErr, Closed
<1>3. CASE AnswerRetryable \/ ChildErr \/ WriteOk \/ WriteErr
  BY <1>3 DEF AnswerRetryable, ChildErr, WriteOk, WriteErr
<1>4. CASE AnswerPermanent
  BY <1>4 DEF AnswerPermanent, Answer
<1>5. ASSUME NEW r \in onTheWay, LoseRequest(r) \/ TakeRequest(r)
      PROVE  /\ UNCHANGED <<unheard, refused>>
             /\ taken' = taken \/ TakeRequest(r)
  BY <1>5 DEF LoseRequest, TakeRequest
<1> QED
  BY <1>1, <1>2, <1>3, <1>4, <1>5, StepCases DEF vars

\* A refused envelope has its result, and the next delivery is another one.
LEMMA RefusalStep ==
  ASSUME TypeOK, Counting, RefusalEnds, [Next]_vars
  PROVE  RefusalEnds'
<1>0. envelope \in Nat /\ refused \subseteq Nat
  BY DEF TypeOK
<1>1. CASE refused' = refused \cup {envelope} /\ pc' = "idle" /\ envelope' = envelope
  BY <1>0, <1>1 DEF RefusalEnds
<1>2. CASE refused' = refused
  <2>1. CASE Deliver
    <3>1. envelope' = envelope + 1
      BY <2>1 DEF Deliver
    <3> QED
      BY <1>0, <1>2, <3>1 DEF RefusalEnds
  <2>2. CASE envelope' = envelope /\ (pc # "idle" \/ pc' = pc)
    BY <1>2, <2>2 DEF RefusalEnds
  <2> QED
    BY <2>1, <2>2, ResultCases
<1> QED
  BY <1>1, <1>2, HistoryGrows

\* An Err is given when the attempts are used up or the destination refused.
LEMMA EffortStep ==
  ASSUME TypeOK, Counting, PostCounting, PausesComputed, EffortSpent, [Next]_vars
  PROVE  EffortSpent'
<1>0. /\ target' = target /\ Attempts' = Attempts /\ AttemptStep' = AttemptStep
      /\ Attempts \in Nat /\ envelope \in Nat /\ refused \subseteq refused'
      /\ Len(results) \in Nat /\ DOMAIN results = 1..Len(results)
  BY TargetKept, AttemptsType, HistoryGrows, LenProperties DEF TypeOK
<1>1. CASE results' = results /\ pc # "idle" /\ envelope' = envelope
  <2>1. envelope' \notin DOMAIN results'
    BY <1>0, <1>1 DEF Counting
  <2> QED
    BY <2>1 DEF EffortSpent
<1>2. CASE UNCHANGED <<results, envelope, attempt, sends, waits>>
  BY <1>0, <1>2 DEF EffortSpent
<1>3. CASE Deliver
  <2>1. pc = "idle" /\ envelope' = envelope + 1
    BY <1>3 DEF Deliver
  <2>2. CASE Attempts = 0 \/ (~target.usable /\ target.driver # "websocket_client")
    BY <1>0, <2>2 DEF EffortSpent
  <2>3. CASE results' = results
    <3>1. envelope' \notin DOMAIN results'
      BY <1>0, <2>1, <2>3 DEF Counting
    <3> QED
      BY <3>1 DEF EffortSpent
  <2> QED
    BY <1>3, <2>2, <2>3 DEF Deliver
<1>4. CASE Answer("ok") /\ pc # "idle" /\ envelope' = envelope
  <2>1. results'[envelope'] = "ok"
    BY <1>4, AnswerEffect DEF Counting
  <2> QED
    BY <2>1 DEF EffortSpent
<1>5. CASE envelope' = envelope /\ envelope \in refused'
  BY <1>5 DEF EffortSpent
<1>6. CASE /\ pc \notin {"idle", "post", "backoff"}
           /\ attempt' = attempt /\ attempt >= Attempts /\ waits' = waits
           /\ sends' = sends \/ pc = "write"
  <2>0. attempt \in 1..Attempts
    BY <1>6 DEF Counting
  <2>1. attempt' = Attempts'
    BY <1>0, <1>6, <2>0
  <2>2. Len(waits') = Attempts' - 1
    BY <1>0, <1>6, <2>1 DEF PausesComputed
  <2>3. AttemptStep' = "post" => sends' = Attempts'
    BY <1>0, <1>6, <2>1 DEF PostCounting
  <2> QED
    BY <2>1, <2>2, <2>3 DEF EffortSpent
<1> QED
  BY <1>1, <1>2, <1>3, <1>4, <1>5, <1>6, ResultCases

\* A second request for an envelope leaves only when the first is unheard.
LEMMA RepeatsStep ==
  ASSUME TypeOK, Counting, Traffic, Repeats, [Next]_vars
  PROVE  Repeats'
<1>0. /\ envelope \in Nat /\ sends \in Nat
      /\ \A r \in Requests :
            /\ r[1] \in Nat /\ r[2] \in Nat /\ r[1] <= envelope
            /\ r[1] = envelope => r[2] <= sends
      /\ SentNow[1] = envelope /\ SentNow[2] = sends + 1
  <2>1. \A i \in DOMAIN taken : taken[i] \in Nat \X Nat
    BY LenProperties DEF TypeOK
  <2> QED
    BY <2>1 DEF TypeOK, Requests, Range1, SentNow, Traffic
<1>1. unheard \subseteq unheard'
  BY HistoryGrows
<1>2. UNCHANGED taken => Range1(taken)' = Range1(taken)
  BY DEF Range1
<1>3. ASSUME Requests' \subseteq Requests, UNCHANGED <<envelope, sends>>,
             pc' = "idle" \/ (pc # "idle" /\ (Waiting => Waiting' \/ Request \in unheard'))
      PROVE  Repeats'
  <2>1. Request' = Request
    BY <1>3 DEF Request
  <2> QED
    BY <1>1, <1>3, <2>1 DEF Repeats
<1>4. ASSUME Requests' \subseteq Requests, UNCHANGED <<pc, envelope, sends>>
      PROVE  Repeats'
  BY <1>3, <1>4 DEF Waiting
<1>5. CASE Deliver
  <2>1. /\ envelope' = envelope + 1 /\ UNCHANGED <<onTheWay, taken>>
    BY <1>5 DEF Deliver, network
  <2>2. Requests' = Requests
    BY <1>2, <2>1 DEF Requests
  <2>3. \A r \in Requests' : r[1] # envelope'
    <3> SUFFICES ASSUME NEW r \in Requests
                 PROVE  r[1] # envelope + 1
      BY <2>1, <2>2
    <3>1. r[1] \in Nat /\ r[1] <= envelope /\ envelope \in Nat
      BY <1>0
    <3> QED
      BY <3>1
  <2> QED
    BY <1>1, <2>2, <2>3 DEF Repeats
<1>6. ASSUME pc # "idle", ~Waiting, envelope' = envelope, sends' = sends + 1,
             Requests' \subseteq Requests \cup {SentNow},
             Waiting' \/ SentNow \in unheard'
      PROVE  Repeats'
  <2>1. Request' = SentNow
    BY <1>6 DEF Request, SentNow
  <2>2. \A r \in Requests : r[1] = envelope => r \in unheard'
    BY <1>1, <1>6 DEF Repeats
  <2>3. \A r \in Requests' : r[1] = envelope' => r \in unheard' \/ (Waiting' /\ r = Request')
    BY <1>6, <2>1, <2>2
  <2>4. ASSUME NEW r \in Requests', NEW q \in Requests', r[1] = q[1], r[2] < q[2]
        PROVE  r \in unheard'
    <3>1. CASE r \in Requests /\ q \in Requests
      BY <1>1, <2>4, <3>1 DEF Repeats
    <3>2. CASE r \in Requests /\ q = SentNow
      BY <1>0, <2>2, <2>4, <3>2
    <3>3. CASE r = SentNow
      <4>1. r[1] = envelope /\ r[2] = sends + 1
        BY <1>0, <3>3
      <4>2. CASE q = SentNow
        <5>1. q[2] = sends + 1
          BY <1>0, <4>2
        <5> QED
          BY <1>0, <2>4, <4>1, <5>1
      <4>3. CASE q \in Requests
        <5>1. q[2] \in Nat /\ q[2] <= sends
          BY <1>0, <2>4, <4>1, <4>3
        <5> QED
          BY <1>0, <2>4, <4>1, <5>1
      <4> QED
        BY <1>6, <4>2, <4>3
    <3> QED
      BY <1>6, <2>4, <3>1, <3>2, <3>3
  <2> QED
    BY <2>3, <2>4 DEF Repeats
<1>7. CASE Post \/ StdinWritten \/ WriteOk \/ WriteErr
  <2>1. /\ pc # "idle" /\ ~Waiting /\ sends' = sends + 1
        /\ onTheWay' \subseteq onTheWay \cup {SentNow} /\ UNCHANGED <<taken, envelope>>
        /\ Waiting' \/ SentNow \in unheard'
    BY <1>7 DEF Post, StdinWritten, WriteOk, WriteErr, Send, Waiting, SentNow
  <2>2. Requests' \subseteq Requests \cup {SentNow}
    BY <1>2, <2>1 DEF Requests
  <2> QED
    BY <1>6, <2>1, <2>2
<1>8. CASE \/ BackoffOver \/ Connected \/ Spawn \/ ConnectErr \/ SpawnErr \/ StdinErr
           \/ Closed \/ AnswerOk \/ ChildOk \/ AnswerPermanent
           \/ AnswerRetryable \/ ChildErr
  <2>1. /\ onTheWay' \subseteq onTheWay /\ UNCHANGED <<taken, envelope, sends>>
        /\ pc # "idle" /\ (pc' = "idle" \/ ~Waiting \/ Request \in unheard')
    BY <1>8
       DEF BackoffOver, Connected, Spawn, ConnectErr, SpawnErr, StdinErr, Closed,
           AnswerOk, ChildOk, AnswerPermanent, AnswerRetryable, ChildErr, Answer,
           Waiting, network
  <2>2. Requests' \subseteq Requests
    BY <1>2, <2>1 DEF Requests
  <2> QED
    BY <1>3, <2>1, <2>2
<1>9. ASSUME NEW r \in onTheWay, TakeRequest(r) \/ LoseRequest(r)
      PROVE  Repeats'
  <2>1. /\ onTheWay' \subseteq onTheWay /\ UNCHANGED <<pc, envelope, sends>>
        /\ taken' = taken \/ taken' = Append(taken, r)
    BY <1>9 DEF TakeRequest, LoseRequest
  <2>2. Range1(taken)' \subseteq Range1(taken) \cup {r}
    BY <1>2, <2>1, TakenGrows
  <2>3. Requests' \subseteq Requests
    BY <2>1, <2>2 DEF Requests
  <2> QED
    BY <1>4, <2>1, <2>3
<1>10. CASE UNCHANGED vars
  BY <1>2, <1>4, <1>10 DEF vars, Requests
<1> QED
  BY <1>5, <1>7, <1>8, <1>9, <1>10, StepCases

\* What the destination takes behind a later envelope was given up on.
LEMMA DisorderStep ==
  ASSUME TypeOK, Traffic, DisorderOnlyUnheard, [Next]_vars
  PROVE  DisorderOnlyUnheard'
<1>1. CASE taken' = taken
  BY <1>1, HistoryGrows DEF DisorderOnlyUnheard
<1>2. ASSUME NEW r \in onTheWay, TakeRequest(r)
      PROVE  DisorderOnlyUnheard'
  <2>1. /\ Len(taken) \in Nat /\ DOMAIN taken = 1..Len(taken)
        /\ DOMAIN taken' = 1..(Len(taken) + 1)
        /\ \A i \in DOMAIN taken : taken'[i] = taken[i]
        /\ taken'[Len(taken) + 1] = r
    BY <1>2, TakenGrows DEF TakeRequest
  <2>2. SUFFICES ASSUME NEW i \in DOMAIN taken', NEW j \in DOMAIN taken',
                        i < j, taken'[i][1] > taken'[j][1]
                 PROVE  taken'[j] \in unheard'
    BY DEF DisorderOnlyUnheard
  <2>3. i \in DOMAIN taken /\ taken'[i] = taken[i]
    BY <2>1, <2>2
  <2>4. CASE j \in DOMAIN taken
    BY <2>1, <2>2, <2>3, <2>4, HistoryGrows DEF DisorderOnlyUnheard
  <2>5. CASE j = Len(taken) + 1
    <3>1. taken[i] \in Nat \X Nat /\ r \in Nat \X Nat /\ envelope \in Nat
      BY <2>3, LenProperties DEF TypeOK
    <3>2. taken[i][1] <= envelope
      BY <2>3 DEF Traffic, Range1
    <3>3. taken[i][1] > r[1]
      BY <2>1, <2>2, <2>3, <2>5
    <3>4. r # Request
      BY <3>1, <3>2, <3>3 DEF Request
    <3> QED
      BY <2>1, <2>5, <3>4, HistoryGrows DEF Traffic
  <2> QED
    BY <2>1, <2>4, <2>5
<1> QED
  BY <1>1, <1>2, HistoryGrows

-----------------------------------------------------------------------------
(***************************************************************************)
(* The invariant and what follows.                                         *)
(***************************************************************************)
\* Before the first delivery nothing was sent.
LEMMA InitDeliveryInv == Init => DeliveryInv
<1> SUFFICES ASSUME Init
             PROVE  DeliveryInv
  OBVIOUS
<1>1. TypeOK
  BY InitTypeOK
<1>2. /\ pc = "idle" /\ envelope = 0 /\ onTheWay = {} /\ taken = <<>>
      /\ refused = {} /\ results = <<>> /\ waits = <<>>
  BY DEF Init
<1>3. DOMAIN <<>> = {} /\ Len(<<>>) = 0
  OBVIOUS
<1>4. Range1(taken) = {} /\ DOMAIN results = {} /\ DOMAIN taken = {}
      /\ Len(results) = 0 /\ DOMAIN waits = {}
  BY <1>2, <1>3 DEF Range1
<1> QED
  BY <1>1, <1>2, <1>4
     DEF DeliveryInv, Counting, Starting, Waiting, PostCounting, PausesComputed,
         Traffic, Repeats, Requests, RefusalEnds, EffortSpent, DisorderOnlyUnheard

\* Every step of the adapter, the network and the destination keeps it.
LEMMA NextDeliveryInv == DeliveryInv /\ [Next]_vars => DeliveryInv'
  BY NextTypeOK, CountingStep, PostStep, NextPauses, TrafficStep, RepeatsStep,
     RefusalStep, EffortStep, DisorderStep DEF DeliveryInv

\* deliver(): the counts, the requests in flight and the results agree.
THEOREM DeliveryInvariance == Spec => []DeliveryInv
  BY InitDeliveryInv, NextDeliveryInv, PTL DEF Spec

\* The state has its types, and deliver() sends an envelope no more often than
\* max_retries allows.
THEOREM TypeCorrect == Spec => []TypeOK
<1>1. DeliveryInv => TypeOK
  BY DEF DeliveryInv
<1> QED
  BY <1>1, DeliveryInvariance, PTL

\* A destination gets an envelope a second time only behind a request whose
\* outcome the retry loop of deliver() did not learn.
THEOREM RepeatsExplained == Spec => []RepeatsOnlyUnheard
<1>1. DeliveryInv => RepeatsOnlyUnheard
  BY DEF DeliveryInv, Repeats, Requests, Range1, RepeatsOnlyUnheard
<1> QED
  BY <1>1, DeliveryInvariance, PTL

\* The retry loops of openclaw and websocket_client err only after a refusal or
\* after max_retries attempts and the pauses between them, whatever the number.
THEOREM EffortMade == Spec => []EffortSpent
<1>1. DeliveryInv => EffortSpent
  BY DEF DeliveryInv
<1> QED
  BY <1>1, DeliveryInvariance, PTL

\* Whatever the destination takes out of order is a request whose answer
\* deliver() did not wait for.
THEOREM DisorderExplained == Spec => []DisorderOnlyUnheard
<1>1. DeliveryInv => DisorderOnlyUnheard
  BY DEF DeliveryInv
<1> QED
  BY <1>1, DeliveryInvariance, PTL

\* openclaw.rs:66: after a refusal for good the retry loop posts the envelope
\* no more, however many attempts are left.
THEOREM RefusalHolds == Spec => RefusedIsFinal
<1>1. DeliveryInv /\ [Next]_vars
        => [\A r \in onTheWay' \ onTheWay : r[1] \notin refused]_vars
  <2> SUFFICES ASSUME DeliveryInv, Next, NEW r \in onTheWay' \ onTheWay
               PROVE  r[1] \notin refused
    OBVIOUS
  <2>1. CASE pc # "idle" /\ r = SentNow
    BY <2>1 DEF DeliveryInv, RefusalEnds, SentNow
  <2>2. CASE Post \/ StdinWritten \/ WriteOk \/ WriteErr
    BY <2>1, <2>2 DEF Post, StdinWritten, Send, WriteOk, WriteErr, SentNow
  <2>3. CASE onTheWay' \subseteq onTheWay
    BY <2>3
  <2> QED
    BY <2>2, <2>3, StepCases
       DEF vars, network, Deliver, BackoffOver, AnswerOk, ChildOk, AnswerRetryable,
           ChildErr, AnswerPermanent, Connected, Spawn, ConnectErr, SpawnErr,
           StdinErr, Closed, TakeRequest, LoseRequest
<1> QED
  BY <1>1, DeliveryInvariance, PTL DEF Spec, RefusedIsFinal

-----------------------------------------------------------------------------
(***************************************************************************)
(* The pauses of openclaw's retry loop.                                    *)
(***************************************************************************)
PowerGrows(e) == 2 ^ e \in Nat /\ 2 ^ (e + 1) \in Nat /\ 2 ^ e <= 2 ^ (e + 1)

\* The exponents that the cap of the shift leaves, one by one: the provers
\* know powers of numbers, but not the laws of exponents.
LEMMA PowersGrow ==
  ASSUME NEW e \in 0..30
  PROVE  PowerGrows(e)
<1>1. CASE e \in 0..7
  <2>1. e \in {0, 1, 2, 3, 4, 5, 6, 7}
    BY <1>1
  <2>2. /\ PowerGrows(0) /\ PowerGrows(1) /\ PowerGrows(2) /\ PowerGrows(3)
        /\ PowerGrows(4) /\ PowerGrows(5) /\ PowerGrows(6) /\ PowerGrows(7)
    BY DEF PowerGrows
  <2> QED
    BY <2>1, <2>2, Zenon
<1>2. CASE e \in 8..15
  <2>1. e \in {8, 9, 10, 11, 12, 13, 14, 15}
    BY <1>2
  <2>2. /\ PowerGrows(8) /\ PowerGrows(9) /\ PowerGrows(10) /\ PowerGrows(11)
        /\ PowerGrows(12) /\ PowerGrows(13) /\ PowerGrows(14) /\ PowerGrows(15)
    BY DEF PowerGrows
  <2> QED
    BY <2>1, <2>2, Zenon
<1>3. CASE e \in 16..23
  <2>1. e \in {16, 17, 18, 19, 20, 21, 22, 23}
    BY <1>3
  <2>2. /\ PowerGrows(16) /\ PowerGrows(17) /\ PowerGrows(18) /\ PowerGrows(19)
        /\ PowerGrows(20) /\ PowerGrows(21) /\ PowerGrows(22) /\ PowerGrows(23)
    BY DEF PowerGrows
  <2> QED
    BY <2>1, <2>2, Zenon
<1>4. CASE e \in 24..30
  <2>1. e \in {24, 25, 26, 27, 28, 29, 30}
    BY <1>4
  <2>2. /\ PowerGrows(24) /\ PowerGrows(25) /\ PowerGrows(26) /\ PowerGrows(27)
        /\ PowerGrows(28) /\ PowerGrows(29) /\ PowerGrows(30)
    BY DEF PowerGrows
  <2> QED
    BY <2>1, <2>2, Zenon
<1> QED
  BY <1>1, <1>2, <1>3, <1>4

\* retry_backoff_seconds: at most the ceiling, and no less than the pause
\* before.
LEMMA BackoffGrows ==
  ASSUME NEW base \in Nat, NEW max \in Nat, NEW index \in Nat
  PROVE  /\ retry_backoff_seconds(base, max, index) <= max
         /\ retry_backoff_seconds(base, max, index)
               <= retry_backoff_seconds(base, max, index + 1)
<1> DEFINE Capped(i) == IF i < 31 THEN i ELSE 31
           Scaled(i) == base * 2 ^ Capped(i)
<1>1. /\ 2 ^ Capped(index) \in Nat /\ 2 ^ Capped(index + 1) \in Nat
      /\ 2 ^ Capped(index) <= 2 ^ Capped(index + 1)
  <2>1. CASE index \in 0..30
    <3>1. Capped(index) = index /\ Capped(index + 1) = index + 1
      BY <2>1
    <3>2. PowerGrows(index)
      BY <2>1, PowersGrow
    <3> QED
      BY <3>1, <3>2, Zenon DEF PowerGrows
  <2>2. CASE index > 30
    <3>1. Capped(index) = 31 /\ Capped(index + 1) = 31
      BY <2>2
    <3>2. 2 ^ 31 \in Nat /\ 2 ^ 31 <= 2 ^ 31
      OBVIOUS
    <3> QED
      BY <3>1, <3>2, Zenon
  <2> QED
    BY <2>1, <2>2
<1>2. \A n, p, q \in Nat : p <= q => n * p \in Nat /\ n * q \in Nat /\ n * p <= n * q
  OBVIOUS
<1>3. Scaled(index) \in Nat /\ Scaled(index + 1) \in Nat
      /\ Scaled(index) <= Scaled(index + 1)
  BY <1>1, <1>2
<1>4. \A i \in Nat : retry_backoff_seconds(base, max, i) =
                       IF Scaled(i) < max THEN Scaled(i) ELSE max
  BY DEF retry_backoff_seconds
<1> HIDE DEF Scaled
<1> QED
  BY <1>3, <1>4

\* forward_with_retry and retry_backoff_seconds: for every base, ceiling and
\* number of retries the pauses never shrink and never exceed the ceiling.
THEOREM PausesBounded == Spec => []WaitsGrowToCeiling
<1>1. ASSUME DeliveryInv
      PROVE  WaitsGrowToCeiling
  <2> SUFFICES ASSUME target.driver = "openclaw", NEW i \in DOMAIN waits
               PROVE  /\ waits[i] <= target.backoff_max
                      /\ i > 1 => waits[i - 1] <= waits[i]
    BY DEF WaitsGrowToCeiling
  <2>1. /\ waits \in Seq(Int) /\ target.backoff_base \in Nat
        /\ target.backoff_max \in Nat
    BY <1>1 DEF DeliveryInv, TypeOK, AdapterTargets
  <2>2. i \in 1..Len(waits) /\ Len(waits) \in Nat /\ DOMAIN waits = 1..Len(waits)
    BY <2>1, LenProperties
  <2>3. waits[i] = PauseOf(i) /\ waits[i] <= target.backoff_max
    <3>1. i - 1 \in Nat /\ waits[i] = PauseOf(i)
      BY <1>1, <2>2 DEF DeliveryInv, PausesComputed
    <3>2. retry_backoff_seconds(target.backoff_base, target.backoff_max, i - 1)
            <= target.backoff_max
      BY <2>1, <3>1, BackoffGrows
    <3> QED
      BY <3>1, <3>2 DEF PauseOf
  <2>4. ASSUME i > 1
        PROVE  waits[i - 1] <= waits[i]
    <3>1. i - 2 \in Nat /\ i - 1 \in DOMAIN waits
      BY <2>2, <2>4
    <3>2. waits[i - 1] = PauseOf(i - 1)
      BY <1>1, <3>1 DEF DeliveryInv, PausesComputed
    <3>3. (i - 1) - 1 = i - 2 /\ (i - 2) + 1 = i - 1
      BY <2>2
    <3>4. retry_backoff_seconds(target.backoff_base, target.backoff_max, i - 2)
            <= retry_backoff_seconds(target.backoff_base, target.backoff_max, i - 1)
      BY <2>1, <3>1, <3>3, BackoffGrows
    <3> QED
      BY <2>3, <3>2, <3>3, <3>4 DEF PauseOf
  <2> QED
    BY <2>3, <2>4
<1> QED
  BY <1>1, DeliveryInvariance, PTL

============================================================================
