-------------------------- MODULE PublishPipeline --------------------------
(***************************************************************************)
(* What becomes of an event after hook-serve has let it in: the bounded    *)
(* channel, the publish worker with its retries, the ingress tasks that    *)
(* hold the channel open, and the shutdown.  Translated from src/main.rs   *)
(* and src/producer.rs.                                                    *)
(*                                                                         *)
(* The checks an event passes before try_send (module WebhookAdmission for *)
(* webhooks, enqueue_prevalidated_event for the other adapters) appear     *)
(* here as the choice between offering it to the channel and refusing it.  *)
(***************************************************************************)
EXTENDS Integers, Sequences

CONSTANTS
    Events,         \* envelopes, each with its own id
    Capacity,       \* publish_queue_capacity
    MaxRetries,     \* publish_max_retries, of which 0 is not refused
    KafkaWorkers,   \* kafka ingress adapters
    Sessions        \* websocket ingress sessions

\* mpsc::channel panics when the capacity is 0.
ASSUME PipelineAssumption ==
    /\ Capacity \in Nat \ {0}
    /\ MaxRetries \in Nat

VARIABLES
    queue,      \* the publish channel
    worker,     \* where run_publish_worker is
    job,        \* the job it holds, as a sequence of at most one
    attempt,    \* attempt of KafkaPublisher::publish
    broker,     \* whether the Kafka brokers can be reached
    phase,      \* where main is
    consuming,  \* kafka ingress workers that hold the state
    sessions,   \* websocket sessions that hold the state
    accepted,   \* history: events try_send took, in order
    finished,   \* history: events the worker is done with, in order
    rejected,   \* history: events refused by a check before try_send
    refused,    \* history: events try_send did not take
    committed,  \* events whose record a kafka ingress worker has committed
    published,  \* history: events Kafka acknowledged
    given_up,   \* history: events the worker dropped with an error
    sends,      \* history: how often an event was sent
    ended       \* history: how the process came to its end

vars == <<queue, worker, job, attempt, broker, phase, consuming, sessions,
          accepted, finished, rejected, refused, committed, published, given_up,
          sends, ended>>

task == <<worker, job, attempt>>
holders == <<phase, consuming, sessions>>
intake == <<queue, accepted, rejected, refused, committed>>
outcome == <<finished, published, given_up, sends, ended>>

Init ==
    /\ queue = <<>>
    /\ worker = "recv"
    /\ job = <<>>
    /\ attempt = 0
    /\ broker = "up"
    /\ phase = "serving"
    /\ consuming = KafkaWorkers
    /\ sessions = {}
    /\ accepted = <<>>
    /\ finished = <<>>
    /\ rejected = {}
    /\ refused = {}
    /\ committed = {}
    /\ published = {}
    /\ given_up = {}
    /\ sends = [e \in Events |-> 0]
    /\ ended = "running"

-----------------------------------------------------------------------------
(***************************************************************************)
(* Ingress.                                                                *)
(***************************************************************************)
Taken == {accepted[i] : i \in DOMAIN accepted}

\* Fault: an id that is not fresh, such as a digest of the payload.
FreshReused(e) == e \notin rejected \cup refused

\* An envelope gets a fresh id, so what is offered was never offered before.
Fresh(e) == e \notin Taken \cup rejected \cup refused

\* Fault: the length is compared after the send.
TrySendOverfull(e) ==
    \/ /\ worker # "exited"
       /\ Len(queue) <= Capacity
       /\ queue' = Append(queue, e)
       /\ accepted' = Append(accepted, e)
       /\ UNCHANGED refused
    \/ /\ worker = "exited" \/ Len(queue) > Capacity
       /\ refused' = refused \cup {e}
       /\ UNCHANGED <<queue, accepted>>

\* Fault: a full channel drops its oldest job to make room.
TrySendDroppingOldest(e) ==
    \/ /\ worker # "exited"
       /\ queue' = Append(IF Len(queue) < Capacity THEN queue ELSE Tail(queue), e)
       /\ accepted' = Append(accepted, e)
       /\ UNCHANGED refused
    \/ /\ worker = "exited"
       /\ refused' = refused \cup {e}
       /\ UNCHANGED <<queue, accepted>>

\* publish_tx.try_send: Ok, Full or Closed.
TrySend(e) ==
    \/ /\ worker # "exited"
       /\ Len(queue) < Capacity
       /\ queue' = Append(queue, e)
       /\ accepted' = Append(accepted, e)
       /\ UNCHANGED refused
    \/ /\ worker = "exited" \/ Len(queue) >= Capacity
       /\ refused' = refused \cup {e}
       /\ UNCHANGED <<queue, accepted>>

\* A request is rejected before try_send, or its event is offered.
Offer(e) ==
    /\ Fresh(e)
    /\ \/ TrySend(e) /\ UNCHANGED rejected
       \/ /\ rejected' = rejected \cup {e}
          /\ UNCHANGED <<queue, accepted, refused>>
    /\ UNCHANGED <<task, broker, holders, outcome>>

\* webhook_handler and mcp_ingest_handler, which never await, serve requests
\* until the server has shut down.
HttpIngress(e) ==
    /\ phase \in {"serving", "closing"}
    /\ Offer(e)
    /\ UNCHANGED committed

\* run_kafka_ingress_worker takes a record and commits it whether or not it
\* could be queued, for as long as the process lives; the commit may fail.
KafkaIngress(w, e) ==
    /\ w \in consuming
    /\ phase # "exited"
    /\ Offer(e)
    /\ committed' \in {committed, committed \cup {e}}

\* The consumer cannot be created or subscribed: the task ends.
KafkaWorkerFails(w) ==
    /\ w \in consuming
    /\ phase # "exited"
    /\ consuming' = consuming \ {w}
    /\ UNCHANGED <<intake, task, broker, phase, sessions, outcome>>

\* websocket_ingress_handler upgrades the connection; the session outlives the
\* server.
OpenSession(s) ==
    /\ phase = "serving"
    /\ s \notin sessions
    /\ sessions' = sessions \cup {s}
    /\ UNCHANGED <<intake, task, broker, phase, consuming, outcome>>

\* A text frame of an open session.
SessionIngress(s, e) ==
    /\ s \in sessions
    /\ phase # "exited"
    /\ Offer(e)
    /\ UNCHANGED committed

\* A close frame, an error or a failed answer.
CloseSession(s) ==
    /\ s \in sessions
    /\ phase # "exited"
    /\ sessions' = sessions \ {s}
    /\ UNCHANGED <<intake, task, broker, phase, consuming, outcome>>

-----------------------------------------------------------------------------
(***************************************************************************)
(* run_publish_worker and KafkaPublisher::publish.                         *)
(***************************************************************************)
WorkerRecv ==
    /\ phase # "exited"
    /\ worker = "recv"
    /\ queue # <<>>
    /\ job' = <<Head(queue)>>
    /\ queue' = Tail(queue)
    /\ attempt' = 0
    /\ worker' = "send"
    /\ UNCHANGED <<accepted, rejected, refused, committed, broker, holders,
                   outcome>>

\* Every clone of AppState, and with it every sender, is gone.
ChannelClosed == phase = "draining" /\ consuming = {} /\ sessions = {}

\* Fault: the worker stops as soon as the channel is closed.
WorkerEndAtOnce ==
    /\ phase # "exited"
    /\ worker = "recv"
    /\ ChannelClosed
    /\ worker' = "exited"
    /\ UNCHANGED <<intake, job, attempt, broker, holders, outcome>>

\* rx.recv() returns None: the channel is closed and empty.
WorkerEnd ==
    /\ phase # "exited"
    /\ worker = "recv"
    /\ queue = <<>>
    /\ ChannelClosed
    /\ worker' = "exited"
    /\ UNCHANGED <<intake, job, attempt, broker, holders, outcome>>

\* The worker is done with the job it holds.
FinishJob ==
    /\ finished' = finished \o job
    /\ job' = <<>>
    /\ worker' = "recv"

SendOnce == sends' = [sends EXCEPT ![job[1]] = @ + 1]

SendOk ==
    /\ phase # "exited"
    /\ worker = "send"
    /\ broker = "up"
    /\ SendOnce
    /\ FinishJob
    /\ published' = published \cup {job[1]}
    /\ UNCHANGED <<intake, attempt, broker, holders, given_up, ended>>

\* Fault: attempt > max_retries.
SendErrOneMore ==
    /\ phase # "exited"
    /\ worker = "send"
    /\ SendOnce
    /\ attempt' = attempt + 1
    /\ \/ /\ attempt + 1 > MaxRetries
          /\ FinishJob
          /\ given_up' = given_up \cup {job[1]}
       \/ /\ attempt + 1 <= MaxRetries
          /\ worker' = "backoff"
          /\ UNCHANGED <<job, finished, given_up>>
    /\ UNCHANGED <<intake, broker, holders, published, ended>>

\* Fault: the job is kept until Kafka takes it.
SendErrForever ==
    /\ phase # "exited"
    /\ worker = "send"
    /\ worker' = "backoff"
    /\ UNCHANGED <<intake, job, attempt, broker, holders, outcome>>

\* Fault: a job that is given up leaves no trace.
SendErrUnlogged ==
    /\ phase # "exited"
    /\ worker = "send"
    /\ SendOnce
    /\ attempt' = attempt + 1
    /\ \/ attempt + 1 >= MaxRetries /\ FinishJob
       \/ /\ attempt + 1 < MaxRetries
          /\ worker' = "backoff"
          /\ UNCHANGED <<job, finished>>
    /\ UNCHANGED <<intake, broker, holders, published, given_up, ended>>

\* A failed send, even one whose record Kafka has stored, counts as an attempt.
SendErr ==
    /\ phase # "exited"
    /\ worker = "send"
    /\ SendOnce
    /\ attempt' = attempt + 1
    /\ \/ /\ attempt + 1 >= MaxRetries
          /\ FinishJob
          /\ given_up' = given_up \cup {job[1]}
       \/ /\ attempt + 1 < MaxRetries
          /\ worker' = "backoff"
          /\ UNCHANGED <<job, finished, given_up>>
    /\ UNCHANGED <<intake, broker, holders, published, ended>>

\* sleep(retry_backoff_ms(..)) is over.
BackoffOver ==
    /\ phase # "exited"
    /\ worker = "backoff"
    /\ worker' = "send"
    /\ UNCHANGED <<intake, job, attempt, broker, holders, outcome>>

\* The brokers (external) become unreachable or reachable again.
BrokerChanges ==
    /\ phase # "exited"
    /\ broker' = IF broker = "up" THEN "down" ELSE "up"
    /\ UNCHANGED <<intake, task, holders, outcome>>

-----------------------------------------------------------------------------
(***************************************************************************)
(* The end of main.                                                        *)
(***************************************************************************)
\* ctrl_c: the server stops accepting connections.
Interrupt ==
    /\ phase = "serving"
    /\ phase' = "closing"
    /\ UNCHANGED <<intake, task, broker, consuming, sessions, outcome>>

\* server.await returns, its requests answered, and main drops its state.
ServerDone ==
    /\ phase = "closing"
    /\ phase' = "draining"
    /\ UNCHANGED <<intake, task, broker, consuming, sessions, outcome>>

ExitAs(how) ==
    /\ phase' = "exited"
    /\ ended' = how
    /\ UNCHANGED <<intake, task, broker, consuming, sessions, finished, published,
                   given_up, sends>>

\* publish_worker_handle resolves within the 30 seconds.
ExitDrained == phase = "draining" /\ worker = "exited" /\ ExitAs("drained")

\* Fault: the handle is awaited without a timeout.
ExitTimedOutNever == FALSE /\ ExitAs("timed_out")

\* It does not.
ExitTimedOut == phase = "draining" /\ worker # "exited" /\ ExitAs("timed_out")

\* SIGTERM, which nothing handles, or a crash.
Kill == phase # "exited" /\ ExitAs("killed")

Ingress(e) ==
    \/ HttpIngress(e)
    \/ \E w \in KafkaWorkers : KafkaIngress(w, e)
    \/ \E s \in Sessions : SessionIngress(s, e)

WorkerStep == WorkerRecv \/ WorkerEnd \/ SendOk \/ SendErr \/ BackoffOver

Next ==
    \/ \E e \in Events : Ingress(e)
    \/ \E w \in KafkaWorkers : KafkaWorkerFails(w)
    \/ \E s \in Sessions : OpenSession(s) \/ CloseSession(s)
    \/ WorkerStep
    \/ BrokerChanges
    \/ Interrupt
    \/ ServerDone
    \/ ExitDrained
    \/ ExitTimedOut
    \/ Kill

Spec == Init /\ [][Next]_vars

\* The worker task is scheduled and its sends and sleeps are timed; handlers
\* finish, and main waits for the worker at most 30 seconds.
Fairness ==
    /\ WF_vars(WorkerStep)
    /\ WF_vars(ServerDone)
    /\ WF_vars(ExitDrained \/ ExitTimedOut)

FairSpec == Spec /\ Fairness

-----------------------------------------------------------------------------
TypeOK ==
    /\ queue \in Seq(Events)
    /\ Len(queue) <= Capacity
    /\ worker \in {"recv", "send", "backoff", "exited"}
    /\ job \in Seq(Events)
    /\ Len(job) = IF worker \in {"send", "backoff"} THEN 1 ELSE 0
    /\ attempt \in Nat
    /\ broker \in {"up", "down"}
    /\ phase \in {"serving", "closing", "draining", "exited"}
    /\ consuming \subseteq KafkaWorkers
    /\ sessions \subseteq Sessions
    /\ accepted \in Seq(Events)
    /\ finished \in Seq(Events)
    /\ rejected \subseteq Events
    /\ refused \subseteq Events
    /\ committed \subseteq Events
    /\ published \subseteq Events
    /\ given_up \subseteq Events
    /\ sends \in [Events -> Nat]
    /\ ended \in {"running", "drained", "timed_out", "killed"}

-----------------------------------------------------------------------------
(***************************************************************************)
(* Properties.                                                             *)
(***************************************************************************)
\* Whatever the ingress tasks, the retries and the shutdown do, the accepted
\* events are at any time exactly the finished ones, the one in the worker's
\* hands and the queued ones, in that order: none is lost, doubled or
\* overtaken.
Conserved == accepted = finished \o job \o queue

\* The channel keeps the promise of OrderedHandoff.
Handoff == INSTANCE OrderedHandoff
             WITH Events <- Events, accepted <- accepted, finished <- finished

HandoffSpec == Handoff!Spec

\* main: a shutdown that does not time out leaves nothing behind: every
\* accepted event is published or was given up.
DrainedLeavesNothing ==
    ended = "drained" =>
        \A i \in DOMAIN accepted : accepted[i] \in published \cup given_up

\* Only ctrl_c is waited for, so a SIGTERM or a crash can come at any moment: it
\* takes with it at most the job in hand and a channel of the newest events,
\* whatever was accepted before them has been published or given up.
KillLosesAtMost ==
    \A i \in DOMAIN accepted :
        i + Capacity + 1 <= Len(accepted) => accepted[i] \in published \cup given_up

Attempts == IF MaxRetries = 0 THEN 1 ELSE MaxRetries

\* publish: publish_max_retries counts every send, the first one too, and 0
\* counts as 1.  Whatever the brokers and the shutdown do, no event is sent
\* more often, and one is given up only when it was sent as often and none of
\* the sends was acknowledged.
SendsBounded ==
    \A e \in Events :
        /\ sends[e] <= Attempts
        /\ e \in given_up => sends[e] = Attempts /\ e \notin published

\* docs/configuration.md:106 calls it the "Number of Kafka publish retries
\* before giving up": an event would be given up after a first send and
\* publish_max_retries more.  publish stops one send earlier.
RetriedAsDocumented == \A e \in given_up : sends[e] = MaxRetries + 1

\* run_publish_worker: no event waits forever behind others, however often
\* the brokers fail.
AcceptedIsFinished ==
    \A e \in Events :
        (e \in Taken) ~> (e \in published \cup given_up \/ phase = "exited")

\* main: after ctrl_c the process ends, even while an ingress task holds the
\* channel open.
InterruptEnds == (phase = "closing") ~> (phase = "exited")

(***************************************************************************)
(* The inductive invariant the proofs use.                                 *)
(***************************************************************************)
\* Every envelope has its own id.
AcceptedOnce ==
    \A i, j \in DOMAIN accepted : accepted[i] = accepted[j] => i = j

\* Nothing was sent of what is not accepted or still queued.
UnsentWaits ==
    /\ \A e \in Events \ Taken : sends[e] = 0
    /\ \A i \in DOMAIN accepted :
          i > Len(finished) + Len(job) => sends[accepted[i]] = 0

\* The job in the worker's hands has attempts left.
HeldHasAttempts ==
    job # <<>> => attempt < Attempts /\ sends[job[1]] = attempt

\* What is finished, and nothing else, is published or given up.
FinishedOutcome ==
    /\ \A i \in DOMAIN finished : finished[i] \in published \cup given_up
    /\ \A e \in published \cup given_up : \E i \in DOMAIN finished : finished[i] = e

\* The worker leaves an empty channel, and main sees it end first.
EndIsClean ==
    /\ worker = "exited" => queue = <<>>
    /\ ended = "drained" => worker = "exited"

PipelineInv ==
    /\ TypeOK
    /\ Conserved
    /\ SendsBounded
    /\ AcceptedOnce
    /\ UnsentWaits
    /\ HeldHasAttempts
    /\ FinishedOutcome
    /\ EndIsClean

============================================================================
