--------------------------- MODULE EgressDelivery ---------------------------
(***************************************************************************)
(* RuntimeAdapter::deliver of hook-smash for the adapters that reach out   *)
(* to their destination: what a required or optional delivery of           *)
(* SmashConsumer does between the call and its Ok or Err.  Translated from *)
(* adapters/egress/openclaw.rs, kafka.rs, mcp.rs and websocket_client.rs;  *)
(* websocket_server.rs has the module WebsocketServer.                     *)
(*                                                                         *)
(* The consumer delivers one envelope at a time, so one adapter is enough. *)
(* A request is <<envelope, n>>, the n-th send of that envelope; it is on  *)
(* its way until the destination takes it or it is lost.                   *)
(***************************************************************************)
EXTENDS Integers, Sequences

CONSTANTS
    Targets,        \* the configurations an adapter is built with
    MaxDeliveries   \* bound: envelopes delivered

Drivers == {"openclaw", "kafka_output", "websocket_client", "http_sse",
            "stdio_jsonrpc"}

(***************************************************************************)
(* max_retries and the backoff bounds are openclaw's and websocket_client's *)
(* (which waits backoff_base every time).  usable: the key_mode is one of  *)
(* the three that publish() knows, or the token that auth_mode asks for is *)
(* there; build_runtime_adapters compares both after trim(), the send does *)
(* not.                                                                    *)
(***************************************************************************)
AdapterTargets ==
    [driver : Drivers, max_retries : Nat, backoff_base : Nat, backoff_max : Nat,
     usable : BOOLEAN]

ASSUME EgressAssumption == Targets \subseteq AdapterTargets /\ MaxDeliveries \in Nat

VARIABLES
    target,      \* the adapter
    pc,          \* where deliver() is
    envelope,    \* the number of the envelope, 0 before the first
    attempt,     \* the attempt the retry loop is in
    sends,       \* requests made for this envelope
    waits,       \* the pauses between them
    onTheWay,    \* requests that may still reach the destination
    taken,       \* the requests the destination took, in order
    unheard,     \* history: requests that ended without a success or a refusal
    refused,     \* history: envelopes the destination refused for good
    results      \* the answers of deliver(): envelope -> "ok" or "err"

vars == <<target, pc, envelope, attempt, sends, waits, onTheWay, taken, unheard,
          refused, results>>

network == <<onTheWay, taken>>
history == <<unheard, refused>>

Range1(s) == {s[i] : i \in DOMAIN s}
Request == <<envelope, sends>>

Init ==
    /\ target \in Targets
    /\ pc = "idle"
    /\ envelope = 0
    /\ attempt = 0
    /\ sends = 0
    /\ waits = <<>>
    /\ onTheWay = {}
    /\ taken = <<>>
    /\ unheard = {}
    /\ refused = {}
    /\ results = <<>>

-----------------------------------------------------------------------------
(***************************************************************************)
(* The destination (external): it takes what reaches it, in any order.     *)
(***************************************************************************)
TakeRequest(r) ==
    /\ r \in onTheWay
    /\ onTheWay' = onTheWay \ {r}
    /\ taken' = Append(taken, r)
    /\ UNCHANGED <<target, pc, envelope, attempt, sends, waits, history, results>>

LoseRequest(r) ==
    /\ r \in onTheWay
    /\ onTheWay' = onTheWay \ {r}
    /\ UNCHANGED <<target, pc, envelope, attempt, sends, waits, taken, history,
                   results>>

-----------------------------------------------------------------------------
\* How often a delivery may try: 1..=max_retries, 1..=max(max_retries, 1), once.
Attempts ==
    CASE target.driver = "openclaw" -> target.max_retries
      [] target.driver = "websocket_client" ->
            IF target.max_retries = 0 THEN 1 ELSE target.max_retries
      [] OTHER -> 1

\* Fault: the ceiling is forgotten.
retry_backoff_unbounded(base, max, index) == base * 2 ^ index

\* The exponent is capped where the shift of a u64 would be; the product
\* saturates, which the minimum with max_seconds makes invisible.
retry_backoff_seconds(base, max, index) ==
    LET exponent == IF index < 31 THEN index ELSE 31
        scaled == base * 2 ^ exponent
    IN  IF scaled < max THEN scaled ELSE max

Answer(result) ==
    /\ pc' = "idle"
    /\ results' = Append(results, result)

\* Where an attempt begins: openclaw and http_sse post, kafka_output sends,
\* websocket_client connects, stdio_jsonrpc spawns its command.
AttemptStep ==
    CASE target.driver = "websocket_client" -> "connect"
      [] target.driver = "stdio_jsonrpc" -> "spawn"
      [] OTHER -> "post"

\* Fault: openclaw's loop runs once more than max_retries says.
DeliverOneMore ==
    /\ pc = "idle"
    /\ envelope < MaxDeliveries
    /\ envelope' = envelope + 1
    /\ attempt' = 0
    /\ sends' = 0
    /\ waits' = <<>>
    /\ pc' = AttemptStep
    /\ UNCHANGED <<target, network, history, results>>

\* deliver() is called with the next envelope.  A loop of no attempts, or an
\* adapter without a token or a known key_mode, errs before anything is sent.
Deliver ==
    /\ pc = "idle"
    /\ envelope < MaxDeliveries
    /\ envelope' = envelope + 1
    /\ attempt' = 1
    /\ sends' = 0
    /\ waits' = <<>>
    /\ IF Attempts = 0 \/ (~target.usable /\ target.driver # "websocket_client")
         THEN Answer("err")
         ELSE pc' = AttemptStep /\ UNCHANGED results
    /\ UNCHANGED <<target, network, history>>

\* The request leaves the adapter.
Send(next) ==
    /\ sends' = sends + 1
    /\ onTheWay' = onTheWay \cup {<<envelope, sends + 1>>}
    /\ pc' = next

\* Fault: the loop counts its attempts from 0.
FailAttemptEarly ==
    IF attempt + 1 >= Attempts
      THEN /\ Answer("err")
           /\ UNCHANGED <<attempt, waits>>
      ELSE /\ pc' = "backoff"
           /\ waits' = Append(waits, target.backoff_base)
           /\ UNCHANGED <<attempt, results>>

\* The attempt failed in a way that is worth another one, or the last.
FailAttempt ==
    IF attempt >= Attempts
      THEN /\ Answer("err")
           /\ UNCHANGED <<attempt, waits>>
      ELSE /\ pc' = "backoff"
           /\ waits' = Append(waits,
                 IF target.driver = "openclaw"
                   THEN retry_backoff_seconds(target.backoff_base,
                                              target.backoff_max, attempt - 1)
                   ELSE target.backoff_base)
           /\ UNCHANGED <<attempt, results>>

BackoffOver ==
    /\ pc = "backoff"
    /\ attempt' = attempt + 1
    /\ pc' = AttemptStep
    /\ UNCHANGED <<target, envelope, sends, waits, network, history, results>>

(***************************************************************************)
(* forward_once, McpToolOutputAdapter::call over http_sse and              *)
(* KafkaOutputAdapter::publish: one request and its answer.                *)
(***************************************************************************)
Post ==
    /\ pc = "post"
    /\ Send("answer")
    /\ UNCHANGED <<target, envelope, attempt, waits, taken, history, results>>

\* Fault: a success whose body cannot be read is a failed attempt.
AnswerOkUnread ==
    /\ pc = "answer"
    /\ target.driver = "kafka_output" => Request \in Range1(taken)
    /\ onTheWay' = onTheWay \ {Request}
    /\ (Answer("ok") /\ UNCHANGED <<attempt, waits>>) \/ FailAttempt
    /\ UNCHANGED <<target, envelope, sends, taken, history>>

\* A success status, which openclaw trusts whatever becomes of the body, or
\* the broker's acknowledgement.  The status may be of another request: the
\* client follows a redirect, and may do so without the envelope.  A broker
\* (external) acknowledges what it has.
AnswerOk ==
    /\ pc = "answer"
    /\ target.driver = "kafka_output" => Request \in Range1(taken)
    /\ Answer("ok")
    /\ onTheWay' = onTheWay \ {Request}
    /\ UNCHANGED <<target, envelope, attempt, sends, waits, taken, history>>

\* A status from 500 up or 429, or a send that failed or timed out, with the
\* request dropped, taken or still on its way.
AnswerRetryable ==
    /\ pc = "answer"
    /\ FailAttempt
    /\ unheard' = unheard \cup {Request}
    /\ UNCHANGED <<target, envelope, sends, network, refused>>

\* Fault: a refusal is retried like any other failure.
AnswerPermanentRetried ==
    /\ pc = "answer"
    /\ target.driver = "openclaw"
    /\ FailAttempt
    /\ refused' = refused \cup {envelope}
    /\ onTheWay' = onTheWay \ {Request}
    /\ UNCHANGED <<target, envelope, sends, taken, unheard>>

\* Fault: a timeout, too, is an answer that is not worth another attempt.
AnswerPermanentUnheard ==
    /\ pc = "answer"
    /\ target.driver = "openclaw"
    /\ Answer("err")
    /\ refused' = refused \cup {envelope}
    /\ UNCHANGED <<target, envelope, attempt, sends, waits, network, unheard>>

\* Any other status, or an error of the client itself: openclaw gives up.
AnswerPermanent ==
    /\ pc = "answer"
    /\ target.driver = "openclaw"
    /\ Answer("err")
    /\ refused' = refused \cup {envelope}
    /\ onTheWay' = onTheWay \ {Request}
    /\ UNCHANGED <<target, envelope, attempt, sends, waits, taken, unheard>>

(***************************************************************************)
(* WebsocketClientOutputAdapter::send_once.                                *)
(***************************************************************************)
\* connect_async succeeds: nothing bounds the time it takes.
Connected ==
    /\ pc = "connect"
    /\ target.usable
    /\ pc' = "write"
    /\ UNCHANGED <<target, envelope, attempt, sends, waits, network, history,
                   results>>

\* No token for the request, or the connection is refused.
ConnectErr ==
    /\ pc = "connect"
    /\ FailAttempt
    /\ UNCHANGED <<target, envelope, sends, network, history>>

\* The text is written; no answer comes, so the adapter never knows more.
WriteOk ==
    /\ pc = "write"
    /\ Send("close")
    /\ unheard' = unheard \cup {<<envelope, sends + 1>>}
    /\ UNCHANGED <<target, envelope, attempt, waits, taken, refused, results>>

\* socket.close() returns, an error is ignored: nothing bounds this write of
\* a close frame, which a peer that reads no more can hold up.
Closed ==
    /\ pc = "close"
    /\ Answer("ok")
    /\ UNCHANGED <<target, envelope, attempt, sends, waits, network, history>>

\* send_timeout_ms is over or the socket broke, with the text half written,
\* which no peer takes, or in the peer's hands.
WriteErr ==
    /\ pc = "write"
    /\ sends' = sends + 1
    /\ onTheWay' \in {onTheWay, onTheWay \cup {<<envelope, sends + 1>>}}
    /\ unheard' = unheard \cup {<<envelope, sends + 1>>}
    /\ FailAttempt
    /\ UNCHANGED <<target, envelope, taken, refused>>

(***************************************************************************)
(* McpToolOutputAdapter::call over stdio_jsonrpc.                          *)
(***************************************************************************)
Spawn ==
    /\ pc = "spawn"
    /\ pc' = "stdin"
    /\ UNCHANGED <<target, envelope, attempt, sends, waits, network, history,
                   results>>

\* The command cannot be run.
SpawnErr ==
    /\ pc = "spawn"
    /\ FailAttempt
    /\ UNCHANGED <<target, envelope, sends, network, history>>

\* write_all ends once the child has read enough: nothing bounds it either.
StdinWritten ==
    /\ pc = "stdin"
    /\ Send("wait")
    /\ UNCHANGED <<target, envelope, attempt, waits, taken, history, results>>

StdinErr ==
    /\ pc = "stdin"
    /\ FailAttempt
    /\ UNCHANGED <<target, envelope, sends, network, history>>

\* The child exits with success.  What it left unread in the pipe is gone
\* with it.
ChildOk ==
    /\ pc = "wait"
    /\ Answer("ok")
    /\ onTheWay' = onTheWay \ {Request}
    /\ UNCHANGED <<target, envelope, attempt, sends, waits, taken, history>>

\* Fault: child.wait() without a timeout.
ChildErrUntimed ==
    /\ pc = "wait"
    /\ Request \notin onTheWay
    /\ FailAttempt
    /\ unheard' = unheard \cup {Request}
    /\ UNCHANGED <<target, envelope, sends, network, refused>>

\* It exits otherwise, or is still running when the 5 s are over; it is not
\* killed and may act on the request later.
ChildErr ==
    /\ pc = "wait"
    /\ FailAttempt
    /\ unheard' = unheard \cup {Request}
    /\ UNCHANGED <<target, envelope, sends, network, refused>>

-----------------------------------------------------------------------------
\* What the adapter does by itself or when one of its timeouts is over.
TimedStep ==
    \/ BackoffOver \/ Post \/ AnswerRetryable \/ WriteErr \/ Spawn \/ SpawnErr
    \/ ChildErr

\* Answers that may come before the timeout.
AnswerStep == AnswerOk \/ AnswerPermanent \/ WriteOk \/ ChildOk

\* Steps that only the destination can bring about.
UnboundedStep == Connected \/ ConnectErr \/ Closed \/ StdinWritten \/ StdinErr

Next ==
    \/ Deliver
    \/ TimedStep
    \/ AnswerStep
    \/ UnboundedStep
    \/ \E r \in onTheWay : TakeRequest(r) \/ LoseRequest(r)

Spec == Init /\ [][Next]_vars

\* Requests, sends, sleeps and the wait for the child have timeouts; the
\* consumer calls deliver() again.  The destination owes nothing.
FairSpec == Spec /\ WF_vars(Deliver) /\ WF_vars(TimedStep)

TypeOK ==
    /\ target \in AdapterTargets
    /\ pc \in {"idle", "post", "answer", "connect", "write", "close", "spawn",
               "stdin", "wait", "backoff"}
    /\ envelope \in Nat
    /\ attempt \in Nat
    /\ sends \in 0..Attempts
    /\ waits \in Seq(Int)
    /\ onTheWay \subseteq Nat \X Nat
    /\ taken \in Seq(Nat \X Nat)
    /\ unheard \subseteq Nat \X Nat
    /\ refused \subseteq Nat
    /\ results \in Seq({"ok", "err"})

-----------------------------------------------------------------------------
(***************************************************************************)
(* Properties.                                                             *)
(***************************************************************************)
\* deliver(): a destination gets an envelope once more only behind a request
\* whose outcome the adapter never learnt.  A success ends the loop, even one
\* whose body cannot be read, and so does a refusal.
RepeatsOnlyUnheard ==
    \A i, j \in DOMAIN taken :
        (taken[i][1] = taken[j][1] /\ taken[i][2] < taken[j][2])
            => taken[i] \in unheard

\* forward_with_retry and send(): an adapter that can send and has attempts
\* gives up on an envelope only when it was refused for good or when every
\* attempt is used, each but the last with its pause, and, where an attempt is
\* one post, with as many posts.  The first post is one of the max_retries.
EffortSpent ==
    \A e \in DOMAIN results :
        (results[e] = "err" /\ e = envelope /\ target.usable /\ Attempts > 0)
            => \/ e \in refused
               \/ /\ attempt = Attempts
                  /\ Len(waits) = Attempts - 1
                  /\ AttemptStep = "post" => sends = Attempts

\* docs/adapters.md:154 calls openclaw's max_retries "Number of retry attempts
\* on failure before DLQ": an envelope the agent did not refuse would fail
\* after a first post and max_retries more.  forward_with_retry posts
\* max_retries times, and with 0 never.
RetriedAsDocumented ==
    \A e \in DOMAIN results :
        (/\ results[e] = "err" /\ e = envelope /\ e \notin refused
         /\ target.driver = "openclaw" /\ target.usable)
            => sends = target.max_retries + 1

\* openclaw.rs:66: an envelope the agent refused for good is not posted again.
RefusedIsFinal ==
    [][\A r \in onTheWay' \ onTheWay : r[1] \notin refused]_vars

\* The consumer delivers in order, and so does a destination get its
\* envelopes, but for requests whose answer the adapter had not waited for:
\* one that timed out may be taken behind a later envelope.
DisorderOnlyUnheard ==
    \A i, j \in DOMAIN taken :
        (i < j /\ taken[i][1] > taken[j][1]) => taken[j] \in unheard

\* retry_backoff_seconds: the pauses never shrink, and none is longer than
\* CONSUMER_BACKOFF_MAX_SECONDS.
WaitsGrowToCeiling ==
    target.driver = "openclaw" =>
        \A i \in DOMAIN waits :
            /\ waits[i] <= target.backoff_max
            /\ i > 1 => waits[i - 1] <= waits[i]

\* A delivery, and the consumer with it, waits for ever only in the three
\* awaits that have no timeout: connect_async, socket.close and the write to
\* the child's stdin.
StallsOnlyUnbounded ==
    \/ <>[](pc \in {"connect", "close", "stdin"})
    \/ <>[](pc = "idle" /\ envelope = MaxDeliveries)

============================================================================
