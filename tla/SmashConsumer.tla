--------------------------- MODULE SmashConsumer ---------------------------
(***************************************************************************)
(* The smash runtime: one Kafka consumer that takes messages off the core  *)
(* topic, delivers each to the destinations of the routes it matches and   *)
(* commits its offset.  Translated from                                    *)
(* crates/hook-runtime/src/smash/consumer.rs and dlq.rs.                   *)
(*                                                                         *)
(* A topic-partition is an append-only log.  Offsets count from 0, so the  *)
(* message at offset o is log[p][o + 1], and a committed value c means     *)
(* that a restarted consumer resumes at offset c.  Kafka itself (the log,  *)
(* the group coordinator, the client's background commit) is external and  *)
(* is modelled from what consumer.rs relies on.                            *)
(***************************************************************************)
EXTENDS Integers, Sequences

CONSTANTS
    Partitions,      \* the topic-partitions the group is assigned
    EventTypes,      \* event types of well-formed envelopes
    Routes,          \* the smash routes, in configuration order
    Untimed,         \* adapters whose deliver() can wait without a timeout
    Policies,        \* the no-output policies to consider
    MaxLog,          \* bound: messages produced per partition
    MaxDisruptions   \* bound: crashes and rebalances together

(***************************************************************************)
(* What a Kafka message holds, as far as process_message can tell: an      *)
(* envelope of some event type or none at all (no payload, or bytes that   *)
(* serde_json rejects: both end in the same Err).                          *)
(***************************************************************************)
Malformed == "malformed"
Messages == {Malformed} \cup EventTypes

Destinations == [adapter_id : STRING, required : BOOLEAN]

(***************************************************************************)
(* A pattern is represented by the set of values it matches, so a filter   *)
(* list is a set of such sets.                                             *)
(***************************************************************************)
SmashRoutes ==
    [source_topic_pattern : SUBSET Partitions,
     event_filters        : SUBSET SUBSET EventTypes,
     destinations         : Seq(Destinations)]

NoOutputPolicies ==
    [allow_no_output : BOOLEAN, no_output_sink : {"discard", "dlq", "unset"}]

ASSUME ConstantsAssumption ==
    /\ Malformed \notin EventTypes
    /\ Routes \in Seq(SmashRoutes)
    /\ Untimed \subseteq STRING
    /\ Policies \subseteq NoOutputPolicies
    /\ MaxLog \in Nat
    /\ MaxDisruptions \in Nat

NoOffset == -1   \* the group has never committed on this partition

VARIABLES
    policy,      \* allow_no_output and no_output_sink of this process
    log,         \* the messages of each partition
    committed,   \* the group's committed offset, or NoOffset
    pending,     \* commits handed to the client and not yet applied, oldest first
    position,    \* the next offset recv() returns
    pc,          \* where the consumer task is
    cur,         \* the partition and offset being processed
    todo,        \* destinations of the current message not yet attempted
    dlq,         \* offsets whose envelope is in the DLQ topic
    disruptions, \* crashes and rebalances so far
    base,        \* history: where the group started reading the partition
    seen,        \* history: offsets recv() has returned
    acked,       \* history: deliveries that returned Ok
    tried,       \* history: deliveries that returned, Ok or Err
    errored      \* history: offsets whose process_message returned Err

vars == <<policy, log, committed, pending, position, pc, cur, todo, dlq,
          disruptions, base, seen, acked, tried, errored>>

kafka == <<log, committed, pending>>
history == <<base, seen, acked, tried, errored>>

-----------------------------------------------------------------------------
(***************************************************************************)
(* Routing.  A destination is named by its route's index and its own index *)
(* in that route's list.                                                   *)
(***************************************************************************)
Slots == Nat \X Nat

Required(s) == Routes[s[1]].destinations[s[2]].required

RouteEventFilterMatch(route, event_type) ==
    \/ route.event_filters = {}
    \/ \E filter \in route.event_filters : event_type \in filter

RouteMatches(route, p, event_type) ==
    /\ p \in route.source_topic_pattern
    /\ RouteEventFilterMatch(route, event_type)

\* All destinations an envelope read from p is routed to.
RoutedSlots(p, event_type) ==
    UNION { {r} \X DOMAIN Routes[r].destinations :
              r \in {i \in DOMAIN Routes : RouteMatches(Routes[i], p, event_type)} }

\* The order of the loops: route by route, in each route the required
\* destinations and then the optional ones, in list order.
AttemptedBefore(s, t) ==
    \/ s[1] < t[1]
    \/ /\ s[1] = t[1]
       /\ \/ Required(s) /\ ~Required(t)
          \/ (Required(s) <=> Required(t)) /\ s[2] < t[2]

\* Fault: one loop over the destinations of a route, in list order.
NextSlotListOrder(s) ==
    /\ s \in todo
    /\ \A t \in todo \ {s} : s[1] < t[1] \/ (s[1] = t[1] /\ s[2] < t[2])

NextSlot(s) == s \in todo /\ \A t \in todo \ {s} : AttemptedBefore(s, t)

Message(p, o) == log[p][o + 1]

-----------------------------------------------------------------------------
\* The process is not running yet; records may already be in the topic.
Init ==
    /\ policy \in Policies
    /\ log = [p \in Partitions |-> <<>>]
    /\ committed = [p \in Partitions |-> NoOffset]
    /\ pending = [p \in Partitions |-> <<>>]
    /\ position = [p \in Partitions |-> 0]
    /\ pc = "down"
    /\ cur \in Partitions \X {0}
    /\ todo = {}
    /\ dlq = {}
    /\ disruptions = 0
    /\ base = [p \in Partitions |-> 0]
    /\ seen = {}
    /\ acked = {}
    /\ tried = {}
    /\ errored = {}

(***************************************************************************)
(* Kafka (external).                                                       *)
(***************************************************************************)
\* relay or another producer appends a record.
Produce(p, m) ==
    /\ Len(log[p]) < MaxLog
    /\ log' = [log EXCEPT ![p] = Append(@, m)]
    /\ UNCHANGED <<policy, committed, pending, position, pc, cur, todo, dlq,
                   disruptions, history>>

\* The broker applies the oldest asynchronous commit of a partition.
ApplyCommit(p) ==
    /\ pending[p] # <<>>
    /\ committed' = [committed EXCEPT ![p] = Head(pending[p])]
    /\ pending' = [pending EXCEPT ![p] = Tail(@)]
    /\ UNCHANGED <<policy, log, position, pc, cur, todo, dlq, disruptions,
                   history>>

\* CommitMode::Async: nobody waits for the answer, so a failed request is lost.
LoseCommit(p) ==
    /\ pending[p] # <<>>
    /\ pending' = [pending EXCEPT ![p] = Tail(@)]
    /\ UNCHANGED <<policy, log, committed, position, pc, cur, todo, dlq,
                   disruptions, history>>

\* Fault: no auto.offset.reset for a group without commits.
StartOffsetUnset(p) == committed[p]

\* Where an assignment starts: the committed offset or, there being none,
\* the end of the log (auto.offset.reset = latest).
StartOffset(p) ==
    IF committed[p] = NoOffset THEN Len(log[p]) ELSE committed[p]

\* Fault: commits of the old generation still reach the broker.
AssignUnfenced ==
    /\ position' = [p \in Partitions |-> StartOffset(p)]
    /\ base' = [p \in Partitions |->
                  IF committed[p] = NoOffset THEN Len(log[p]) ELSE base[p]]
    /\ UNCHANGED <<policy, log, committed, pending, cur, todo, dlq, seen, acked,
                   tried, errored>>

\* A new group generation: commits of the old one are fenced off.
Assign ==
    /\ pending' = [p \in Partitions |-> <<>>]
    /\ position' = [p \in Partitions |-> StartOffset(p)]
    /\ base' = [p \in Partitions |->
                  IF committed[p] = NoOffset THEN Len(log[p]) ELSE base[p]]
    /\ UNCHANGED <<policy, log, committed, cur, todo, dlq, seen, acked,
                   tried, errored>>

\* Rebalance events are served by recv(), never while a message is processed.
Rebalance ==
    /\ pc = "recv"
    /\ disruptions < MaxDisruptions
    /\ disruptions' = disruptions + 1
    /\ Assign
    /\ UNCHANGED pc

(***************************************************************************)
(* The process.                                                            *)
(***************************************************************************)
\* from_config builds the consumer and subscribes; the group assigns.
Start ==
    /\ pc = "down"
    /\ pc' = "recv"
    /\ Assign
    /\ UNCHANGED disruptions

\* The process dies at any await; what the broker holds survives.
Crash ==
    /\ pc # "down"
    /\ disruptions < MaxDisruptions
    /\ disruptions' = disruptions + 1
    /\ pc' = "down"
    /\ todo' = {}
    /\ UNCHANGED <<policy, kafka, position, cur, dlq, history>>

\* recv() returns the next record of p and process_message starts on it.
Take(p) ==
    /\ pc = "recv"
    /\ position[p] < Len(log[p])
    /\ cur' = <<p, position[p]>>
    /\ position' = [position EXCEPT ![p] = @ + 1]
    /\ seen' = seen \cup {<<p, position[p]>>}
    /\ UNCHANGED <<policy, kafka, dlq, disruptions, base, acked, tried>>

\* No payload, or serde_json rejects it: Err, which run() only logs.
RejectMalformed(p) ==
    /\ Take(p)
    /\ Message(p, position[p]) = Malformed
    /\ errored' = errored \cup {<<p, position[p]>>}
    /\ UNCHANGED <<pc, todo>>

\* deliver_to_routes with at least one destination.
BeginDelivery(p) ==
    /\ Take(p)
    /\ Message(p, position[p]) # Malformed
    /\ RoutedSlots(p, Message(p, position[p])) # {}
    /\ pc' = "deliver"
    /\ todo' = RoutedSlots(p, Message(p, position[p]))
    /\ UNCHANGED errored

\* No route matches, or the matching routes have no destinations.
HandleNoOutput(p) ==
    /\ Take(p)
    /\ Message(p, position[p]) # Malformed
    /\ RoutedSlots(p, Message(p, position[p])) = {}
    /\ \/ /\ ~policy.allow_no_output \/ policy.no_output_sink = "unset"
          /\ errored' = errored \cup {<<p, position[p]>>}
          /\ UNCHANGED pc
       \/ /\ policy.allow_no_output /\ policy.no_output_sink = "discard"
          /\ pc' = "commit"
          /\ UNCHANGED errored
       \/ /\ policy.allow_no_output /\ policy.no_output_sink = "dlq"
          /\ pc' = "dlq_no_output"
          /\ UNCHANGED errored
    /\ UNCHANGED todo

AfterAttempt(s) ==
    /\ todo' = todo \ {s}
    /\ pc' = IF todo' = {} THEN "commit" ELSE "deliver"
    /\ UNCHANGED <<policy, kafka, position, cur, dlq, disruptions, base, seen,
                   errored>>

DeliverOk(s) ==
    /\ pc = "deliver"
    /\ NextSlot(s)
    /\ AfterAttempt(s)
    /\ acked' = acked \cup {<<cur, s>>}
    /\ tried' = tried \cup {<<cur, s>>}

\* An Err does not mean that nothing arrived: an answer can time out after the
\* destination took the event.
ErrEffect(s) ==
    /\ tried' = tried \cup {<<cur, s>>}
    /\ UNCHANGED acked

DeliverOptionalErr(s) ==
    /\ pc = "deliver"
    /\ NextSlot(s)
    /\ ~Required(s)
    /\ AfterAttempt(s)
    /\ ErrEffect(s)

\* Fault: a required destination is treated like an optional one.
DeliverRequiredErrIgnored(s) ==
    /\ pc = "deliver"
    /\ NextSlot(s)
    /\ Required(s)
    /\ AfterAttempt(s)
    /\ ErrEffect(s)

\* Fault: the consumer seeks back to retry the message until it is delivered.
DeliverRequiredErrSeeksBack(s) ==
    /\ pc = "deliver"
    /\ NextSlot(s)
    /\ Required(s)
    /\ pc' = "recv"
    /\ todo' = {}
    /\ position' = [position EXCEPT ![cur[1]] = cur[2]]
    /\ ErrEffect(s)
    /\ UNCHANGED <<policy, kafka, cur, dlq, disruptions, base, seen, errored>>

DeliverRequiredErr(s) ==
    /\ pc = "deliver"
    /\ NextSlot(s)
    /\ Required(s)
    /\ pc' = "dlq_required"
    /\ todo' = {}
    /\ ErrEffect(s)
    /\ UNCHANGED <<policy, kafka, position, cur, dlq, disruptions, base, seen,
                   errored>>

\* DlqProducer.publish_failed acknowledged: DoNotCommit after a required
\* failure, Commit for a message without output.
DlqPublishOk ==
    /\ pc \in {"dlq_required", "dlq_no_output"}
    /\ dlq' = dlq \cup {cur}
    /\ pc' = IF pc = "dlq_no_output" THEN "commit" ELSE "recv"
    /\ UNCHANGED <<policy, kafka, position, cur, todo, disruptions, history>>

\* Fault: the result of publish_failed is dropped.
DlqPublishErrIgnored ==
    /\ pc \in {"dlq_required", "dlq_no_output"}
    /\ dlq' \in {dlq, dlq \cup {cur}}
    /\ pc' = "recv"
    /\ UNCHANGED <<policy, kafka, position, cur, todo, disruptions, history>>

\* publish_failed times out, with the record written or not: Err.
DlqPublishErr ==
    /\ pc \in {"dlq_required", "dlq_no_output"}
    /\ dlq' \in {dlq, dlq \cup {cur}}
    /\ pc' = "recv"
    /\ errored' = errored \cup {cur}
    /\ UNCHANGED <<policy, kafka, position, cur, todo, disruptions, base, seen,
                   acked, tried>>

\* commit_message(&message, CommitMode::Async) hands offset + 1 to the client.
CommitMessage ==
    /\ pc = "commit"
    /\ pending' = [pending EXCEPT ![cur[1]] = Append(@, cur[2] + 1)]
    /\ pc' = "recv"
    /\ UNCHANGED <<policy, log, committed, position, cur, todo, dlq,
                   disruptions, history>>

\* The client refuses the commit on the spot: Err.
CommitRefused ==
    /\ pc = "commit"
    /\ pc' = "recv"
    /\ errored' = errored \cup {cur}
    /\ UNCHANGED <<policy, kafka, position, cur, todo, dlq, disruptions, base,
                   seen, acked, tried>>

DeliverDestination(s) ==
    DeliverOk(s) \/ DeliverOptionalErr(s) \/ DeliverRequiredErr(s)

Receive ==
    \E p \in Partitions :
        RejectMalformed(p) \/ BeginDelivery(p) \/ HandleNoOutput(p)

ProcessStep ==
    \/ \E s \in todo : DeliverDestination(s)
    \/ DlqPublishOk
    \/ DlqPublishErr
    \/ CommitMessage
    \/ CommitRefused

Next ==
    \/ \E p \in Partitions, m \in Messages : Produce(p, m)
    \/ \E p \in Partitions : ApplyCommit(p)
    \/ \E p \in Partitions : LoseCommit(p)
    \/ Rebalance
    \/ Start
    \/ Crash
    \/ Receive
    \/ ProcessStep

Spec == Init /\ [][Next]_vars

\* connect_async and socket.close of a websocket client and the write to the
\* stdin of an MCP tool's child have no timeout, nor has the await of deliver().
MayHang(s) == Routes[s[1]].destinations[s[2]].adapter_id \in Untimed

\* The steps of process_message that end by themselves: deliver() of the other
\* adapters, which bound every attempt and their number, the DLQ's send, which
\* has a timeout, and the commit, which does not wait.
TimedStep ==
    \/ \E s \in todo : ~MayHang(s) /\ DeliverDestination(s)
    \/ DlqPublishOk
    \/ DlqPublishErr
    \/ CommitMessage
    \/ CommitRefused

\* run() loops forever and systemd restarts a dead process.  A deliver() that
\* may hang is owed nothing.
Fairness ==
    /\ WF_vars(Start)
    /\ WF_vars(TimedStep)
    /\ WF_vars(Receive)

FairSpec == Spec /\ Fairness

-----------------------------------------------------------------------------
TypeOK ==
    /\ policy \in NoOutputPolicies
    /\ log \in [Partitions -> Seq(Messages)]
    /\ committed \in [Partitions -> Nat \cup {NoOffset}]
    /\ pending \in [Partitions -> Seq(Nat)]
    /\ position \in [Partitions -> Nat]
    /\ pc \in {"down", "recv", "deliver", "dlq_required", "dlq_no_output",
               "commit"}
    /\ cur \in Partitions \X Nat
    /\ todo \subseteq Slots
    /\ dlq \subseteq Partitions \X Nat
    /\ disruptions \in 0..MaxDisruptions
    /\ base \in [Partitions -> Nat]
    /\ seen \subseteq Partitions \X Nat
    /\ acked \subseteq (Partitions \X Nat) \X Slots
    /\ tried \subseteq (Partitions \X Nat) \X Slots
    /\ errored \subseteq Partitions \X Nat

-----------------------------------------------------------------------------
(***************************************************************************)
(* Properties.                                                             *)
(***************************************************************************)
\* The message has produced what a commit of its own offset stands for: every
\* required destination acknowledged it or, having no destination, the
\* no-output policy let it go.
Settled(p, o) ==
    LET m == Message(p, o)
    IN  /\ m # Malformed
        /\ \A s \in RoutedSlots(p, m) : Required(s) => <<<<p, o>>, s>> \in acked
        /\ RoutedSlots(p, m) = {} =>
              /\ policy.allow_no_output
              /\ \/ policy.no_output_sink = "discard"
                 \/ policy.no_output_sink = "dlq" /\ <<p, o>> \in dlq

\* Where the failure of a message leaves a trace: the DLQ or the error log.
Recorded(p, o) == <<p, o>> \in dlq \/ <<p, o>> \in errored

Commits(p) ==
    {pending[p][i] : i \in DOMAIN pending[p]} \cup ({committed[p]} \ {NoOffset})

\* process_message: an offset is committed, or on its way to the broker, only
\* for a message that is settled, whatever crashes, rebalances, redeliveries
\* and lost commits came before.
CommitIsEarned ==
    \A p \in Partitions : \A c \in Commits(p) :
        c \in 1..Len(log[p]) /\ Settled(p, c - 1)

\* run(): the consumer moves on past failures, so an offset below the
\* committed one, or behind the consumer's position, need not be delivered;
\* but none passes without being settled, in the DLQ or in the error log.
PassedMessagesAccounted ==
    \A p \in Partitions :
        /\ \A o \in base[p]..(committed[p] - 1) : Settled(p, o) \/ Recorded(p, o)
        /\ pc # "down" =>
              \A o \in base[p]..(position[p] - 1) :
                  \/ Settled(p, o)
                  \/ Recorded(p, o)
                  \/ pc # "recv" /\ cur = <<p, o>>

\* deliver_to_routes: no destination is tried before every required one ahead
\* of it in the loops has acknowledged the message.
RequiredGatesLater ==
    \A d \in tried :
        LET p == d[1][1]  o == d[1][2]  s == d[2]
        IN  \A t \in RoutedSlots(p, Message(p, o)) :
                Required(t) /\ AttemptedBefore(t, s) => <<<<p, o>>, t>> \in acked

\* What the consumer is through with: settled, in the DLQ, in the error log, or
\* older than the place where the group began to read.
Through(p, o) ==
    \/ o < base[p]
    \/ o < Len(log[p]) /\ (Settled(p, o) \/ Recorded(p, o))

\* run() and process_message with asynchronous, losable commits: the consumer
\* keeps the promise of a consumer group with "through with" in place of
\* "delivered".  No commit covers a record that left no trace, nothing that was
\* dealt with is undone, and no crash, rebalance or lost commit moves the group
\* back.
Promise == INSTANCE SettledOffsets
    WITH settled <- {r \in Partitions \X (0..MaxLog) : Through(r[1], r[2])},
         committed <- committed

CommitsOnlyThrough == Promise!Spec

\* The consumer waits for a deliver() that nothing bounds.
Hanging == pc = "deliver" /\ \E s \in todo : NextSlot(s) /\ MayHang(s)

\* run() keeps taking records whatever became of the previous ones: unless the
\* one deliver() that it awaits never returns, every record of the log is
\* received.  Nothing is said of records from before the place where the group
\* began to read: auto.offset.reset = latest passes over them, also those of
\* an outage before the first commit.
EveryRecordReceived ==
    \/ <>[]Hanging
    \/ \A p \in Partitions : \A o \in 0..(MaxLog - 1) :
           (Len(log[p]) > o) ~> (<<p, o>> \in seen \/ o < base[p])

(***************************************************************************)
(* What the documentation says and the code does not do.                   *)
(***************************************************************************)
\* docs/spec.md on required destinations: commit is blocked until delivery
\* succeeds.  So no commit covers an envelope that a required destination has
\* not acknowledged.
CommitBlockedUntilDelivered ==
    \A p \in Partitions : \A o \in base[p]..(committed[p] - 1) :
        Message(p, o) # Malformed =>
            \A s \in RoutedSlots(p, Message(p, o)) :
                Required(s) => <<<<p, o>>, s>> \in acked

============================================================================
