------------------------------- MODULE Relay -------------------------------
(***************************************************************************)
(* hook relay: a consumer that copies the records of its source topics to  *)
(* one output topic and commits what it has copied; and hook replay, which *)
(* puts a stored payload back into a topic.  Translated from               *)
(* tools/hook/src/commands/relay.rs and replay.rs.                         *)
(*                                                                         *)
(* Kafka is external.  Offsets count from 0, the record at offset o of p   *)
(* is log[p][o + 1], and the output topic is kept as the order in which    *)
(* the first copies of records arrived in it: later copies do not show.    *)
(***************************************************************************)
EXTENDS Integers, Sequences

CONSTANTS
    Partitions,      \* the topic-partitions the group is assigned
    Launches,        \* the command lines and environments to consider
    MaxLog,          \* bound: records produced per partition
    MaxDisruptions   \* bound: crashes and rebalances together

\* A record has no payload, a WebhookEnvelope or other bytes.
Records == {"empty", "envelope", "other"}
RelayModes == {"envelope", "raw"}

(***************************************************************************)
(* A launch: which of the required settings are given, how many topics the *)
(* list names, the protocol and which TLS files are set, and what bounds   *)
(* the retries.                                                            *)
(***************************************************************************)
RelayArgs ==
    [given : SUBSET {"KAFKA_BROKERS", "KAFKA_TOPICS", "HOOK_RELAY_OUTPUT_TOPIC"},
     topics : Nat,
     security_protocol : {"plaintext", "ssl"},
     tls : SUBSET {"KAFKA_TLS_CERT", "KAFKA_TLS_KEY", "KAFKA_TLS_CA"},
     max_retries : Nat,
     force : BOOLEAN,
     mode : RelayModes]

ASSUME RelayAssumption ==
    /\ Launches \subseteq RelayArgs
    /\ MaxLog \in Nat
    /\ MaxDisruptions \in Nat

NoOffset == -1   \* the group has never committed on this partition

VARIABLES
    runtime,     \* RelayRuntimeConfig
    log,         \* the records of each source partition
    committed,   \* the group's committed offset, or NoOffset
    pending,     \* commits handed to the client and not yet applied, oldest first
    position,    \* the next offset recv() returns
    pc,          \* where the relay is
    cur,         \* the partition and offset being processed
    attempt,     \* failed sends of the current record
    output,      \* the records in the output topic, by their first copy
    late,        \* records of which a copy may still reach the output topic
    disruptions, \* crashes and rebalances so far
    base,        \* history: where the group started reading the partition
    acked,       \* history: records whose send returned Ok
    deferred,    \* history: records left uncommitted by DeferredNoCommit
    failed       \* history: records whose publish_with_retry returned Err

vars == <<runtime, log, committed, pending, position, pc, cur, attempt, output,
          late, disruptions, base, acked, deferred, failed>>

kafka == <<log, committed, pending>>
outcomes == <<acked, deferred, failed>>

-----------------------------------------------------------------------------
\* load_runtime_config finds what it needs.
LoadRuntimeConfig(args) ==
    /\ args.given = {"KAFKA_BROKERS", "KAFKA_TOPICS", "HOOK_RELAY_OUTPUT_TOPIC"}
    /\ args.topics > 0

\* ensure_preconditions: every reason to refuse gives way to --force.
EnsurePreconditions(args) ==
    \/ args.force
    \/ /\ \/ args.security_protocol # "ssl"
          \/ args.tls = {"KAFKA_TLS_CERT", "KAFKA_TLS_KEY", "KAFKA_TLS_CA"}
       /\ args.max_retries # 0

Init ==
    /\ runtime \in Launches
    /\ log = [p \in Partitions |-> <<>>]
    /\ committed = [p \in Partitions |-> NoOffset]
    /\ pending = [p \in Partitions |-> <<>>]
    /\ position = [p \in Partitions |-> 0]
    /\ pc = "down"
    /\ cur \in Partitions \X {0}
    /\ attempt = 0
    /\ output = <<>>
    /\ late = {}
    /\ disruptions = 0
    /\ base = [p \in Partitions |-> 0]
    /\ acked = {}
    /\ deferred = {}
    /\ failed = {}

(***************************************************************************)
(* Kafka (external).                                                       *)
(***************************************************************************)
Append1(p, m) ==
    /\ Len(log[p]) < MaxLog
    /\ log' = [log EXCEPT ![p] = Append(@, m)]
    /\ UNCHANGED <<runtime, committed, pending, position, pc, cur, attempt,
                   output, late, disruptions, base, outcomes>>

\* hook-serve or another producer appends a record.
Produce(p, m) == Append1(p, m)

\* replay_kafka: one record per call, checked first in envelope mode; a send
\* that reports an error may have stored the record all the same.
ReplayKafka(p, m, mode) ==
    /\ m # "empty"
    /\ mode = "envelope" => m = "envelope"
    /\ Append1(p, m)

ApplyCommit(p) ==
    /\ pending[p] # <<>>
    /\ committed' = [committed EXCEPT ![p] = Head(pending[p])]
    /\ pending' = [pending EXCEPT ![p] = Tail(@)]
    /\ UNCHANGED <<runtime, log, position, pc, cur, attempt, output, late,
                   disruptions, base, outcomes>>

\* CommitMode::Async: nobody waits for the answer, so a failed request is lost.
LoseCommit(p) ==
    /\ pending[p] # <<>>
    /\ pending' = [pending EXCEPT ![p] = Tail(@)]
    /\ UNCHANGED <<runtime, log, committed, position, pc, cur, attempt, output,
                   late, disruptions, base, outcomes>>

\* Where an assignment starts: auto.offset.reset = latest.
StartOffset(p) ==
    IF committed[p] = NoOffset THEN Len(log[p]) ELSE committed[p]

\* A new group generation: commits of the old one are fenced off.
Assign ==
    /\ pending' = [p \in Partitions |-> <<>>]
    /\ position' = [p \in Partitions |-> StartOffset(p)]
    /\ base' = [p \in Partitions |->
                  IF committed[p] = NoOffset THEN Len(log[p]) ELSE base[p]]
    /\ UNCHANGED <<runtime, log, committed, cur, attempt, output, late, outcomes>>

\* Rebalance events are served by recv(), never while a record is processed.
Rebalance ==
    /\ pc = "recv"
    /\ disruptions < MaxDisruptions
    /\ disruptions' = disruptions + 1
    /\ Assign
    /\ UNCHANGED pc

WithCopy(r) ==
    IF \E i \in DOMAIN output : output[i] = r THEN output ELSE Append(output, r)

\* A copy of a send that the relay counted as failed arrives after all.
LandLate(r) ==
    /\ r \in late
    /\ output' = WithCopy(r)
    /\ late' \in {late, late \ {r}}
    /\ UNCHANGED <<runtime, kafka, position, pc, cur, attempt, disruptions, base,
                   outcomes>>

(***************************************************************************)
(* The relay.                                                              *)
(***************************************************************************)
\* run: the configuration is loaded and checked, the clients are built and
\* the consumer subscribes.
Start ==
    /\ pc = "down"
    /\ LoadRuntimeConfig(runtime)
    /\ EnsurePreconditions(runtime)
    /\ pc' = "recv"
    /\ Assign
    /\ UNCHANGED disruptions

\* The process dies at any await; what the broker holds survives, and so does
\* a record on its way to it.
Crash ==
    /\ pc # "down"
    /\ disruptions < MaxDisruptions
    /\ disruptions' = disruptions + 1
    /\ pc' = "down"
    /\ late' \in {late} \cup (IF pc = "send" THEN {late \cup {cur}} ELSE {})
    /\ UNCHANGED <<runtime, kafka, position, cur, attempt, output, base, outcomes>>

\* recv() returns the next record of p and process_message starts on it.
Take(p) ==
    /\ pc = "recv"
    /\ position[p] < Len(log[p])
    /\ cur' = <<p, position[p]>>
    /\ position' = [position EXCEPT ![p] = @ + 1]
    /\ UNCHANGED <<runtime, kafka, output, late, disruptions, base>>

Record(p) == log[p][position[p] + 1]

Forwardable(m) == m = "envelope" \/ (m = "other" /\ runtime.mode = "raw")

\* Fault: the consumer seeks back to a record it could not forward.
DeferSeeksBack(p) ==
    /\ pc = "recv"
    /\ position[p] < Len(log[p])
    /\ ~Forwardable(Record(p))
    /\ cur' = <<p, position[p]>>
    /\ deferred' = deferred \cup {cur'}
    /\ UNCHANGED <<runtime, kafka, position, output, late, disruptions, base, pc,
                   attempt, acked, failed>>

\* No payload or, in envelope mode, no envelope: DeferredNoCommit.
Defer(p) ==
    /\ Take(p)
    /\ ~Forwardable(Record(p))
    /\ deferred' = deferred \cup {cur'}
    /\ UNCHANGED <<pc, attempt, acked, failed>>

\* publish_with_retry begins.
BeginPublish(p) ==
    /\ Take(p)
    /\ Forwardable(Record(p))
    /\ pc' = "send"
    /\ attempt' = 0
    /\ UNCHANGED outcomes

\* Fault: the delivery future is dropped, the record left on its way.
SendOkUnawaited ==
    /\ pc = "send"
    /\ late' = late \cup {cur}
    /\ acked' = acked \cup {cur}
    /\ pc' = "commit"
    /\ UNCHANGED <<runtime, kafka, position, cur, attempt, output, disruptions,
                   base, deferred, failed>>

SendOk ==
    /\ pc = "send"
    /\ output' = WithCopy(cur)
    /\ acked' = acked \cup {cur}
    /\ pc' = "commit"
    /\ UNCHANGED <<runtime, kafka, position, cur, attempt, late, disruptions, base,
                   deferred, failed>>

\* Fault: the offset is committed whatever publish_with_retry returned.
SendErrCommits ==
    /\ pc = "send"
    /\ \/ output' = WithCopy(cur) /\ UNCHANGED late
       \/ late' \in {late, late \cup {cur}} /\ UNCHANGED output
    /\ attempt' = attempt + 1
    /\ pc' = IF attempt + 1 >= runtime.max_retries THEN "commit" ELSE "backoff"
    /\ UNCHANGED <<runtime, kafka, position, cur, disruptions, base, outcomes>>

\* The send reports an error, whatever becomes of the record; after
\* max_retries of them, or the first when that is 0, run() logs and goes on.
SendErr ==
    /\ pc = "send"
    /\ \/ output' = WithCopy(cur) /\ UNCHANGED late
       \/ late' \in {late, late \cup {cur}} /\ UNCHANGED output
    /\ attempt' = attempt + 1
    /\ \/ /\ attempt + 1 >= runtime.max_retries
          /\ pc' = "recv"
          /\ failed' = failed \cup {cur}
       \/ /\ attempt + 1 < runtime.max_retries
          /\ pc' = "backoff"
          /\ UNCHANGED failed
    /\ UNCHANGED <<runtime, kafka, position, cur, disruptions, base, acked,
                   deferred>>

\* sleep(retry_backoff_ms(..)) is over.
BackoffOver ==
    /\ pc = "backoff"
    /\ pc' = "send"
    /\ UNCHANGED <<runtime, kafka, position, cur, attempt, output, late,
                   disruptions, base, outcomes>>

\* commit_message with CommitMode::Async hands the commit to the client, or
\* fails, which run() logs.
Commit ==
    /\ pc = "commit"
    /\ pc' = "recv"
    /\ \/ pending' = [pending EXCEPT ![cur[1]] = Append(@, cur[2] + 1)]
       \/ UNCHANGED pending
    /\ UNCHANGED <<runtime, log, committed, position, cur, attempt, output, late,
                   disruptions, base, outcomes>>

RelayStep == SendOk \/ SendErr \/ BackoffOver \/ Commit

Receive(p) == Defer(p) \/ BeginPublish(p)

Next ==
    \/ Start
    \/ Crash
    \/ Rebalance
    \/ RelayStep
    \/ \E r \in late : LandLate(r)
    \/ \E p \in Partitions :
          \/ \E m \in Records : Produce(p, m)
          \/ \E m \in Records, mode \in RelayModes : ReplayKafka(p, m, mode)
          \/ ApplyCommit(p)
          \/ LoseCommit(p)
          \/ Receive(p)

Spec == Init /\ [][Next]_vars

\* Sends are bounded by message.timeout.ms, sleeps by backoff_max_ms, and the
\* client serves every assigned partition.
Fairness ==
    /\ WF_vars(RelayStep)
    /\ \A p \in Partitions : WF_vars(Receive(p))

FairSpec == Spec /\ Fairness

-----------------------------------------------------------------------------
Offsets == Partitions \X Nat

TypeOK ==
    /\ runtime \in RelayArgs
    /\ log \in [Partitions -> Seq(Records)]
    /\ committed \in [Partitions -> Nat \cup {NoOffset}]
    /\ pending \in [Partitions -> Seq(Nat)]
    /\ position \in [Partitions -> Nat]
    /\ pc \in {"down", "recv", "send", "backoff", "commit"}
    /\ cur \in Offsets
    /\ attempt \in Nat
    /\ output \in Seq(Offsets)
    /\ late \subseteq Offsets
    /\ disruptions \in Nat
    /\ base \in [Partitions -> Nat]
    /\ acked \subseteq Offsets
    /\ deferred \subseteq Offsets
    /\ failed \subseteq Offsets

-----------------------------------------------------------------------------
(***************************************************************************)
(* Properties.                                                             *)
(***************************************************************************)
\* What the relay is through with: copied, deferred, reported as failed, or
\* older than the place where the group began to read.
Settled(r) ==
    \/ r \in acked \cup deferred \cup failed
    \/ r[2] < base[r[1]]

\* process_message and commit_message: every committed offset covers only
\* records that were copied, deferred or reported as failed, and a restart, a
\* rebalance or a lost commit never moves the group back.
Promise == INSTANCE SettledOffsets
    WITH settled <- {r \in Partitions \X (0..MaxLog) : Settled(r)},
         committed <- committed

CommitsOnlySettled == Promise!Spec

\* publish_with_retry: of two records of a partition that were both copied,
\* the earlier one is in the output topic first, across crashes, repeated
\* copies and copies that arrive after their send was given up, unless the
\* earlier one had been reported as failed.
ForwardedInOrder ==
    \A j \in DOMAIN output : \A a \in acked \ failed :
        (a[1] = output[j][1] /\ a[2] < output[j][2])
            => \E i \in 1..(j - 1) : output[i] = a

\* run: no failing send, refused payload or lost commit keeps the relay from
\* dealing with the records behind it.
EveryRecordSettled ==
    \A p \in Partitions : \A o \in 0..(MaxLog - 1) :
        (o < Len(log[p]) /\ pc # "down") ~> (Settled(<<p, o>>) \/ pc = "down")

============================================================================
