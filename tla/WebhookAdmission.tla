------------------------- MODULE WebhookAdmission --------------------------
(***************************************************************************)
(* What hook-serve does with a webhook request before it is queued: the    *)
(* per-source rate limiter, the checks of the source handler and the       *)
(* idempotency store.  Translated from webhook_handler in src/main.rs,     *)
(* src/middleware.rs and src/idempotency.rs.                               *)
(*                                                                         *)
(* Handlers run on several threads.  Each reads the clock once and uses    *)
(* that value to the end; between two of its steps others run and the      *)
(* clock moves on.  Each of the three mutexes (windows,                    *)
(* dedup_expirations, cooldown_expirations) is held for one step, and no   *)
(* code panics under one, so the poisoned-lock branches are dead.          *)
(***************************************************************************)
EXTENDS Integers, Sequences, FiniteSets

CONSTANTS
    Requests,          \* the requests of a behaviour; a retry is a new one
    Deliveries,        \* what a request may carry
    Sources,           \* enabled sources
    DedupKeys,         \* keys handler.dedup_key derives, never empty
    CooldownKeys,      \* keys handler.cooldown_key derives
    NoKey,             \* handler.cooldown_key returns None
    SecondsPerMinute,  \* SECONDS_PER_MINUTE of middleware.rs
    LimitPerMinute,    \* limit_per_minute
    DedupTtl,          \* dedup_ttl_seconds
    CooldownTtl,       \* cooldown_seconds
    MaxClock           \* bound: the last second considered

(***************************************************************************)
(* The first check a delivery does not survive: the path names no enabled  *)
(* source; validate_request, the JSON parser, validate_payload, event_type *)
(* or dedup_key refuses it; sanitize_payload, a plugin or the route lookup *)
(* refuses it; or none does.                                               *)
(***************************************************************************)
Flaws == {"source", "request", "payload", "none"}

DeliveryType ==
    [source       : Sources,
     dedup_key    : DedupKeys,
     cooldown_key : CooldownKeys \cup {NoKey},
     flaw         : Flaws]

\* Config::from_env refuses a time to live that is not positive.
ASSUME AdmissionAssumption ==
    /\ Deliveries \subseteq DeliveryType
    /\ NoKey \notin CooldownKeys
    /\ SecondsPerMinute \in Nat \ {0}
    /\ LimitPerMinute \in Nat
    /\ DedupTtl \in Nat \ {0}
    /\ CooldownTtl \in Nat \ {0}
    /\ MaxClock \in Nat

NoEntry == -1   \* the map holds no such key

Answers == {"none", "not_found", "rate_limited", "rejected", "duplicate",
            "cooldown", "invalid", "accepted", "unavailable"}

VARIABLES
    clock,                 \* epoch_seconds()
    pc,                    \* what each handler does next
    delivery,              \* what each request carries
    now,                   \* now_epoch_seconds of each handler
    answer,                \* the response of each handler
    windows,               \* SourceRateLimiter.windows
    dedup_expirations,     \* IdempotencyStore.dedup_expirations
    cooldown_expirations,  \* IdempotencyStore.cooldown_expirations
    counted,               \* history: requests the limiter let pass, in order
    dedup_at,              \* history: when a request entered its dedup key
    cooldown_at            \* history: when a request entered its cooldown key

vars == <<clock, pc, delivery, now, answer, windows, dedup_expirations,
          cooldown_expirations, counted, dedup_at, cooldown_at>>

store == <<dedup_expirations, cooldown_expirations, dedup_at, cooldown_at>>
limiter == <<windows, counted>>

-----------------------------------------------------------------------------
Init ==
    /\ clock = 0
    /\ pc = [r \in Requests |-> "idle"]
    /\ delivery \in [Requests -> Deliveries]
    /\ now = [r \in Requests |-> 0]
    /\ answer = [r \in Requests |-> "none"]
    /\ windows = [s \in Sources |-> [minute_bucket |-> NoEntry, count |-> 0]]
    /\ dedup_expirations = [k \in DedupKeys |-> NoEntry]
    /\ cooldown_expirations = [k \in CooldownKeys |-> NoEntry]
    /\ counted = <<>>
    /\ dedup_at = [r \in Requests |-> NoEntry]
    /\ cooldown_at = [r \in Requests |-> NoEntry]

Tick ==
    /\ clock < MaxClock
    /\ clock' = clock + 1
    /\ UNCHANGED <<pc, delivery, now, answer, store, limiter>>

Goto(r, step) == pc' = [pc EXCEPT ![r] = step] /\ UNCHANGED answer

Respond(r, a) ==
    /\ pc' = [pc EXCEPT ![r] = "done"]
    /\ answer' = [answer EXCEPT ![r] = a]

\* normalize_source_name, is_source_enabled, handler_for_source; then the
\* clock is read.
Arrive(r) ==
    /\ pc[r] = "idle"
    /\ \/ /\ delivery[r].flaw = "source"
          /\ Respond(r, "not_found")
          /\ UNCHANGED now
       \/ /\ delivery[r].flaw # "source"
          /\ Goto(r, "limit")
          /\ now' = [now EXCEPT ![r] = clock]
    /\ UNCHANGED <<clock, delivery, store, limiter>>

-----------------------------------------------------------------------------
(***************************************************************************)
(* SourceRateLimiter::allow.                                               *)
(***************************************************************************)
Minute(t) == t \div SecondsPerMinute

\* Fault: the window is that of the second.
WindowForSecond(s, n) ==
    IF windows[s].minute_bucket = n
    THEN windows[s]
    ELSE [minute_bucket |-> n, count |-> 0]

\* The window of a source as a request that read n finds it: the window of
\* another minute, earlier or later, is started afresh.
WindowFor(s, n) ==
    IF windows[s].minute_bucket = Minute(n)
    THEN windows[s]
    ELSE [minute_bucket |-> Minute(n), count |-> 0]

\* Fault: one request more than the limit.
AllowOneMore(r) ==
    LET s == delivery[r].source
        w == WindowFor(s, now[r])
    IN  /\ w.count <= LimitPerMinute
        /\ windows' = [windows EXCEPT ![s] = [w EXCEPT !.count = @ + 1]]
        /\ counted' = Append(counted, r)

Allow(r) ==
    LET s == delivery[r].source
        w == WindowFor(s, now[r])
    IN  /\ w.count < LimitPerMinute
        /\ windows' = [windows EXCEPT ![s] = [w EXCEPT !.count = @ + 1]]
        /\ counted' = Append(counted, r)

\* A refusal also leaves the window at the request's minute.
Disallow(r) ==
    LET s == delivery[r].source
        w == WindowFor(s, now[r])
    IN  /\ w.count >= LimitPerMinute
        /\ windows' = [windows EXCEPT ![s] = w]
        /\ UNCHANGED counted

LimitSource(r) ==
    /\ pc[r] = "limit"
    /\ \/ Disallow(r) /\ Respond(r, "rate_limited")
       \/ /\ Allow(r)
          /\ \/ delivery[r].flaw = "request" /\ Respond(r, "rejected")
             \/ delivery[r].flaw # "request" /\ Goto(r, "dedup")
    /\ UNCHANGED <<clock, delivery, now, store>>

-----------------------------------------------------------------------------
(***************************************************************************)
(* IdempotencyStore::check.                                                *)
(***************************************************************************)
\* Fault: entries are dropped a second early.
PruneEarly(cache, n) ==
    [k \in DOMAIN cache |-> IF cache[k] > n + 1 THEN cache[k] ELSE NoEntry]

PruneExpired(cache, n) ==
    [k \in DOMAIN cache |-> IF cache[k] > n THEN cache[k] ELSE NoEntry]

DedupEnd(n) == n + DedupTtl

\* Fault: the cooldown ends when it starts.
CooldownEndAtOnce(n) == n

CooldownEnd(n) == n + CooldownTtl

\* Fault: a duplicate prolongs the window of its key.
CheckDedupProlonging(r) ==
    LET k == delivery[r].dedup_key
        cache == PruneExpired(dedup_expirations, now[r])
    IN  /\ pc[r] = "dedup"
        /\ dedup_expirations' = [cache EXCEPT ![k] =
                                   IF @ > DedupEnd(now[r]) THEN @ ELSE DedupEnd(now[r])]
        /\ \/ /\ cache[k] > now[r]
              /\ Respond(r, "duplicate")
              /\ UNCHANGED dedup_at
           \/ /\ cache[k] <= now[r]
              /\ dedup_at' = [dedup_at EXCEPT ![r] = clock]
              /\ Goto(r, IF delivery[r].cooldown_key = NoKey THEN "enqueue"
                                                             ELSE "cooldown")
        /\ UNCHANGED <<clock, delivery, now, limiter, cooldown_expirations,
                       cooldown_at>>

\* Under the lock of dedup_expirations.  The key is entered at once, whatever
\* becomes of the request afterwards.
CheckDedup(r) ==
    LET k == delivery[r].dedup_key
        cache == PruneExpired(dedup_expirations, now[r])
    IN  /\ pc[r] = "dedup"
        /\ \/ /\ cache[k] > now[r]
              /\ Respond(r, "duplicate")
              /\ dedup_expirations' = cache
              /\ UNCHANGED dedup_at
           \/ /\ cache[k] <= now[r]
              /\ dedup_expirations' = [cache EXCEPT ![k] = DedupEnd(now[r])]
              /\ dedup_at' = [dedup_at EXCEPT ![r] = clock]
              /\ Goto(r, IF delivery[r].cooldown_key = NoKey THEN "enqueue"
                                                             ELSE "cooldown")
        /\ UNCHANGED <<clock, delivery, now, limiter, cooldown_expirations,
                       cooldown_at>>

\* Under the lock of cooldown_expirations, taken after the other is released.
CheckCooldown(r) ==
    LET k == delivery[r].cooldown_key
        cache == PruneExpired(cooldown_expirations, now[r])
    IN  /\ pc[r] = "cooldown"
        /\ \/ /\ cache[k] > now[r]
              /\ Respond(r, "cooldown")
              /\ cooldown_expirations' = cache
              /\ UNCHANGED cooldown_at
           \/ /\ cache[k] <= now[r]
              /\ cooldown_expirations' = [cache EXCEPT ![k] = CooldownEnd(now[r])]
              /\ cooldown_at' = [cooldown_at EXCEPT ![r] = clock]
              /\ Goto(r, "enqueue")
        /\ UNCHANGED <<clock, delivery, now, limiter, dedup_expirations,
                       dedup_at>>

-----------------------------------------------------------------------------
\* sanitize_payload, apply_serve_plugins and resolve_serve_route; then
\* try_send, which fails when the queue is full or its receiver is gone.
Enqueue(r) ==
    /\ pc[r] = "enqueue"
    /\ \/ delivery[r].flaw = "payload" /\ Respond(r, "invalid")
       \/ /\ delivery[r].flaw # "payload"
          /\ Respond(r, "accepted") \/ Respond(r, "unavailable")
    /\ UNCHANGED <<clock, delivery, now, store, limiter>>

Next ==
    \/ Tick
    \/ \E r \in Requests :
          \/ Arrive(r)
          \/ LimitSource(r)
          \/ CheckDedup(r)
          \/ CheckCooldown(r)
          \/ Enqueue(r)

Spec == Init /\ [][Next]_vars

-----------------------------------------------------------------------------
TypeOK ==
    /\ clock \in Nat
    /\ pc \in [Requests -> {"idle", "limit", "dedup", "cooldown", "enqueue",
                            "done"}]
    /\ delivery \in [Requests -> DeliveryType]
    /\ now \in [Requests -> Nat]
    /\ answer \in [Requests -> Answers]
    /\ windows \in [Sources -> [minute_bucket : Nat \cup {NoEntry},
                                count : 0..LimitPerMinute]]
    /\ dedup_expirations \in [DedupKeys -> Nat \cup {NoEntry}]
    /\ cooldown_expirations \in [CooldownKeys -> Nat \cup {NoEntry}]
    /\ counted \in Seq(Requests)
    /\ dedup_at \in [Requests -> Nat \cup {NoEntry}]
    /\ cooldown_at \in [Requests -> Nat \cup {NoEntry}]

-----------------------------------------------------------------------------
(***************************************************************************)
(* Properties.                                                             *)
(***************************************************************************)
\* The request entered its dedup key, its cooldown key.
Marked(r) == dedup_at[r] # NoEntry
Cooling(r) == cooldown_at[r] # NoEntry

SameEvent(r, q) == delivery[r].dedup_key = delivery[q].dedup_key
SameEntity(r, q) == delivery[r].cooldown_key = delivery[q].cooldown_key

\* IdempotencyStore::check with timestamps that arrive out of order: of two
\* requests with the same dedup key that both pass, the later one passes no
\* sooner than dedup_ttl_seconds after the clock reading of the earlier one.
DedupWindow ==
    \A r, q \in Requests :
        r # q /\ Marked(r) /\ Marked(q) /\ SameEvent(r, q) =>
            \/ dedup_at[q] >= now[r] + DedupTtl
            \/ dedup_at[r] >= now[q] + DedupTtl

\* The same of the cooldown: two events of an entity pass it only
\* cooldown_seconds apart.
CooldownWindow ==
    \A r, q \in Requests :
        r # q /\ Cooling(r) /\ Cooling(q) /\ SameEntity(r, q) =>
            \/ cooldown_at[q] >= now[r] + CooldownTtl
            \/ cooldown_at[r] >= now[q] + CooldownTtl

\* A request is suppressed only on account of another one: a duplicate by one
\* with its dedup key, a cooldown by one with its cooldown key, that passed
\* the check itself and whose window is not over.
SuppressionHasCause ==
    \A r \in Requests :
        /\ answer[r] = "duplicate" =>
              \E q \in Requests :
                  Marked(q) /\ SameEvent(r, q) /\ now[q] + DedupTtl > now[r]
        /\ answer[r] = "cooldown" =>
              \E q \in Requests :
                  Cooling(q) /\ SameEntity(r, q) /\ now[q] + CooldownTtl > now[r]

\* The requests of source s in minute m that the limiter let pass.
PassedIn(s, m) ==
    {r \in {counted[i] : i \in DOMAIN counted} :
        delivery[r].source = s /\ Minute(now[r]) = m}

\* The requests of s reached the limiter in the order of their minutes.
InTimeOrder(s) ==
    \A i, j \in DOMAIN counted :
        /\ i < j
        /\ delivery[counted[i]].source = s
        /\ delivery[counted[j]].source = s
        => Minute(now[counted[i]]) <= Minute(now[counted[j]])

\* SourceRateLimiter: as long as no request is overtaken by one of a later
\* minute, at most limit_per_minute requests of a source pass per minute.
RateLimitInOrder ==
    \A s \in Sources : InTimeOrder(s) =>
        \A m \in 0..Minute(MaxClock) : Cardinality(PassedIn(s, m)) <= LimitPerMinute

(***************************************************************************)
(* What the documentation says and the code does not do.                   *)
(***************************************************************************)
\* docs/configuration.md on RELAY_PUBLISH_QUEUE_CAPACITY: backpressure is
\* applied when full.  So a sender that is told 503 can retry: the retry is not
\* answered as a duplicate while no request with its key was accepted or may
\* still be.
BackpressureRetryable ==
    \A r, q \in Requests :
        /\ answer[q] = "unavailable"
        /\ answer[r] = "duplicate"
        /\ SameEvent(r, q)
        => \E t \in Requests :
              SameEvent(r, t) /\ (answer[t] = "accepted" \/ pc[t] # "done")

-----------------------------------------------------------------------------
(***************************************************************************)
(* The inductive invariant behind the windows.                             *)
(***************************************************************************)
\* No handler works with a time the clock has not reached, a handler past a
\* check has read the clock, and one that has answered is done.
ReadingsPast ==
    \A r \in Requests :
        /\ now[r] <= clock
        /\ Marked(r) \/ Cooling(r) => pc[r] # "idle"
        /\ answer[r] # "none" => pc[r] = "done"
        /\ pc[r] = "cooldown" => delivery[r].cooldown_key # NoKey

\* The window of a request that passed is in the map, or it is over: its entry
\* goes only when somebody has read a time past it.
DedupCovered ==
    \A r \in Requests : Marked(r) =>
        \/ dedup_expirations[delivery[r].dedup_key] >= DedupEnd(now[r])
        \/ clock >= DedupEnd(now[r])

CooldownCovered ==
    \A r \in Requests : Cooling(r) =>
        /\ delivery[r].cooldown_key # NoKey
        /\ \/ cooldown_expirations[delivery[r].cooldown_key] >= CooldownEnd(now[r])
           \/ clock >= CooldownEnd(now[r])

\* An entry of a map is the window of a request that passed.
DedupOwned ==
    \A k \in DedupKeys : dedup_expirations[k] # NoEntry =>
        \E q \in Requests :
            /\ Marked(q)
            /\ delivery[q].dedup_key = k
            /\ dedup_expirations[k] = DedupEnd(now[q])

CooldownOwned ==
    \A k \in CooldownKeys : cooldown_expirations[k] # NoEntry =>
        \E q \in Requests :
            /\ Cooling(q)
            /\ delivery[q].cooldown_key = k
            /\ cooldown_expirations[k] = CooldownEnd(now[q])

AdmissionInv ==
    /\ TypeOK
    /\ ReadingsPast
    /\ DedupCovered
    /\ CooldownCovered
    /\ DedupOwned
    /\ CooldownOwned
    /\ DedupWindow
    /\ CooldownWindow
    /\ SuppressionHasCause

============================================================================
