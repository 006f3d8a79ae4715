---------------------- MODULE WebhookAdmissionProofs -----------------------
(***************************************************************************)
(* The idempotency store keeps its windows for every set of requests, keys *)
(* and deliveries, every time to live and every order of the handlers'     *)
(* steps, and so does the rate limiter within a minute.                    *)
(***************************************************************************)
EXTENDS WebhookAdmission, SequenceTheorems, FiniteSetTheorems, TLAPS

\* Pruning keeps exactly the entries whose time is later than n.
LEMMA PruneType ==
  ASSUME NEW Keys, NEW cache \in [Keys -> Nat \cup {NoEntry}], NEW n \in Nat
  PROVE  /\ PruneExpired(cache, n) \in [Keys -> Nat \cup {NoEntry}]
         /\ \A k \in Keys :
               /\ cache[k] > n => PruneExpired(cache, n)[k] = cache[k]
               /\ cache[k] <= n => PruneExpired(cache, n)[k] = NoEntry
  BY DEF PruneExpired, NoEntry

\* The window a request finds has the type of a window, and its count is
\* within the limit.
LEMMA WindowType ==
  ASSUME TypeOK, NEW s \in Sources, NEW n \in Nat
  PROVE  WindowFor(s, n) \in [minute_bucket : Nat \cup {NoEntry},
                              count : 0..LimitPerMinute]
<1>1. Minute(n) \in Nat
  BY AdmissionAssumption DEF Minute
<1> QED
  BY <1>1, AdmissionAssumption DEF WindowFor, TypeOK

\* Every variable has its type initially.
LEMMA InitTypeOK == Init => TypeOK
  BY AdmissionAssumption DEF Init, TypeOK, NoEntry, Answers

\* allow() leaves the windows well typed, whether it lets the request pass.
LEMMA LimiterType ==
  ASSUME TypeOK, NEW r \in Requests, Allow(r) \/ Disallow(r)
  PROVE  /\ windows' \in [Sources -> [minute_bucket : Nat \cup {NoEntry},
                                      count : 0..LimitPerMinute]]
         /\ counted' \in Seq(Requests)
<1> DEFINE s == delivery[r].source
           w == WindowFor(s, now[r])
<1>1. s \in Sources /\ now[r] \in Nat
  BY DEF TypeOK, DeliveryType
<1>2. w \in [minute_bucket : Nat \cup {NoEntry}, count : 0..LimitPerMinute]
  BY <1>1, WindowType
<1> HIDE DEF w
<1>3. CASE Allow(r)
  <2>1. /\ w.count < LimitPerMinute
        /\ windows' = [windows EXCEPT ![s] = [w EXCEPT !.count = @ + 1]]
        /\ counted' = Append(counted, r)
    BY <1>3 DEF Allow, w
  <2>2. [w EXCEPT !.count = @ + 1] \in
          [minute_bucket : Nat \cup {NoEntry}, count : 0..LimitPerMinute]
    BY <1>2, <2>1, AdmissionAssumption
  <2> QED
    BY <2>1, <2>2, <1>1 DEF TypeOK
<1>4. CASE Disallow(r)
  <2>1. windows' = [windows EXCEPT ![s] = w] /\ counted' = counted
    BY <1>4 DEF Disallow, w
  <2> QED
    BY <2>1, <1>1, <1>2 DEF TypeOK
<1> QED
  BY <1>3, <1>4

\* What check() does under the lock of dedup_expirations: it forgets what the
\* request finds expired, and then refuses the request or enters its key.
LEMMA DedupEffect ==
  ASSUME TypeOK, NEW r \in Requests, CheckDedup(r),
         NEW k, k = delivery[r].dedup_key
  PROVE  /\ k \in DedupKeys
         /\ now[r] \in Nat
         /\ clock \in Nat
         /\ pc[r] = "dedup"
         /\ dedup_expirations' \in [DedupKeys -> Nat \cup {NoEntry}]
         /\ \A j \in DedupKeys \ {k} :
               \/ dedup_expirations'[j] = dedup_expirations[j]
               \/ /\ dedup_expirations'[j] = NoEntry
                  /\ dedup_expirations[j] <= now[r]
         /\ \/ /\ dedup_expirations[k] > now[r]
               /\ dedup_expirations'[k] = dedup_expirations[k]
               /\ Respond(r, "duplicate")
               /\ UNCHANGED dedup_at
            \/ /\ dedup_expirations[k] <= now[r]
               /\ dedup_expirations'[k] = DedupEnd(now[r])
               /\ dedup_at' = [dedup_at EXCEPT ![r] = clock]
               /\ \E step \in {"cooldown", "enqueue"} :
                        /\ pc' = [pc EXCEPT ![r] = step]
                        /\ step = "cooldown" => delivery[r].cooldown_key # NoKey
               /\ UNCHANGED answer
         /\ UNCHANGED <<clock, delivery, now, windows, counted,
                        cooldown_expirations, cooldown_at>>
<1> DEFINE cache == PruneExpired(dedup_expirations, now[r])
<1>1. k \in DedupKeys /\ now[r] \in Nat /\ clock \in Nat
  BY AdmissionAssumption DEF TypeOK, DeliveryType
<1>2. dedup_expirations \in [DedupKeys -> Nat \cup {NoEntry}]
  BY DEF TypeOK
<1>3. /\ cache \in [DedupKeys -> Nat \cup {NoEntry}]
      /\ \A j \in DedupKeys :
            /\ dedup_expirations[j] > now[r] => cache[j] = dedup_expirations[j]
            /\ dedup_expirations[j] <= now[r] => cache[j] = NoEntry
  BY <1>1, <1>2, PruneType
<1>4. DedupEnd(now[r]) \in Nat
  BY <1>1, AdmissionAssumption DEF DedupEnd
<1>5. /\ pc[r] = "dedup"
      /\ UNCHANGED <<clock, delivery, now, windows, counted, cooldown_expirations,
                     cooldown_at>>
  BY DEF CheckDedup, limiter
<1> HIDE DEF cache
<1>6. CASE /\ cache[k] > now[r]
           /\ Respond(r, "duplicate")
           /\ dedup_expirations' = cache
           /\ UNCHANGED dedup_at
  <2>1. dedup_expirations[k] > now[r] /\ cache[k] = dedup_expirations[k]
    BY <1>1, <1>2, <1>3, <1>6 DEF NoEntry
  <2>2. \A j \in DedupKeys :
           \/ cache[j] = dedup_expirations[j]
           \/ cache[j] = NoEntry /\ dedup_expirations[j] <= now[r]
    BY <1>1, <1>2, <1>3 DEF NoEntry
  <2> QED
    BY <1>1, <1>3, <1>5, <1>6, <2>1, <2>2
<1>7. CASE /\ cache[k] <= now[r]
           /\ dedup_expirations' = [cache EXCEPT ![k] = DedupEnd(now[r])]
           /\ dedup_at' = [dedup_at EXCEPT ![r] = clock]
           /\ Goto(r, IF delivery[r].cooldown_key = NoKey THEN "enqueue"
                                                           ELSE "cooldown")
  <2>1. dedup_expirations' \in [DedupKeys -> Nat \cup {NoEntry}]
    BY <1>1, <1>3, <1>4, <1>7
  <2>2. dedup_expirations[k] <= now[r]
    BY <1>1, <1>2, <1>3, <1>7 DEF NoEntry
  <2>3. /\ dedup_expirations'[k] = DedupEnd(now[r])
        /\ \A j \in DedupKeys \ {k} : dedup_expirations'[j] = cache[j]
    BY <1>1, <1>3, <1>7
  <2>4. \A j \in DedupKeys \ {k} :
           \/ dedup_expirations'[j] = dedup_expirations[j]
           \/ /\ dedup_expirations'[j] = NoEntry
              /\ dedup_expirations[j] <= now[r]
    BY <1>1, <1>2, <1>3, <2>3 DEF NoEntry
  <2>5. \E step \in {"cooldown", "enqueue"} :
           /\ pc' = [pc EXCEPT ![r] = step]
           /\ step = "cooldown" => delivery[r].cooldown_key # NoKey
    <3>1. CASE delivery[r].cooldown_key = NoKey
      BY <1>7, <3>1 DEF Goto
    <3>2. CASE delivery[r].cooldown_key # NoKey
      BY <1>7, <3>2 DEF Goto
    <3> QED
      BY <3>1, <3>2
  <2>6. UNCHANGED answer
    BY <1>7 DEF Goto
  <2> QED
    BY <1>1, <1>5, <1>7, <2>1, <2>2, <2>3, <2>4, <2>5, <2>6
<1>8. \/ /\ cache[k] > now[r]
         /\ Respond(r, "duplicate")
         /\ dedup_expirations' = cache
         /\ UNCHANGED dedup_at
      \/ /\ cache[k] <= now[r]
         /\ dedup_expirations' = [cache EXCEPT ![k] = DedupEnd(now[r])]
         /\ dedup_at' = [dedup_at EXCEPT ![r] = clock]
         /\ Goto(r, IF delivery[r].cooldown_key = NoKey THEN "enqueue"
                                                           ELSE "cooldown")
  BY Zenon DEF CheckDedup, cache
<1> QED
  BY <1>6, <1>7, <1>8

\* What check() does under the lock of cooldown_expirations: it forgets what the
\* request finds expired, and then refuses the request or enters its key.
LEMMA CooldownEffect ==
  ASSUME TypeOK, NEW r \in Requests, CheckCooldown(r),
         NEW k, k = delivery[r].cooldown_key, k # NoKey
  PROVE  /\ k \in CooldownKeys
         /\ now[r] \in Nat
         /\ clock \in Nat
         /\ pc[r] = "cooldown"
         /\ cooldown_expirations' \in [CooldownKeys -> Nat \cup {NoEntry}]
         /\ \A j \in CooldownKeys \ {k} :
               \/ cooldown_expirations'[j] = cooldown_expirations[j]
               \/ /\ cooldown_expirations'[j] = NoEntry
                  /\ cooldown_expirations[j] <= now[r]
         /\ \/ /\ cooldown_expirations[k] > now[r]
               /\ cooldown_expirations'[k] = cooldown_expirations[k]
               /\ Respond(r, "cooldown")
               /\ UNCHANGED cooldown_at
            \/ /\ cooldown_expirations[k] <= now[r]
               /\ cooldown_expirations'[k] = CooldownEnd(now[r])
               /\ cooldown_at' = [cooldown_at EXCEPT ![r] = clock]
               /\ pc' = [pc EXCEPT ![r] = "enqueue"]
               /\ UNCHANGED answer
         /\ UNCHANGED <<clock, delivery, now, windows, counted,
                        dedup_expirations, dedup_at>>
<1> DEFINE cache == PruneExpired(cooldown_expirations, now[r])
<1>1. k \in CooldownKeys /\ now[r] \in Nat /\ clock \in Nat
  BY AdmissionAssumption DEF TypeOK, DeliveryType
<1>2. cooldown_expirations \in [CooldownKeys -> Nat \cup {NoEntry}]
  BY DEF TypeOK
<1>3. /\ cache \in [CooldownKeys -> Nat \cup {NoEntry}]
      /\ \A j \in CooldownKeys :
            /\ cooldown_expirations[j] > now[r] => cache[j] = cooldown_expirations[j]
            /\ cooldown_expirations[j] <= now[r] => cache[j] = NoEntry
  BY <1>1, <1>2, PruneType
<1>4. CooldownEnd(now[r]) \in Nat
  BY <1>1, AdmissionAssumption DEF CooldownEnd
<1>5. /\ pc[r] = "cooldown"
      /\ UNCHANGED <<clock, delivery, now, windows, counted, dedup_expirations,
                     dedup_at>>
  BY DEF CheckCooldown, limiter
<1> HIDE DEF cache
<1>6. CASE /\ cache[k] > now[r]
           /\ Respond(r, "cooldown")
           /\ cooldown_expirations' = cache
           /\ UNCHANGED cooldown_at
  <2>1. cooldown_expirations[k] > now[r] /\ cache[k] = cooldown_expirations[k]
    BY <1>1, <1>2, <1>3, <1>6 DEF NoEntry
  <2>2. \A j \in CooldownKeys :
           \/ cache[j] = cooldown_expirations[j]
           \/ cache[j] = NoEntry /\ cooldown_expirations[j] <= now[r]
    BY <1>1, <1>2, <1>3 DEF NoEntry
  <2> QED
    BY <1>1, <1>3, <1>5, <1>6, <2>1, <2>2
<1>7. CASE /\ cache[k] <= now[r]
           /\ cooldown_expirations' = [cache EXCEPT ![k] = CooldownEnd(now[r])]
           /\ cooldown_at' = [cooldown_at EXCEPT ![r] = clock]
           /\ Goto(r, "enqueue")
  <2>1. cooldown_expirations' \in [CooldownKeys -> Nat \cup {NoEntry}]
    BY <1>1, <1>3, <1>4, <1>7
  <2>2. cooldown_expirations[k] <= now[r]
    BY <1>1, <1>2, <1>3, <1>7 DEF NoEntry
  <2>3. /\ cooldown_expirations'[k] = CooldownEnd(now[r])
        /\ \A j \in CooldownKeys \ {k} : cooldown_expirations'[j] = cache[j]
    BY <1>1, <1>3, <1>7
  <2>4. \A j \in CooldownKeys \ {k} :
           \/ cooldown_expirations'[j] = cooldown_expirations[j]
           \/ /\ cooldown_expirations'[j] = NoEntry
              /\ cooldown_expirations[j] <= now[r]
    BY <1>1, <1>2, <1>3, <2>3 DEF NoEntry
  <2>5. pc' = [pc EXCEPT ![r] = "enqueue"]
    BY <1>7 DEF Goto
  <2>6. UNCHANGED answer
    BY <1>7 DEF Goto
  <2> QED
    BY <1>1, <1>5, <1>7, <2>1, <2>2, <2>3, <2>4, <2>5, <2>6
<1>8. \/ /\ cache[k] > now[r]
         /\ Respond(r, "cooldown")
         /\ cooldown_expirations' = cache
         /\ UNCHANGED cooldown_at
      \/ /\ cache[k] <= now[r]
         /\ cooldown_expirations' = [cache EXCEPT ![k] = CooldownEnd(now[r])]
         /\ cooldown_at' = [cooldown_at EXCEPT ![r] = clock]
         /\ Goto(r, "enqueue")
  BY Zenon DEF CheckCooldown, cache
<1> QED
  BY <1>6, <1>7, <1>8

\* Every step keeps the types.
LEMMA NextTypeOK == AdmissionInv /\ [Next]_vars => TypeOK'
<1> SUFFICES ASSUME AdmissionInv, [Next]_vars PROVE TypeOK'
  OBVIOUS
<1> USE AdmissionAssumption DEF AdmissionInv
<1>1. CASE UNCHANGED vars
  BY <1>1 DEF vars, TypeOK
<1>2. CASE Tick
  BY <1>2 DEF Tick, TypeOK, store, limiter
<1>3. ASSUME NEW r \in Requests, Arrive(r) PROVE TypeOK'
  <2>1. UNCHANGED <<clock, delivery, windows, counted, dedup_expirations,
                    cooldown_expirations, dedup_at, cooldown_at>>
    BY <1>3 DEF Arrive, store, limiter
  <2>2. now' \in [Requests -> Nat]
    BY <1>3 DEF Arrive, TypeOK
  <2>3. pc' \in [Requests -> {"idle", "limit", "dedup", "cooldown", "enqueue",
                              "done"}]
    BY <1>3 DEF Arrive, Respond, Goto, TypeOK
  <2>4. answer' \in [Requests -> Answers]
    BY <1>3 DEF Arrive, Respond, Goto, TypeOK, Answers
  <2> QED
    BY <2>1, <2>2, <2>3, <2>4 DEF TypeOK
<1>4. ASSUME NEW r \in Requests, LimitSource(r) PROVE TypeOK'
  <2>1. /\ windows' \in [Sources -> [minute_bucket : Nat \cup {NoEntry},
                                     count : 0..LimitPerMinute]]
        /\ counted' \in Seq(Requests)
    BY <1>4, LimiterType DEF LimitSource
  <2>2. UNCHANGED <<clock, delivery, now, store>>
    BY <1>4 DEF LimitSource
  <2>3. /\ pc' \in [Requests -> {"idle", "limit", "dedup", "cooldown",
                                 "enqueue", "done"}]
        /\ answer' \in [Requests -> Answers]
    BY <1>4 DEF LimitSource, Respond, Goto, TypeOK, Answers
  <2> QED
    BY <2>1, <2>2, <2>3 DEF TypeOK, store
<1>5. ASSUME NEW r \in Requests, CheckDedup(r) PROVE TypeOK'
  <2>1. /\ clock \in Nat
        /\ dedup_expirations' \in [DedupKeys -> Nat \cup {NoEntry}]
        /\ \/ Respond(r, "duplicate") /\ UNCHANGED dedup_at
           \/ /\ dedup_at' = [dedup_at EXCEPT ![r] = clock]
              /\ \E step \in {"cooldown", "enqueue"} : pc' = [pc EXCEPT ![r] = step]
              /\ UNCHANGED answer
        /\ UNCHANGED <<clock, delivery, now, windows, counted, cooldown_expirations,
                       cooldown_at>>
    BY <1>5, DedupEffect
  <2>2. /\ pc' \in [Requests -> {"idle", "limit", "dedup", "cooldown",
                                 "enqueue", "done"}]
        /\ answer' \in [Requests -> Answers]
        /\ dedup_at' \in [Requests -> Nat \cup {NoEntry}]
    <3>1. CASE Respond(r, "duplicate") /\ UNCHANGED dedup_at
      BY <3>1 DEF Respond, Answers, TypeOK
    <3>2. ASSUME NEW step \in {"cooldown", "enqueue"},
                 pc' = [pc EXCEPT ![r] = step],
                 dedup_at' = [dedup_at EXCEPT ![r] = clock],
                 UNCHANGED answer
          PROVE  /\ pc' \in [Requests -> {"idle", "limit", "dedup", "cooldown",
                                          "enqueue", "done"}]
                 /\ answer' \in [Requests -> Answers]
                 /\ dedup_at' \in [Requests -> Nat \cup {NoEntry}]
      BY <2>1, <3>2 DEF TypeOK
    <3> QED
      BY <2>1, <3>1, <3>2
  <2> QED
    BY <2>1, <2>2 DEF TypeOK
<1>6. ASSUME NEW r \in Requests, CheckCooldown(r) PROVE TypeOK'
  <2>0. delivery[r].cooldown_key # NoKey
    BY <1>6 DEF CheckCooldown, ReadingsPast
  <2>1. /\ clock \in Nat
        /\ cooldown_expirations' \in [CooldownKeys -> Nat \cup {NoEntry}]
        /\ \/ Respond(r, "cooldown") /\ UNCHANGED cooldown_at
           \/ /\ cooldown_at' = [cooldown_at EXCEPT ![r] = clock]
              /\ \E step \in {"cooldown", "enqueue"} : pc' = [pc EXCEPT ![r] = step]
              /\ UNCHANGED answer
        /\ UNCHANGED <<clock, delivery, now, windows, counted, dedup_expirations,
                       dedup_at>>
    BY <1>6, <2>0, CooldownEffect
  <2>2. /\ pc' \in [Requests -> {"idle", "limit", "dedup", "cooldown",
                                 "enqueue", "done"}]
        /\ answer' \in [Requests -> Answers]
        /\ cooldown_at' \in [Requests -> Nat \cup {NoEntry}]
    <3>1. CASE Respond(r, "cooldown") /\ UNCHANGED cooldown_at
      BY <3>1 DEF Respond, Answers, TypeOK
    <3>2. ASSUME NEW step \in {"cooldown", "enqueue"},
                 pc' = [pc EXCEPT ![r] = step],
                 cooldown_at' = [cooldown_at EXCEPT ![r] = clock],
                 UNCHANGED answer
          PROVE  /\ pc' \in [Requests -> {"idle", "limit", "dedup", "cooldown",
                                          "enqueue", "done"}]
                 /\ answer' \in [Requests -> Answers]
                 /\ cooldown_at' \in [Requests -> Nat \cup {NoEntry}]
      BY <2>1, <3>2 DEF TypeOK
    <3> QED
      BY <2>1, <3>1, <3>2
  <2> QED
    BY <2>1, <2>2 DEF TypeOK
<1>7. ASSUME NEW r \in Requests, Enqueue(r) PROVE TypeOK'
  BY <1>7 DEF Enqueue, Respond, TypeOK, store, limiter, Answers
<1> QED
  BY <1>1, <1>2, <1>3, <1>4, <1>5, <1>6, <1>7 DEF Next

-----------------------------------------------------------------------------
(***************************************************************************)
(* The windows.                                                            *)
(***************************************************************************)
\* A step that leaves the store alone keeps all that is said about it: time
\* goes on, and only a request that is in no map yet reads the clock.
LEMMA QuietStep ==
  ASSUME AdmissionInv, TypeOK',
         UNCHANGED <<delivery, dedup_expirations, cooldown_expirations,
                     dedup_at, cooldown_at>>,
         clock' >= clock,
         \A q \in Requests :
            /\ now'[q] = now[q] \/ (pc[q] = "idle" /\ now'[q] = clock)
            /\ \/ pc'[q] = pc[q] /\ answer'[q] = answer[q]
               \/ /\ pc[q] # "done"
                  /\ pc'[q] \notin {"idle", "cooldown"}
                  /\ answer'[q] # "none" => pc'[q] = "done"
                  /\ answer'[q] \notin {"duplicate", "cooldown"}
  PROVE  AdmissionInv'
<1> USE AdmissionAssumption DEF AdmissionInv
<1>1. /\ clock \in Nat /\ clock' \in Nat
      /\ \A q \in Requests :
            /\ now[q] \in Nat
            /\ now'[q] \in Nat
            /\ delivery[q] \in DeliveryType
            /\ delivery[q].dedup_key \in DedupKeys
            /\ delivery[q].cooldown_key \in CooldownKeys \cup {NoKey}
      /\ \A k \in DedupKeys : dedup_expirations[k] \in Nat \cup {NoEntry}
      /\ \A k \in CooldownKeys : cooldown_expirations[k] \in Nat \cup {NoEntry}
  BY DEF TypeOK, DeliveryType
<1>2. \A q \in Requests : Marked(q) \/ Cooling(q) => now'[q] = now[q]
  BY DEF ReadingsPast
<1>3. \A q \in Requests : /\ Marked(q)' <=> Marked(q)
                          /\ Cooling(q)' <=> Cooling(q)
  BY DEF Marked, Cooling
<1>4. ReadingsPast'
  BY <1>1, <1>3 DEF ReadingsPast
<1>5. DedupCovered'
  BY <1>1, <1>2, <1>3 DEF DedupCovered, DedupEnd, NoEntry
<1>6. CooldownCovered'
  BY <1>1, <1>2, <1>3 DEF CooldownCovered, CooldownEnd, NoEntry
<1>7. DedupOwned'
  BY <1>1, <1>2, <1>3 DEF DedupOwned, DedupEnd
<1>8. CooldownOwned'
  BY <1>1, <1>2, <1>3 DEF CooldownOwned, CooldownEnd
<1>9. DedupWindow'
  BY <1>1, <1>2, <1>3 DEF DedupWindow, SameEvent
<1>10. CooldownWindow'
  BY <1>1, <1>2, <1>3 DEF CooldownWindow, SameEntity
<1>11. SuppressionHasCause'
  <2> SUFFICES ASSUME NEW r \in Requests
               PROVE  /\ answer'[r] = "duplicate" =>
                          \E q \in Requests :
                             /\ Marked(q)' /\ SameEvent(r, q)'
                             /\ now'[q] + DedupTtl > now'[r]
                      /\ answer'[r] = "cooldown" =>
                          \E q \in Requests :
                             /\ Cooling(q)' /\ SameEntity(r, q)'
                             /\ now'[q] + CooldownTtl > now'[r]
    BY DEF SuppressionHasCause
  <2>1. answer'[r] \in {"duplicate", "cooldown"} =>
           answer[r] = answer'[r] /\ now'[r] = now[r]
    BY DEF ReadingsPast
  <2>2. \A q \in Requests : /\ SameEvent(r, q)' <=> SameEvent(r, q)
                            /\ SameEntity(r, q)' <=> SameEntity(r, q)
    BY DEF SameEvent, SameEntity
  <2> QED
    BY <1>1, <1>2, <1>3, <2>1, <2>2 DEF SuppressionHasCause
<1> QED
  BY <1>4, <1>5, <1>6, <1>7, <1>8, <1>9, <1>10, <1>11

\* The check under the lock of dedup_expirations preserves the invariant.  A
\* request passes only if it finds no entry later than its own time, so every
\* earlier window of its key is over by the clock.
LEMMA DedupStep ==
  ASSUME AdmissionInv, TypeOK', NEW r \in Requests, CheckDedup(r)
  PROVE  AdmissionInv'
<1> USE AdmissionAssumption DEF AdmissionInv
<1> DEFINE k == delivery[r].dedup_key
<1>1. /\ k \in DedupKeys
      /\ pc[r] = "dedup"
      /\ \A j \in DedupKeys \ {k} :
            \/ dedup_expirations'[j] = dedup_expirations[j]
            \/ /\ dedup_expirations'[j] = NoEntry
               /\ dedup_expirations[j] <= now[r]
      /\ \/ /\ dedup_expirations[k] > now[r]
            /\ dedup_expirations'[k] = dedup_expirations[k]
            /\ Respond(r, "duplicate")
            /\ UNCHANGED dedup_at
         \/ /\ dedup_expirations[k] <= now[r]
            /\ dedup_expirations'[k] = DedupEnd(now[r])
            /\ dedup_at' = [dedup_at EXCEPT ![r] = clock]
            /\ \E step \in {"cooldown", "enqueue"} :
                  /\ pc' = [pc EXCEPT ![r] = step]
                  /\ step = "cooldown" => delivery[r].cooldown_key # NoKey
            /\ UNCHANGED answer
      /\ UNCHANGED <<clock, delivery, now, cooldown_expirations, cooldown_at>>
  BY DedupEffect
<1>2. /\ clock \in Nat
      /\ \A q \in Requests :
            /\ now[q] \in Nat
            /\ now[q] <= clock
            /\ delivery[q] \in DeliveryType
            /\ delivery[q].dedup_key \in DedupKeys
            /\ delivery[q].cooldown_key \in CooldownKeys \cup {NoKey}
      /\ \A j \in DedupKeys : dedup_expirations[j] \in Nat \cup {NoEntry}
      /\ dedup_at \in [Requests -> Nat \cup {NoEntry}]
      /\ pc \in [Requests -> {"idle", "limit", "dedup", "cooldown", "enqueue",
                              "done"}]
      /\ answer \in [Requests -> Answers]
  BY DEF TypeOK, DeliveryType, ReadingsPast
<1> HIDE DEF k
<1>3. \A q \in Requests :
         /\ Cooling(q)' <=> Cooling(q)
         /\ Marked(q) => Marked(q)'
         /\ Marked(q)' => Marked(q) \/ q = r
  BY <1>1, <1>2 DEF Marked, Cooling, NoEntry
<1>4. ReadingsPast'
  <2> SUFFICES ASSUME NEW q \in Requests
               PROVE  /\ now'[q] <= clock'
                      /\ Marked(q)' \/ Cooling(q)' => pc'[q] # "idle"
                      /\ answer'[q] # "none" => pc'[q] = "done"
                      /\ pc'[q] = "cooldown" => delivery'[q].cooldown_key # NoKey
    BY DEF ReadingsPast
  <2>1. now'[q] <= clock'
    BY <1>1, <1>2
  <2>2. CASE q # r
    <3>1. pc'[q] = pc[q] /\ answer'[q] = answer[q]
      BY <1>1, <1>2, <2>2 DEF Respond
    <3> QED
      BY <1>1, <1>3, <2>1, <2>2, <3>1 DEF ReadingsPast
  <2>3. CASE q = r
    <3>1. CASE Respond(r, "duplicate")
      BY <1>1, <1>2, <2>1, <2>3, <3>1 DEF Respond
    <3>2. ASSUME NEW step \in {"cooldown", "enqueue"},
                 pc' = [pc EXCEPT ![r] = step],
                 step = "cooldown" => delivery[r].cooldown_key # NoKey,
                 UNCHANGED answer
          PROVE  /\ pc'[q] = step
                 /\ answer'[q] = "none"
                 /\ pc'[q] = "cooldown" => delivery'[q].cooldown_key # NoKey
      BY <1>1, <1>2, <2>3, <3>2 DEF ReadingsPast
    <3> QED
      BY <1>1, <2>1, <3>1, <3>2
  <2> QED
    BY <2>2, <2>3
<1>5. DedupCovered'
  <2> SUFFICES ASSUME NEW q \in Requests, Marked(q)'
               PROVE  \/ dedup_expirations'[delivery[q].dedup_key] >= DedupEnd(now[q])
                      \/ clock >= DedupEnd(now[q])
    BY <1>1 DEF DedupCovered, DedupEnd
  <2>1. DedupEnd(now[q]) = now[q] + DedupTtl /\ DedupEnd(now[r]) = now[r] + DedupTtl
    BY DEF DedupEnd
  <2>2. CASE ~Marked(q)
    <3>1. q = r /\ dedup_expirations'[k] = DedupEnd(now[r])
      <4>1. q = r
        BY <1>3, <2>2
      <4>2. dedup_at' # dedup_at
        BY <2>2, <4>1 DEF Marked, Cooling
      <4> QED
        BY <1>1, <4>1, <4>2
    <3> QED
      BY <1>1, <1>2, <2>1, <3>1 DEF k
  <2>3. CASE Marked(q)
    <3> DEFINE j == delivery[q].dedup_key
    <3>1. j \in DedupKeys
      BY <1>2, <2>3 DEF DedupCovered
    <3>2. dedup_expirations[j] >= DedupEnd(now[q]) \/ clock >= DedupEnd(now[q])
      BY <2>3 DEF DedupCovered
    <3>3. \/ dedup_expirations'[j] = dedup_expirations[j]
          \/ dedup_expirations[j] <= now[r]
      BY <1>1, <3>1
    <3> QED
      BY <1>2, <2>1, <2>3, <3>1, <3>2, <3>3 DEF NoEntry
  <2> QED
    BY <2>2, <2>3
<1>6. CooldownCovered'
  BY <1>1, <1>3 DEF CooldownCovered, CooldownEnd
<1>7. DedupOwned'
  <2> SUFFICES ASSUME NEW j \in DedupKeys, dedup_expirations'[j] # NoEntry
               PROVE  \E q \in Requests :
                         /\ Marked(q)'
                         /\ delivery[q].dedup_key = j
                         /\ dedup_expirations'[j] = DedupEnd(now[q])
    BY <1>1 DEF DedupOwned, DedupEnd
  <2>1. CASE dedup_expirations'[j] = dedup_expirations[j]
    BY <1>3, <2>1 DEF DedupOwned
  <2>2. CASE dedup_expirations'[j] # dedup_expirations[j]
    <3>1. /\ j = k
          /\ dedup_expirations'[j] = DedupEnd(now[r])
          /\ dedup_at' = [dedup_at EXCEPT ![r] = clock]
      BY <1>1, <2>2
    <3>2. Marked(r)'
      BY <1>2, <3>1 DEF Marked, Cooling, NoEntry
    <3> QED
      BY <3>1, <3>2 DEF k
  <2> QED
    BY <2>1, <2>2
<1>8. CooldownOwned'
  BY <1>1, <1>3 DEF CooldownOwned, CooldownEnd
<1>9. DedupWindow'
  <2>1. CASE UNCHANGED dedup_at
    BY <1>1, <2>1 DEF DedupWindow, Marked, Cooling, SameEvent, SameEntity
  <2>2. CASE /\ dedup_expirations[k] <= now[r]
             /\ dedup_at' = [dedup_at EXCEPT ![r] = clock]
    <3>1. \A q \in Requests : Marked(q) /\ SameEvent(r, q) => clock >= now[q] + DedupTtl
      <4> SUFFICES ASSUME NEW q \in Requests, Marked(q), SameEvent(r, q)
                   PROVE  clock >= now[q] + DedupTtl
        OBVIOUS
      <4>1. delivery[q].dedup_key = k
        BY DEF SameEvent, k
      <4>2. dedup_expirations[k] >= now[q] + DedupTtl \/ clock >= now[q] + DedupTtl
        BY <4>1 DEF DedupCovered, DedupEnd
      <4> QED
        BY <1>1, <1>2, <2>2, <4>2 DEF NoEntry
    <3>2. dedup_at'[r] = clock
      BY <1>2, <2>2
    <3>3. \A q \in Requests \ {r} : dedup_at'[q] = dedup_at[q] /\ (Marked(q)' <=> Marked(q))
      BY <1>2, <2>2 DEF Marked, Cooling
    <3>4. \A p, q \in Requests :
             /\ SameEvent(p, q)' <=> SameEvent(p, q)
             /\ SameEvent(p, q) <=> SameEvent(q, p)
      BY <1>1 DEF SameEvent
    <3> SUFFICES ASSUME NEW p \in Requests, NEW q \in Requests, p # q,
                        Marked(p)', Marked(q)', SameEvent(p, q)
                 PROVE  \/ dedup_at'[q] >= now[p] + DedupTtl
                        \/ dedup_at'[p] >= now[q] + DedupTtl
      BY <1>1, <3>4 DEF DedupWindow
    <3>5. CASE p = r
      BY <3>1, <3>2, <3>3, <3>5
    <3>6. CASE q = r
      BY <3>1, <3>2, <3>3, <3>4, <3>6
    <3>7. CASE p # r /\ q # r
      BY <3>3, <3>7 DEF DedupWindow
    <3> QED
      BY <3>5, <3>6, <3>7
  <2> QED
    BY <1>1, <2>1, <2>2
<1>10. CooldownWindow'
  BY <1>1, <1>3 DEF CooldownWindow, SameEntity
<1>11. SuppressionHasCause'
  <2>1. \A p, q \in Requests : /\ SameEvent(p, q)' <=> SameEvent(p, q)
                               /\ SameEntity(p, q)' <=> SameEntity(p, q)
    BY <1>1 DEF SameEvent, SameEntity
  <2>2. CASE UNCHANGED answer
    BY <1>1, <1>3, <2>1, <2>2 DEF SuppressionHasCause
  <2>3. CASE dedup_expirations[k] > now[r] /\ Respond(r, "duplicate")
    <3>1. PICK q \in Requests :
             /\ Marked(q)
             /\ delivery[q].dedup_key = k
             /\ dedup_expirations[k] = DedupEnd(now[q])
      BY <1>1, <1>2, <2>3 DEF DedupOwned, NoEntry
    <3>2. Marked(q)' /\ SameEvent(r, q) /\ now[q] + DedupTtl > now[r]
      BY <1>2, <1>3, <2>3, <3>1 DEF SameEvent, k, DedupEnd
    <3>3. \A p \in Requests \ {r} : answer'[p] = answer[p]
      BY <1>2, <2>3 DEF Respond
    <3>4. answer'[r] = "duplicate"
      BY <1>2, <2>3 DEF Respond
    <3> SUFFICES ASSUME NEW p \in Requests
                 PROVE  /\ answer'[p] = "duplicate" =>
                            \E t \in Requests :
                               /\ Marked(t)' /\ SameEvent(p, t)
                               /\ now[t] + DedupTtl > now[p]
                        /\ answer'[p] = "cooldown" =>
                            \E t \in Requests :
                               /\ Cooling(t)' /\ SameEntity(p, t)
                               /\ now[t] + CooldownTtl > now[p]
      BY <1>1, <2>1 DEF SuppressionHasCause
    <3>5. CASE p = r
      BY <3>2, <3>4, <3>5
    <3>6. CASE p # r
      BY <1>3, <3>3, <3>6 DEF SuppressionHasCause
    <3> QED
      BY <3>5, <3>6
  <2> QED
    BY <1>1, <2>2, <2>3
<1> QED
  BY <1>4, <1>5, <1>6, <1>7, <1>8, <1>9, <1>10, <1>11

\* The check under the lock of cooldown_expirations preserves the invariant.  A
\* request passes only if it finds no entry later than its own time, so every
\* earlier window of its key is over by the clock.
LEMMA CooldownStep ==
  ASSUME AdmissionInv, TypeOK', NEW r \in Requests, CheckCooldown(r)
  PROVE  AdmissionInv'
<1> USE AdmissionAssumption DEF AdmissionInv
<1> DEFINE k == delivery[r].cooldown_key
<1>0. k # NoKey
  BY DEF CheckCooldown, ReadingsPast
<1>1. /\ k \in CooldownKeys
      /\ pc[r] = "cooldown"
      /\ \A j \in CooldownKeys \ {k} :
            \/ cooldown_expirations'[j] = cooldown_expirations[j]
            \/ /\ cooldown_expirations'[j] = NoEntry
               /\ cooldown_expirations[j] <= now[r]
      /\ \/ /\ cooldown_expirations[k] > now[r]
            /\ cooldown_expirations'[k] = cooldown_expirations[k]
            /\ Respond(r, "cooldown")
            /\ UNCHANGED cooldown_at
         \/ /\ cooldown_expirations[k] <= now[r]
            /\ cooldown_expirations'[k] = CooldownEnd(now[r])
            /\ cooldown_at' = [cooldown_at EXCEPT ![r] = clock]
            /\ \E step \in {"cooldown", "enqueue"} :
                  /\ pc' = [pc EXCEPT ![r] = step]
                  /\ step = "cooldown" => delivery[r].cooldown_key # NoKey
            /\ UNCHANGED answer
      /\ UNCHANGED <<clock, delivery, now, dedup_expirations, dedup_at>>
  BY <1>0, CooldownEffect
<1>2. /\ clock \in Nat
      /\ \A q \in Requests :
            /\ now[q] \in Nat
            /\ now[q] <= clock
            /\ delivery[q] \in DeliveryType
            /\ delivery[q].dedup_key \in DedupKeys
            /\ delivery[q].cooldown_key \in CooldownKeys \cup {NoKey}
      /\ \A j \in CooldownKeys : cooldown_expirations[j] \in Nat \cup {NoEntry}
      /\ cooldown_at \in [Requests -> Nat \cup {NoEntry}]
      /\ pc \in [Requests -> {"idle", "limit", "dedup", "cooldown", "enqueue",
                              "done"}]
      /\ answer \in [Requests -> Answers]
  BY DEF TypeOK, DeliveryType, ReadingsPast
<1> HIDE DEF k
<1>3. \A q \in Requests :
         /\ Marked(q)' <=> Marked(q)
         /\ Cooling(q) => Cooling(q)'
         /\ Cooling(q)' => Cooling(q) \/ q = r
  BY <1>1, <1>2 DEF Marked, Cooling, NoEntry
<1>4. ReadingsPast'
  <2> SUFFICES ASSUME NEW q \in Requests
               PROVE  /\ now'[q] <= clock'
                      /\ Marked(q)' \/ Cooling(q)' => pc'[q] # "idle"
                      /\ answer'[q] # "none" => pc'[q] = "done"
                      /\ pc'[q] = "cooldown" => delivery'[q].cooldown_key # NoKey
    BY DEF ReadingsPast
  <2>1. now'[q] <= clock'
    BY <1>1, <1>2
  <2>2. CASE q # r
    <3>1. pc'[q] = pc[q] /\ answer'[q] = answer[q]
      BY <1>1, <1>2, <2>2 DEF Respond
    <3> QED
      BY <1>1, <1>3, <2>1, <2>2, <3>1 DEF ReadingsPast
  <2>3. CASE q = r
    <3>1. CASE Respond(r, "cooldown")
      BY <1>1, <1>2, <2>1, <2>3, <3>1 DEF Respond
    <3>2. ASSUME NEW step \in {"cooldown", "enqueue"},
                 pc' = [pc EXCEPT ![r] = step],
                 step = "cooldown" => delivery[r].cooldown_key # NoKey,
                 UNCHANGED answer
          PROVE  /\ pc'[q] = step
                 /\ answer'[q] = "none"
                 /\ pc'[q] = "cooldown" => delivery'[q].cooldown_key # NoKey
      BY <1>1, <1>2, <2>3, <3>2 DEF ReadingsPast
    <3> QED
      BY <1>1, <2>1, <3>1, <3>2
  <2> QED
    BY <2>2, <2>3
<1>5. CooldownCovered'
  <2> SUFFICES ASSUME NEW q \in Requests, Cooling(q)'
               PROVE  /\ delivery[q].cooldown_key # NoKey
                      /\ \/ cooldown_expirations'[delivery[q].cooldown_key] >= CooldownEnd(now[q])
                         \/ clock >= CooldownEnd(now[q])
    BY <1>1 DEF CooldownCovered, CooldownEnd
  <2>1. CooldownEnd(now[q]) = now[q] + CooldownTtl /\ CooldownEnd(now[r]) = now[r] + CooldownTtl
    BY DEF CooldownEnd
  <2>2. CASE ~Cooling(q)
    <3>1. q = r /\ cooldown_expirations'[k] = CooldownEnd(now[r])
      <4>1. q = r
        BY <1>3, <2>2
      <4>2. cooldown_at' # cooldown_at
        BY <2>2, <4>1 DEF Marked, Cooling
      <4> QED
        BY <1>1, <4>1, <4>2
    <3> QED
      BY <1>1, <1>2, <2>1, <3>1 DEF k
  <2>3. CASE Cooling(q)
    <3> DEFINE j == delivery[q].cooldown_key
    <3>1. j \in CooldownKeys
      BY <1>2, <2>3 DEF CooldownCovered
    <3>2. cooldown_expirations[j] >= CooldownEnd(now[q]) \/ clock >= CooldownEnd(now[q])
      BY <2>3 DEF CooldownCovered
    <3>3. \/ cooldown_expirations'[j] = cooldown_expirations[j]
          \/ cooldown_expirations[j] <= now[r]
      BY <1>1, <3>1
    <3> QED
      BY <1>2, <2>1, <2>3, <3>1, <3>2, <3>3 DEF NoEntry, CooldownCovered
  <2> QED
    BY <2>2, <2>3
<1>6. DedupCovered'
  BY <1>1, <1>3 DEF DedupCovered, DedupEnd
<1>7. CooldownOwned'
  <2> SUFFICES ASSUME NEW j \in CooldownKeys, cooldown_expirations'[j] # NoEntry
               PROVE  \E q \in Requests :
                         /\ Cooling(q)'
                         /\ delivery[q].cooldown_key = j
                         /\ cooldown_expirations'[j] = CooldownEnd(now[q])
    BY <1>1 DEF CooldownOwned, CooldownEnd
  <2>1. CASE cooldown_expirations'[j] = cooldown_expirations[j]
    BY <1>3, <2>1 DEF CooldownOwned
  <2>2. CASE cooldown_expirations'[j] # cooldown_expirations[j]
    <3>1. /\ j = k
          /\ cooldown_expirations'[j] = CooldownEnd(now[r])
          /\ cooldown_at' = [cooldown_at EXCEPT ![r] = clock]
      BY <1>1, <2>2
    <3>2. Cooling(r)'
      BY <1>2, <3>1 DEF Marked, Cooling, NoEntry
    <3> QED
      BY <3>1, <3>2 DEF k
  <2> QED
    BY <2>1, <2>2
<1>8. DedupOwned'
  BY <1>1, <1>3 DEF DedupOwned, DedupEnd
<1>9. CooldownWindow'
  <2>1. CASE UNCHANGED cooldown_at
    BY <1>1, <2>1 DEF CooldownWindow, Marked, Cooling, SameEvent, SameEntity
  <2>2. CASE /\ cooldown_expirations[k] <= now[r]
             /\ cooldown_at' = [cooldown_at EXCEPT ![r] = clock]
    <3>1. \A q \in Requests : Cooling(q) /\ SameEntity(r, q) => clock >= now[q] + CooldownTtl
      <4> SUFFICES ASSUME NEW q \in Requests, Cooling(q), SameEntity(r, q)
                   PROVE  clock >= now[q] + CooldownTtl
        OBVIOUS
      <4>1. delivery[q].cooldown_key = k
        BY DEF SameEntity, k
      <4>2. cooldown_expirations[k] >= now[q] + CooldownTtl \/ clock >= now[q] + CooldownTtl
        BY <4>1 DEF CooldownCovered, CooldownEnd
      <4> QED
        BY <1>1, <1>2, <2>2, <4>2 DEF NoEntry
    <3>2. cooldown_at'[r] = clock
      BY <1>2, <2>2
    <3>3. \A q \in Requests \ {r} : cooldown_at'[q] = cooldown_at[q] /\ (Cooling(q)' <=> Cooling(q))
      BY <1>2, <2>2 DEF Marked, Cooling
    <3>4. \A p, q \in Requests :
             /\ SameEntity(p, q)' <=> SameEntity(p, q)
             /\ SameEntity(p, q) <=> SameEntity(q, p)
      BY <1>1 DEF SameEntity
    <3> SUFFICES ASSUME NEW p \in Requests, NEW q \in Requests, p # q,
                        Cooling(p)', Cooling(q)', SameEntity(p, q)
                 PROVE  \/ cooldown_at'[q] >= now[p] + CooldownTtl
                        \/ cooldown_at'[p] >= now[q] + CooldownTtl
      BY <1>1, <3>4 DEF CooldownWindow
    <3>5. CASE p = r
      BY <3>1, <3>2, <3>3, <3>5
    <3>6. CASE q = r
      BY <3>1, <3>2, <3>3, <3>4, <3>6
    <3>7. CASE p # r /\ q # r
      BY <3>3, <3>7 DEF CooldownWindow
    <3> QED
      BY <3>5, <3>6, <3>7
  <2> QED
    BY <1>1, <2>1, <2>2
<1>10. DedupWindow'
  BY <1>1, <1>3 DEF DedupWindow, SameEvent
<1>11. SuppressionHasCause'
  <2>1. \A p, q \in Requests : /\ SameEvent(p, q)' <=> SameEvent(p, q)
                               /\ SameEntity(p, q)' <=> SameEntity(p, q)
    BY <1>1 DEF SameEvent, SameEntity
  <2>2. CASE UNCHANGED answer
    BY <1>1, <1>3, <2>1, <2>2 DEF SuppressionHasCause
  <2>3. CASE cooldown_expirations[k] > now[r] /\ Respond(r, "cooldown")
    <3>1. PICK q \in Requests :
             /\ Cooling(q)
             /\ delivery[q].cooldown_key = k
             /\ cooldown_expirations[k] = CooldownEnd(now[q])
      BY <1>1, <1>2, <2>3 DEF CooldownOwned, NoEntry
    <3>2. Cooling(q)' /\ SameEntity(r, q) /\ now[q] + CooldownTtl > now[r]
      BY <1>2, <1>3, <2>3, <3>1 DEF SameEntity, k, CooldownEnd
    <3>3. \A p \in Requests \ {r} : answer'[p] = answer[p]
      BY <1>2, <2>3 DEF Respond
    <3>4. answer'[r] = "cooldown"
      BY <1>2, <2>3 DEF Respond
    <3> SUFFICES ASSUME NEW p \in Requests
                 PROVE  /\ answer'[p] = "duplicate" =>
                            \E t \in Requests :
                               /\ Marked(t)' /\ SameEvent(p, t)
                               /\ now[t] + DedupTtl > now[p]
                        /\ answer'[p] = "cooldown" =>
                            \E t \in Requests :
                               /\ Cooling(t)' /\ SameEntity(p, t)
                               /\ now[t] + CooldownTtl > now[p]
      BY <1>1, <2>1 DEF SuppressionHasCause
    <3>5. CASE p = r
      BY <3>2, <3>4, <3>5
    <3>6. CASE p # r
      BY <1>3, <3>3, <3>6 DEF SuppressionHasCause
    <3> QED
      BY <3>5, <3>6
  <2> QED
    BY <1>1, <2>2, <2>3
<1> QED
  BY <1>4, <1>5, <1>6, <1>7, <1>8, <1>9, <1>10, <1>11

-----------------------------------------------------------------------------
(***************************************************************************)
(* The results.                                                            *)
(***************************************************************************)
\* The maps are empty at first, and no request has been answered.
LEMMA InitAdmissionInv == Init => AdmissionInv
<1> SUFFICES ASSUME Init PROVE AdmissionInv
  OBVIOUS
<1>1. TypeOK
  BY InitTypeOK
<1>2. \A r \in Requests : /\ ~Marked(r) /\ ~Cooling(r)
                          /\ pc[r] = "idle" /\ answer[r] = "none"
                          /\ now[r] = 0 /\ clock = 0
  BY DEF Init, Marked, Cooling
<1>3. /\ \A k \in DedupKeys : dedup_expirations[k] = NoEntry
      /\ \A k \in CooldownKeys : cooldown_expirations[k] = NoEntry
  BY DEF Init
<1>4. ReadingsPast /\ DedupCovered /\ CooldownCovered
  BY <1>2 DEF ReadingsPast, DedupCovered, CooldownCovered
<1>5. DedupOwned /\ CooldownOwned
  BY <1>3 DEF DedupOwned, CooldownOwned
<1>6. DedupWindow /\ CooldownWindow /\ SuppressionHasCause
  BY <1>2 DEF DedupWindow, CooldownWindow, SuppressionHasCause
<1> QED
  BY <1>1, <1>4, <1>5, <1>6 DEF AdmissionInv

\* Every step of every handler, and the clock, preserve the invariant.
LEMMA NextAdmissionInv == AdmissionInv /\ [Next]_vars => AdmissionInv'
<1> SUFFICES ASSUME AdmissionInv, [Next]_vars PROVE AdmissionInv'
  OBVIOUS
<1>1. TypeOK' /\ TypeOK
  BY NextTypeOK DEF AdmissionInv
<1>2. clock \in Nat
  BY <1>1 DEF TypeOK
<1>3. CASE UNCHANGED vars
  BY <1>1, <1>2, <1>3, QuietStep DEF vars
<1>4. CASE Tick
  BY <1>1, <1>2, <1>4, QuietStep DEF Tick, store
<1>5. ASSUME NEW r \in Requests, Arrive(r) PROVE AdmissionInv'
  <2>1. UNCHANGED <<clock, delivery, dedup_expirations, cooldown_expirations,
                    dedup_at, cooldown_at>>
    BY <1>5 DEF Arrive, store
  <2>2. \A q \in Requests :
           /\ now'[q] = now[q] \/ (pc[q] = "idle" /\ now'[q] = clock)
           /\ \/ pc'[q] = pc[q] /\ answer'[q] = answer[q]
              \/ /\ pc[q] # "done"
                 /\ pc'[q] \notin {"idle", "cooldown"}
                 /\ answer'[q] # "none" => pc'[q] = "done"
                 /\ answer'[q] \notin {"duplicate", "cooldown"}
    BY <1>1, <1>5 DEF Arrive, Respond, Goto, TypeOK, AdmissionInv, ReadingsPast
  <2> QED
    BY <1>1, <1>2, <2>1, <2>2, QuietStep
<1>6. ASSUME NEW r \in Requests, LimitSource(r) PROVE AdmissionInv'
  <2>1. UNCHANGED <<clock, delivery, now, dedup_expirations,
                    cooldown_expirations, dedup_at, cooldown_at>>
    BY <1>6 DEF LimitSource, store
  <2>2. \A q \in Requests :
           \/ pc'[q] = pc[q] /\ answer'[q] = answer[q]
           \/ /\ pc[q] # "done"
              /\ pc'[q] \notin {"idle", "cooldown"}
              /\ answer'[q] # "none" => pc'[q] = "done"
              /\ answer'[q] \notin {"duplicate", "cooldown"}
    BY <1>1, <1>6 DEF LimitSource, Respond, Goto, TypeOK, AdmissionInv,
                      ReadingsPast
  <2> QED
    BY <1>1, <1>2, <2>1, <2>2, QuietStep
<1>7. ASSUME NEW r \in Requests, CheckDedup(r) PROVE AdmissionInv'
  BY <1>1, <1>7, DedupStep
<1>8. ASSUME NEW r \in Requests, CheckCooldown(r) PROVE AdmissionInv'
  BY <1>1, <1>8, CooldownStep
<1>9. ASSUME NEW r \in Requests, Enqueue(r) PROVE AdmissionInv'
  <2>1. UNCHANGED <<clock, delivery, now, dedup_expirations,
                    cooldown_expirations, dedup_at, cooldown_at>>
    BY <1>9 DEF Enqueue, store
  <2>2. \A q \in Requests :
           \/ pc'[q] = pc[q] /\ answer'[q] = answer[q]
           \/ /\ pc[q] # "done"
              /\ pc'[q] \notin {"idle", "cooldown"}
              /\ answer'[q] # "none" => pc'[q] = "done"
              /\ answer'[q] \notin {"duplicate", "cooldown"}
    BY <1>1, <1>9 DEF Enqueue, Respond, TypeOK
  <2> QED
    BY <1>1, <1>2, <2>1, <2>2, QuietStep
<1> QED
  BY <1>3, <1>4, <1>5, <1>6, <1>7, <1>8, <1>9 DEF Next

\* The invariant of the admission pipeline holds in every reachable state; in
\* particular every variable keeps its type and the limiter's count never
\* exceeds limit_per_minute.
THEOREM AdmissionInvariance == Spec => []AdmissionInv
  BY InitAdmissionInv, NextAdmissionInv, PTL DEF Spec

\* Whatever the handlers do, the store and the limiter keep well-typed entries
\* and no window counts more requests than limit_per_minute.
THEOREM TypeCorrect == Spec => []TypeOK
<1>1. AdmissionInv => TypeOK
  BY DEF AdmissionInv
<1> QED
  BY <1>1, AdmissionInvariance, PTL

\* Two requests with the same dedup key pass the store at least
\* dedup_ttl_seconds apart, in whatever order threads reach it.
THEOREM DedupWindowHolds == Spec => []DedupWindow
<1>1. AdmissionInv => DedupWindow
  BY DEF AdmissionInv
<1> QED
  BY <1>1, AdmissionInvariance, PTL

\* Two events of one entity pass the cooldown at least cooldown_seconds apart.
THEOREM CooldownWindowHolds == Spec => []CooldownWindow
<1>1. AdmissionInv => CooldownWindow
  BY DEF AdmissionInv
<1> QED
  BY <1>1, AdmissionInvariance, PTL

\* No request is suppressed without another one that passed and whose window
\* is not over.
THEOREM SuppressionCaused == Spec => []SuppressionHasCause
<1>1. AdmissionInv => SuppressionHasCause
  BY DEF AdmissionInv
<1> QED
  BY <1>1, AdmissionInvariance, PTL

-----------------------------------------------------------------------------
(***************************************************************************)
(* The rate limiter.  A window that has counted belongs to the minute of a *)
(* request it let pass; in time order that is the latest minute, so no     *)
(* window of an earlier minute is started a second time.                   *)
(***************************************************************************)
Passed == {counted[i] : i \in DOMAIN counted}
Of(s) == {r \in Passed : delivery[r].source = s}

\* allow() is behind a request that was counted: it is not counted again and
\* its time is read.
CountedPast == \A r \in Passed : pc[r] \notin {"idle", "limit"}

\* A window with a count is the window of a request that passed.
WindowOwned ==
    \A s \in Sources :
        /\ windows[s].count = 0 => Of(s) = {}
        /\ windows[s].count # 0 =>
              \E q \in Of(s) : Minute(now[q]) = windows[s].minute_bucket

\* In time order the window is that of the latest minute and has counted all
\* the requests of that minute.
WindowLatest ==
    \A s \in Sources : InTimeOrder(s) =>
        /\ \A q \in Of(s) : Minute(now[q]) <= windows[s].minute_bucket
        /\ \A m \in Nat :
              /\ IsFiniteSet(PassedIn(s, m))
              /\ Cardinality(PassedIn(s, m)) <= LimitPerMinute
              /\ m = windows[s].minute_bucket =>
                    Cardinality(PassedIn(s, m)) <= windows[s].count

LimiterInv == CountedPast /\ WindowOwned /\ WindowLatest

\* Before the first request nothing has passed.
LEMMA InitLimiterInv == Init => LimiterInv
<1> SUFFICES ASSUME Init
             PROVE  LimiterInv
  OBVIOUS
<1>1. Passed = {} /\ \A s \in Sources : Of(s) = {} /\ windows[s].count = 0
  BY DEF Init, Passed, Of
<1>2. \A s \in Sources, m \in Nat : PassedIn(s, m) = {}
  BY <1>1 DEF PassedIn, Passed
<1>3. WindowLatest
  BY <1>1, <1>2, FS_EmptySet, AdmissionAssumption DEF WindowLatest
<1> QED
  BY <1>1, <1>3 DEF LimiterInv, CountedPast, WindowOwned

\* A step that leaves the limiter alone, and the readings of the requests it
\* has counted, keeps what is known of it.
LEMMA LimiterIdle ==
  ASSUME LimiterInv, UNCHANGED <<windows, counted, delivery>>,
         \A r \in Passed : now'[r] = now[r] /\ pc'[r] \notin {"idle", "limit"}
  PROVE  LimiterInv'
<1>1. Passed' = Passed
  BY DEF Passed
<1>2. \A s \in Sources : Of(s)' = Of(s)
  BY <1>1 DEF Of
<1>3. \A r \in Passed : Minute(now[r])' = Minute(now[r])
  BY DEF Minute
<1>4. ASSUME NEW s \in Sources, NEW m \in Nat
      PROVE  PassedIn(s, m)' = PassedIn(s, m)
  BY <1>3 DEF PassedIn, Passed
<1>5. ASSUME NEW s \in Sources, InTimeOrder(s)'
      PROVE  InTimeOrder(s)
  <2>1. \A i \in DOMAIN counted : counted[i] \in Passed
    BY DEF Passed
  <2> QED
    BY <1>3, <1>5, <2>1 DEF InTimeOrder
<1>6. CountedPast'
  BY <1>1 DEF CountedPast
<1>7. WindowOwned'
  <2>1. \A s \in Sources : Of(s) \subseteq Passed
    BY DEF Of
  <2> QED
    BY <1>2, <1>3, <2>1 DEF LimiterInv, WindowOwned
<1>8. WindowLatest'
  <2> SUFFICES ASSUME NEW s \in Sources, InTimeOrder(s)'
               PROVE  /\ \A q \in Of(s)' : Minute(now[q])' <= windows'[s].minute_bucket
                      /\ \A m \in Nat :
                            /\ IsFiniteSet(PassedIn(s, m)')
                            /\ Cardinality(PassedIn(s, m)') <= LimitPerMinute
                            /\ m = windows'[s].minute_bucket =>
                                  Cardinality(PassedIn(s, m)') <= windows'[s].count
    BY DEF WindowLatest
  <2>1. InTimeOrder(s)
    BY <1>5
  <2>2. /\ \A q \in Of(s) : Minute(now[q]) <= windows[s].minute_bucket
        /\ \A m \in Nat :
              /\ IsFiniteSet(PassedIn(s, m))
              /\ Cardinality(PassedIn(s, m)) <= LimitPerMinute
              /\ m = windows[s].minute_bucket =>
                    Cardinality(PassedIn(s, m)) <= windows[s].count
    BY <2>1 DEF LimiterInv, WindowLatest
  <2>3. \A q \in Of(s) : q \in Passed
    BY DEF Of
  <2> QED
    BY <1>2, <1>3, <1>4, <2>2, <2>3
<1> QED
  BY <1>6, <1>7, <1>8 DEF LimiterInv

\* A refusal leaves the window as it is, unless the limit is 0 and nothing has
\* ever passed.
LEMMA DisallowStep ==
  ASSUME TypeOK, LimiterInv, NEW r \in Requests, Disallow(r),
         UNCHANGED <<delivery, now>>,
         \A q \in Passed : pc'[q] \notin {"idle", "limit"}
  PROVE  LimiterInv'
<1> DEFINE t == delivery[r].source
           w == WindowFor(t, now[r])
<1>1. t \in Sources /\ now[r] \in Nat /\ LimitPerMinute \in Nat
  BY AdmissionAssumption DEF TypeOK, DeliveryType
<1>2. w \in [minute_bucket : Nat \cup {NoEntry}, count : 0..LimitPerMinute]
  BY <1>1, WindowType
<1>3. w.count >= LimitPerMinute /\ windows' = [windows EXCEPT ![t] = w]
      /\ counted' = counted
  BY DEF Disallow
<1>4. w = windows[t] \/ w.count = 0
  BY DEF WindowFor
<1> HIDE DEF w
<1>5. CASE w = windows[t]
  <2>1. windows' = windows
    BY <1>1, <1>3, <1>5 DEF TypeOK
  <2> QED
    BY <1>3, <2>1, LimiterIdle
<1>6. CASE w.count = 0
  <2>1. LimitPerMinute = 0
    BY <1>1, <1>3, <1>6
  <2>2. \A s \in Sources : windows[s].count = 0 /\ windows'[s].count = 0
    <3>1. \A s \in Sources : windows[s].count \in 0..LimitPerMinute
      BY DEF TypeOK
    <3>2. windows \in [Sources -> [minute_bucket : Nat \cup {NoEntry},
                                   count : 0..LimitPerMinute]]
      BY DEF TypeOK
    <3> QED
      BY <1>1, <1>3, <1>6, <2>1, <3>1, <3>2
  <2>3. \A s \in Sources : Of(s) = {}
    BY <2>2 DEF LimiterInv, WindowOwned
  <2>4. Passed' = Passed /\ \A s \in Sources : Of(s)' = {}
    BY <1>3, <2>3 DEF Passed, Of
  <2>5. \A s \in Sources, m \in Nat : PassedIn(s, m)' = {}
    BY <2>4 DEF PassedIn, Of, Passed
  <2>6. WindowOwned'
    BY <2>2, <2>4 DEF WindowOwned
  <2>7. WindowLatest'
    <3>1. IsFiniteSet({}) /\ Cardinality({}) = 0
      BY FS_EmptySet
    <3>2. \A s \in Sources, m \in Nat :
             /\ IsFiniteSet(PassedIn(s, m)')
             /\ Cardinality(PassedIn(s, m)') <= LimitPerMinute
             /\ Cardinality(PassedIn(s, m)') <= windows'[s].count
      BY <2>1, <2>2, <2>5, <3>1
    <3> QED
      BY <2>4, <3>2 DEF WindowLatest
  <2>8. CountedPast'
    BY <2>4 DEF CountedPast
  <2> QED
    BY <2>6, <2>7, <2>8 DEF LimiterInv
<1> QED
  BY <1>4, <1>5, <1>6

\* A request that passes counts in the window of its minute.
LEMMA AllowStep ==
  ASSUME TypeOK, LimiterInv, NEW r \in Requests, Allow(r),
         UNCHANGED <<delivery, now>>,
         \A q \in Passed \cup {r} : pc'[q] \notin {"idle", "limit"}
  PROVE  LimiterInv'
<1> DEFINE t == delivery[r].source
           w == WindowFor(t, now[r])
           n == Minute(now[r])
<1>1. /\ t \in Sources /\ now[r] \in Nat /\ LimitPerMinute \in Nat
      /\ n \in Nat /\ counted \in Seq(Requests)
  <2>1. t \in Sources /\ now[r] \in Nat /\ counted \in Seq(Requests)
    BY DEF TypeOK, DeliveryType
  <2>2. Minute(now[r]) \in Nat /\ LimitPerMinute \in Nat
    BY <2>1, AdmissionAssumption DEF Minute
  <2> QED
    BY <2>1, <2>2
<1>2. /\ w.count < LimitPerMinute
      /\ windows' = [windows EXCEPT ![t] = [w EXCEPT !.count = @ + 1]]
      /\ counted' = Append(counted, r)
  BY DEF Allow
<1>3. w \in [minute_bucket : Nat \cup {NoEntry}, count : 0..LimitPerMinute]
  BY <1>1, WindowType
<1>4. /\ w.minute_bucket = n
      /\ \/ windows[t].minute_bucket = n /\ w.count = windows[t].count
         \/ windows[t].minute_bucket # n /\ w.count = 0
  BY DEF WindowFor
<1> HIDE DEF w
<1>5. /\ windows'[t].minute_bucket = n /\ windows'[t].count = w.count + 1
      /\ \A s \in Sources \ {t} : windows'[s] = windows[s]
      /\ w.count \in 0..LimitPerMinute
  <2>1. windows \in [Sources -> [minute_bucket : Nat \cup {NoEntry},
                                 count : 0..LimitPerMinute]]
    BY DEF TypeOK
  <2> QED
    BY <1>1, <1>2, <1>3, <1>4, <2>1
<1>6. /\ Len(counted) \in Nat /\ DOMAIN counted = 1..Len(counted)
      /\ DOMAIN counted' = 1..(Len(counted) + 1)
      /\ \A i \in DOMAIN counted : counted'[i] = counted[i]
      /\ counted'[Len(counted) + 1] = r
  <2>1. counted' \in Seq(Requests) /\ Len(counted') = Len(counted) + 1
    BY <1>1, <1>2, AppendProperties
  <2> QED
    BY <1>1, <1>2, <2>1, AppendProperties, LenProperties
<1>7. Passed' = Passed \cup {r}
  <2>1. Passed' \subseteq Passed \cup {r}
    BY <1>6 DEF Passed
  <2>2. Passed \subseteq Passed'
    BY <1>6 DEF Passed
  <2>3. r \in Passed'
    <3>1. Len(counted) + 1 \in DOMAIN counted'
      BY <1>6
    <3> QED
      BY <1>6, <3>1 DEF Passed
  <2> QED
    BY <2>1, <2>2, <2>3
<1>8. /\ Of(t)' = Of(t) \cup {r}
      /\ \A s \in Sources \ {t} : Of(s)' = Of(s)
  BY <1>7 DEF Of
<1>9. \A q : Minute(now[q])' = Minute(now[q])
  BY DEF Minute
<1>10. ASSUME NEW s \in Sources, NEW m \in Nat
       PROVE  PassedIn(s, m)' = IF s = t /\ m = n THEN PassedIn(s, m) \cup {r}
                                ELSE PassedIn(s, m)
  <2>1. PassedIn(s, m)' = {q \in Passed \cup {r} :
                             delivery[q].source = s /\ Minute(now[q]) = m}
    BY <1>7, <1>9 DEF PassedIn, Passed
  <2>2. PassedIn(s, m) = {q \in Passed : delivery[q].source = s /\ Minute(now[q]) = m}
    BY DEF PassedIn, Passed
  <2> QED
    BY <2>1, <2>2
<1>11. ASSUME NEW s \in Sources, InTimeOrder(s)'
       PROVE  /\ InTimeOrder(s)
              /\ s = t => \A q \in Of(t) : Minute(now[q]) <= n
  <2>1. InTimeOrder(s)
    BY <1>6, <1>9, <1>11 DEF InTimeOrder
  <2>2. ASSUME s = t, NEW q \in Of(t)
        PROVE  Minute(now[q]) <= n
    <3>1. PICK i \in DOMAIN counted : counted[i] = q
      BY <2>2 DEF Of, Passed
    <3>2. /\ i \in DOMAIN counted' /\ Len(counted) + 1 \in DOMAIN counted'
          /\ i < Len(counted) + 1
      BY <1>6, <3>1
    <3>3. delivery'[counted'[i]].source = s /\ counted'[i] = q
      BY <1>6, <2>2, <3>1 DEF Of
    <3>4. delivery'[counted'[Len(counted) + 1]].source = s
      BY <1>6, <2>2
    <3> QED
      BY <1>6, <1>9, <1>11, <3>2, <3>3, <3>4 DEF InTimeOrder
  <2> QED
    BY <2>1, <2>2
<1>12. CountedPast'
  BY <1>7 DEF CountedPast
<1>13. WindowOwned'
  <2>1. windows'[t].count # 0 /\ r \in Of(t)' /\ Minute(now[r])' = windows'[t].minute_bucket
    BY <1>5, <1>8, <1>9
  <2> QED
    BY <1>5, <1>8, <1>9, <2>1 DEF LimiterInv, WindowOwned
<1>14. WindowLatest'
  <2> SUFFICES ASSUME NEW s \in Sources, InTimeOrder(s)'
               PROVE  /\ \A q \in Of(s)' : Minute(now[q])' <= windows'[s].minute_bucket
                      /\ \A m \in Nat :
                            /\ IsFiniteSet(PassedIn(s, m)')
                            /\ Cardinality(PassedIn(s, m)') <= LimitPerMinute
                            /\ m = windows'[s].minute_bucket =>
                                  Cardinality(PassedIn(s, m)') <= windows'[s].count
    BY DEF WindowLatest
  <2>1. /\ \A q \in Of(s) : Minute(now[q]) <= windows[s].minute_bucket
        /\ \A m \in Nat :
              /\ IsFiniteSet(PassedIn(s, m))
              /\ Cardinality(PassedIn(s, m)) <= LimitPerMinute
              /\ m = windows[s].minute_bucket =>
                    Cardinality(PassedIn(s, m)) <= windows[s].count
    BY <1>11 DEF LimiterInv, WindowLatest
  <2>2. CASE s # t
    BY <1>5, <1>8, <1>9, <1>10, <2>1, <2>2
  <2>3. CASE s = t
    <3>1. \A q \in Of(s)' : Minute(now[q])' <= windows'[s].minute_bucket
      BY <1>1, <1>5, <1>8, <1>9, <1>11, <2>3
    <3>2. Cardinality(PassedIn(t, n)) <= w.count
      <4>1. CASE windows[t].minute_bucket = n
        BY <1>1, <1>4, <2>1, <2>3, <4>1
      <4>2. CASE windows[t].minute_bucket # n
        <5>1. PassedIn(t, n) = {}
          <6> SUFFICES ASSUME NEW q \in PassedIn(t, n) PROVE FALSE
            OBVIOUS
          <6>1. q \in Of(t) /\ Minute(now[q]) = n
            BY DEF PassedIn, Of, Passed
          <6>2. windows[t].count # 0
            BY <1>1, <6>1 DEF LimiterInv, WindowOwned
          <6>3. PICK p \in Of(t) : Minute(now[p]) = windows[t].minute_bucket
            BY <1>1, <6>2 DEF LimiterInv, WindowOwned
          <6>4. windows[t].minute_bucket <= n
            BY <1>11, <2>3, <6>3
          <6>5. n <= windows[t].minute_bucket
            BY <2>1, <2>3, <6>1
          <6>6. windows[t].minute_bucket \in Int
            BY <1>1 DEF TypeOK, NoEntry
          <6> QED
            BY <1>1, <4>2, <6>4, <6>5, <6>6
        <5> QED
          BY <1>4, <4>2, <5>1, FS_EmptySet
      <4> QED
        BY <4>1, <4>2
    <3>3. /\ IsFiniteSet(PassedIn(t, n) \cup {r})
          /\ Cardinality(PassedIn(t, n) \cup {r}) <= w.count + 1
      <4>1. IsFiniteSet(PassedIn(t, n))
        BY <1>1, <2>1, <2>3
      <4>2. Cardinality(PassedIn(t, n)) \in Nat
        BY <4>1, FS_CardinalityType
      <4>3. /\ IsFiniteSet(PassedIn(t, n) \cup {r})
            /\ \/ Cardinality(PassedIn(t, n) \cup {r}) = Cardinality(PassedIn(t, n))
               \/ Cardinality(PassedIn(t, n) \cup {r}) = Cardinality(PassedIn(t, n)) + 1
        BY <4>1, FS_AddElement
      <4> QED
        BY <1>5, <3>2, <4>2, <4>3
    <3>4. Cardinality(PassedIn(t, n) \cup {r}) <= LimitPerMinute
      <4>1. Cardinality(PassedIn(t, n) \cup {r}) \in Nat
        BY <3>3, FS_CardinalityType
      <4> QED
        BY <1>1, <1>2, <1>5, <3>3, <4>1
    <3>5. ASSUME NEW m \in Nat
          PROVE  /\ IsFiniteSet(PassedIn(s, m)')
                 /\ Cardinality(PassedIn(s, m)') <= LimitPerMinute
                 /\ m = windows'[s].minute_bucket =>
                       Cardinality(PassedIn(s, m)') <= windows'[s].count
      <4>1. CASE m = n
        BY <1>5, <1>10, <2>3, <3>3, <3>4, <4>1
      <4>2. CASE m # n
        BY <1>5, <1>10, <2>1, <2>3, <4>2
      <4> QED
        BY <4>1, <4>2
    <3> QED
      BY <3>1, <3>5
  <2> QED
    BY <2>2, <2>3
<1> QED
  BY <1>12, <1>13, <1>14 DEF LimiterInv

\* Every step keeps the limiter's invariant.
LEMMA NextLimiterInv == AdmissionInv /\ LimiterInv /\ [Next]_vars => LimiterInv'
<1> SUFFICES ASSUME AdmissionInv, LimiterInv, [Next]_vars
             PROVE  LimiterInv'
  OBVIOUS
<1>0. /\ TypeOK /\ pc \in [Requests -> {"idle", "limit", "dedup", "cooldown",
                                         "enqueue", "done"}]
      /\ \A q \in Passed : q \in Requests /\ pc[q] \notin {"idle", "limit"}
  <2>1. TypeOK /\ counted \in Seq(Requests)
    BY DEF AdmissionInv, TypeOK
  <2>2. \A i \in DOMAIN counted : counted[i] \in Requests
    BY <2>1, LenProperties
  <2> QED
    BY <2>1, <2>2 DEF LimiterInv, CountedPast, Passed, TypeOK
<1>1. ASSUME NEW r \in Requests,
             \E step \in {"dedup", "cooldown", "enqueue", "done"} :
                 pc' = [pc EXCEPT ![r] = step]
      PROVE  \A q \in Passed \cup {r} : pc'[q] \notin {"idle", "limit"}
  BY <1>0, <1>1
<1>2. CASE UNCHANGED vars \/ Tick
  BY <1>0, <1>2, LimiterIdle DEF Tick, vars, limiter
<1>3. ASSUME NEW r \in Requests, Arrive(r)
      PROVE  LimiterInv'
  <2>1. /\ UNCHANGED <<windows, counted, delivery>> /\ pc[r] = "idle"
        /\ \A q \in Requests \ {r} : pc'[q] = pc[q] /\ now'[q] = now[q]
    BY <1>0, <1>3 DEF Arrive, limiter, Respond, Goto, TypeOK
  <2>2. r \notin Passed
    BY <1>0, <2>1
  <2> QED
    BY <1>0, <2>1, <2>2, LimiterIdle
<1>4. ASSUME NEW r \in Requests, LimitSource(r)
      PROVE  LimiterInv'
  <2>1. \E step \in {"dedup", "cooldown", "enqueue", "done"} :
            pc' = [pc EXCEPT ![r] = step]
    BY <1>4 DEF LimitSource, Respond, Goto
  <2>2. UNCHANGED <<delivery, now>> /\ (Allow(r) \/ Disallow(r))
    BY <1>4 DEF LimitSource
  <2> QED
    BY <1>0, <1>1, <2>1, <2>2, AllowStep, DisallowStep
<1>5. ASSUME NEW r \in Requests, CheckDedup(r) \/ CheckCooldown(r) \/ Enqueue(r)
      PROVE  LimiterInv'
  <2>1. UNCHANGED <<windows, counted, delivery, now>>
    BY <1>5 DEF CheckDedup, CheckCooldown, Enqueue, limiter
  <2>2. \E step \in {"dedup", "cooldown", "enqueue", "done"} :
            pc' = [pc EXCEPT ![r] = step]
    BY <1>5 DEF CheckDedup, CheckCooldown, Enqueue, Respond, Goto
  <2> QED
    BY <1>1, <2>1, <2>2, LimiterIdle
<1> QED
  BY <1>2, <1>3, <1>4, <1>5 DEF Next

\* SourceRateLimiter::allow: at most limit_per_minute requests of a source pass
\* in a minute, as long as none reaches the limiter behind one of a later
\* minute.
THEOREM RateLimitHolds == Spec => []RateLimitInOrder
<1>1. LimiterInv => RateLimitInOrder
  <2> SUFFICES ASSUME LimiterInv, NEW s \in Sources, InTimeOrder(s),
                      NEW m \in 0..Minute(MaxClock)
               PROVE  Cardinality(PassedIn(s, m)) <= LimitPerMinute
    BY DEF RateLimitInOrder
  <2>1. m \in Nat
    BY AdmissionAssumption DEF Minute
  <2> QED
    BY <2>1 DEF LimiterInv, WindowLatest
<1> QED
  BY <1>1, InitLimiterInv, NextLimiterInv, AdmissionInvariance, PTL DEF Spec

============================================================================
