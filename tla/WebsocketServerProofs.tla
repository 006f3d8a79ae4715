----------------------- MODULE WebsocketServerProofs ------------------------
(***************************************************************************)
(* The websocket_server output counts its clients right and leaves a       *)
(* client no gap but the ones the channel makes, for every set of clients, *)
(* every limit and every number of messages.                               *)
(***************************************************************************)
EXTENDS WebsocketServer, SequenceTheorems, FiniteSetTheorems, TLAPS

\* The clients that fetch_add has counted and fetch_sub has not.
CountedClients == {c \in Clients : Counted(c)}

CountExact ==
    /\ IsFiniteSet(CountedClients)
    /\ active_clients = Cardinality(CountedClients)

\* As long as no two handshakes raced, one at most is under way, and there is
\* room for it.
RoomForHandshake ==
    ~raced =>
        /\ active_clients <= max_clients
        /\ \A c \in Clients : session[c] = "upgrading" =>
              /\ active_clients < max_clients
              /\ \A d \in Clients : session[d] = "upgrading" => d = c

\* The message the client is to get next is behind all it has got; one in the
\* session's hands is the last before its cursor.
Done(c) == IF session[c] = "sending" THEN cursor[c] - 2 ELSE cursor[c] - 1

\* m reached the client, or left the channel before the client's turn.
Accounted(c, m) ==
    \/ \E i \in DOMAIN inbox[c] : inbox[c][i] = m
    \/ m + queue_depth_per_client <= broadcasts

Served(c) ==
    session[c] \in {"select", "sending"} =>
        /\ joined[c] <= Done(c)
        /\ \A i \in DOMAIN inbox[c] : inbox[c][i] <= Done(c)
        /\ \A m \in (joined[c] + 1)..Done(c) : Accounted(c, m)

Ascending(c) ==
    \A i \in DOMAIN inbox[c] :
        inbox[c][i] > IF i = 1 THEN joined[c] ELSE inbox[c][i - 1]

ServerInv ==
    /\ TypeOK /\ CountExact /\ RoomForHandshake
    /\ \A c \in Clients : Served(c) /\ Ascending(c)

-----------------------------------------------------------------------------
\* The steps, by where the session of c goes and what else they touch.
LEMMA StepCases ==
  ASSUME [Next]_vars
  PROVE  \/ UNCHANGED vars
         \/ Broadcast
         \/ \E c \in Clients : Admit(c) \/ UpgradeFails(c) \/ Count(c) \/ Subscribe(c)
                               \/ RecvLagged(c) \/ Recv(c) \/ SendOk(c) \/ SendFails(c)
                               \/ Uncount(c) \/ Unsubscribe(c) \/ ClientCloses(c)
  BY DEF Next, ServerStep

\* A session moves and the others stay.
LEMMA Moves ==
  ASSUME TypeOK, NEW c \in Clients, NEW state \in SessionStates, Goto(c, state)
  PROVE  /\ session' \in [Clients -> SessionStates]
         /\ session'[c] = state
         /\ \A d \in Clients \ {c} : session'[d] = session[d]
  BY DEF TypeOK, Goto

\* The set of counted clients follows the session that moves.
LEMMA CountedMoves ==
  ASSUME TypeOK, NEW c \in Clients, NEW state \in SessionStates, Goto(c, state)
  PROVE  CountedClients' =
           IF state \in {"counted", "select", "sending", "leaving"}
             THEN CountedClients \cup {c} ELSE CountedClients \ {c}
<1>1. \A d \in Clients : Counted(d)' <=>
         IF d = c THEN state \in {"counted", "select", "sending", "leaving"}
         ELSE Counted(d)
  BY Moves DEF Counted
<1> QED
  BY <1>1 DEF CountedClients

\* fetch_add and fetch_sub keep the count exact.
LEMMA CountStep ==
  ASSUME TypeOK, CountExact, [Next]_vars
  PROVE  CountExact'
<1>1. CASE UNCHANGED <<active_clients, session>>
  BY <1>1 DEF CountExact, CountedClients, Counted
<1>2. ASSUME UNCHANGED active_clients, CountedClients' = CountedClients
      PROVE  CountExact'
  BY <1>2 DEF CountExact
<1>3. ASSUME NEW c \in Clients, Admit(c) \/ UpgradeFails(c) \/ Unsubscribe(c)
      PROVE  CountExact'
  <2>1. c \notin CountedClients /\ UNCHANGED active_clients
    BY <1>3 DEF Admit, UpgradeFails, Unsubscribe, CountedClients, Counted
  <2>2. \E state \in {"upgrading", "away"} : Goto(c, state)
    BY <1>3 DEF Admit, UpgradeFails, Unsubscribe
  <2>3. CountedClients' = CountedClients \ {c}
    BY <2>2, CountedMoves DEF SessionStates
  <2> QED
    BY <1>2, <2>1, <2>3
<1>4. ASSUME NEW c \in Clients,
             Subscribe(c) \/ Recv(c) \/ SendOk(c) \/ SendFails(c) \/ ClientCloses(c)
      PROVE  CountExact'
  <2>1. c \in CountedClients /\ UNCHANGED active_clients
    BY <1>4 DEF Subscribe, Recv, SendOk, SendFails, ClientCloses, CountedClients,
                Counted
  <2>2. \E state \in {"select", "sending", "leaving"} : Goto(c, state)
    BY <1>4 DEF Subscribe, Recv, SendOk, SendFails, ClientCloses
  <2>3. CountedClients' = CountedClients \cup {c}
    BY <2>2, CountedMoves DEF SessionStates
  <2> QED
    BY <1>2, <2>1, <2>3
<1>5. ASSUME NEW c \in Clients, Count(c)
      PROVE  CountExact'
  <2>1. c \notin CountedClients /\ active_clients' = active_clients + 1
    BY <1>5 DEF Count, CountedClients, Counted
  <2>2. CountedClients' = CountedClients \cup {c}
    BY <1>5, CountedMoves DEF Count, SessionStates
  <2> QED
    BY <2>1, <2>2, FS_AddElement DEF CountExact
<1>6. ASSUME NEW c \in Clients, Uncount(c)
      PROVE  CountExact'
  <2>1. c \in CountedClients /\ active_clients' = active_clients - 1
    BY <1>6 DEF Uncount, CountedClients, Counted
  <2>2. CountedClients' = CountedClients \ {c}
    BY <1>6, CountedMoves DEF Uncount, SessionStates
  <2> QED
    BY <2>1, <2>2, FS_RemoveElement DEF CountExact
<1> QED
  BY <1>1, <1>3, <1>4, <1>5, <1>6, StepCases DEF vars, Broadcast, RecvLagged

\* Every variable has its type initially.
LEMMA InitTypeOK == Init => TypeOK
<1> SUFFICES ASSUME Init
             PROVE  TypeOK
  OBVIOUS
<1>1. <<>> \in Seq(Nat) /\ "away" \in SessionStates /\ 1 \in Nat \ {0}
  BY EmptySeq DEF SessionStates
<1>2. /\ session \in [Clients -> SessionStates] /\ inbox \in [Clients -> Seq(Nat)]
      /\ cursor \in [Clients -> Nat \ {0}]
  BY <1>1 DEF Init
<1> QED
  BY <1>2 DEF Init, TypeOK

\* A session can only be uncounted after it was counted, so the count is never
\* below zero; the other types are kept as well.
LEMMA NextTypeOK == TypeOK /\ CountExact /\ [Next]_vars => TypeOK'
<1> SUFFICES ASSUME TypeOK, CountExact, [Next]_vars
             PROVE  TypeOK'
  OBVIOUS
<1>1. active_clients' \in Nat
  BY CountStep, FS_CardinalityType DEF CountExact
<1>2. CASE UNCHANGED vars \/ Broadcast
  BY <1>1, <1>2 DEF vars, Broadcast, TypeOK
<1>3. ASSUME NEW c \in Clients,
             \E state \in SessionStates : Goto(c, state),
             UNCHANGED <<broadcasts, cursor, joined, inbox>>,
             handshakes' \in {handshakes, [handshakes EXCEPT ![c] = @ + 1]},
             raced' \in BOOLEAN
      PROVE  TypeOK'
  <2>1. session' \in [Clients -> SessionStates]
    BY <1>3, Moves
  <2>2. handshakes' \in [Clients -> Nat]
    BY <1>3 DEF TypeOK
  <2> QED
    BY <1>1, <1>3, <2>1, <2>2 DEF TypeOK
<1>4. ASSUME NEW c \in Clients,
             Admit(c) \/ UpgradeFails(c) \/ Count(c) \/ SendFails(c) \/ Uncount(c)
             \/ Unsubscribe(c) \/ ClientCloses(c)
      PROVE  TypeOK'
  <2>1. \E state \in SessionStates : Goto(c, state)
    BY <1>4 DEF Admit, UpgradeFails, Count, SendFails, Uncount, Unsubscribe,
                ClientCloses, SessionStates
  <2>2. /\ UNCHANGED <<broadcasts, cursor, joined, inbox>>
        /\ handshakes' \in {handshakes, [handshakes EXCEPT ![c] = @ + 1]}
    BY <1>4 DEF Admit, UpgradeFails, Count, SendFails, Uncount, Unsubscribe,
                ClientCloses
  <2>3. raced' \in BOOLEAN
    BY <1>4 DEF Admit, UpgradeFails, Count, SendFails, Uncount, Unsubscribe,
                ClientCloses, TypeOK
  <2> QED
    BY <1>3, <2>1, <2>2, <2>3
<1>5. ASSUME NEW c \in Clients, Subscribe(c)
      PROVE  TypeOK'
  <2>1. session' \in [Clients -> SessionStates]
    BY <1>5, Moves DEF Subscribe, SessionStates
  <2>2. /\ cursor' \in [Clients -> Nat \ {0}] /\ joined' \in [Clients -> Nat]
        /\ inbox' \in [Clients -> Seq(Nat)]
    BY <1>5, EmptySeq DEF Subscribe, TypeOK
  <2> QED
    BY <1>1, <1>5, <2>1, <2>2 DEF Subscribe, TypeOK
<1>6. ASSUME NEW c \in Clients, RecvLagged(c)
      PROVE  TypeOK'
  <2>1. broadcasts + 1 - Buffer \in Nat \ {0}
    BY <1>6, ServerAssumption DEF RecvLagged, Behind, TypeOK
  <2> QED
    BY <1>1, <1>6, <2>1 DEF RecvLagged, TypeOK
<1>7. ASSUME NEW c \in Clients, Recv(c)
      PROVE  TypeOK'
  <2>1. session' \in [Clients -> SessionStates]
    BY <1>7, Moves DEF Recv, SessionStates
  <2>2. cursor' \in [Clients -> Nat \ {0}]
    BY <1>7 DEF Recv, TypeOK
  <2> QED
    BY <1>1, <1>7, <2>1, <2>2 DEF Recv, TypeOK
<1>8. ASSUME NEW c \in Clients, SendOk(c)
      PROVE  TypeOK'
  <2>1. session' \in [Clients -> SessionStates]
    BY <1>8, Moves DEF SendOk, SessionStates
  <2>2. cursor[c] - 1 \in Nat /\ inbox \in [Clients -> Seq(Nat)]
    BY DEF TypeOK
  <2>3. Append(inbox[c], cursor[c] - 1) \in Seq(Nat)
    BY <2>2, AppendProperties
  <2>4. inbox' \in [Clients -> Seq(Nat)]
    BY <1>8, <2>2, <2>3 DEF SendOk
  <2> QED
    BY <1>1, <1>8, <2>1, <2>4 DEF SendOk, TypeOK
<1> QED
  BY <1>2, <1>4, <1>5, <1>6, <1>7, <1>8, StepCases

\* The limit is checked against a count that misses at most the handshakes
\* under way, and a second one of those is a race.
LEMMA RoomStep ==
  ASSUME TypeOK, RoomForHandshake, [Next]_vars
  PROVE  RoomForHandshake'
<1>0. active_clients \in Nat /\ max_clients \in Nat /\ raced \in BOOLEAN
  BY ServerAssumption DEF TypeOK
<1>1. CASE UNCHANGED <<active_clients, session, raced>>
  BY <1>1 DEF RoomForHandshake
<1>2. ASSUME NEW c \in Clients, NEW state \in SessionStates \ {"upgrading"},
             Goto(c, state), raced' = raced,
             \/ active_clients' = active_clients
             \/ active_clients' = active_clients - 1
             \/ active_clients' = active_clients + 1 /\ session[c] = "upgrading"
      PROVE  RoomForHandshake'
  <2>1. /\ session'[c] # "upgrading"
        /\ \A d \in Clients \ {c} : session'[d] = session[d]
    BY <1>2, Moves
  <2>2. CASE active_clients' = active_clients \/ active_clients' = active_clients - 1
    <3>1. \A d \in Clients : session'[d] = "upgrading" => session[d] = "upgrading"
      BY <2>1
    <3> QED
      BY <1>0, <1>2, <2>2, <3>1 DEF RoomForHandshake
  <2>3. CASE active_clients' = active_clients + 1 /\ session[c] = "upgrading"
    <3>1. ~raced => /\ active_clients < max_clients
                    /\ \A d \in Clients : session'[d] # "upgrading"
      BY <2>1, <2>3 DEF RoomForHandshake
    <3> QED
      BY <1>0, <1>2, <2>3, <3>1 DEF RoomForHandshake
  <2> QED
    BY <1>2, <2>2, <2>3
<1>3. ASSUME NEW c \in Clients, Admit(c)
      PROVE  RoomForHandshake'
  <2>1. /\ active_clients < max_clients /\ active_clients' = active_clients
        /\ ~raced' => ~raced /\ \A d \in Clients : session[d] # "upgrading"
    BY <1>3 DEF Admit
  <2>2. \A d \in Clients \ {c} : session'[d] = session[d]
    BY <1>3, Moves DEF Admit, SessionStates
  <2> QED
    BY <1>0, <2>1, <2>2 DEF RoomForHandshake
<1>4. ASSUME NEW c \in Clients,
             UpgradeFails(c) \/ Subscribe(c) \/ Recv(c) \/ SendOk(c) \/ SendFails(c)
             \/ Unsubscribe(c) \/ ClientCloses(c)
      PROVE  RoomForHandshake'
  <2>1. \E state \in SessionStates \ {"upgrading"} : Goto(c, state)
    BY <1>4 DEF UpgradeFails, Subscribe, Recv, SendOk, SendFails, Unsubscribe,
                ClientCloses, SessionStates
  <2>2. raced' = raced /\ active_clients' = active_clients
    BY <1>4 DEF UpgradeFails, Subscribe, Recv, SendOk, SendFails, Unsubscribe,
                ClientCloses
  <2> QED
    BY <1>2, <2>1, <2>2
<1>5. ASSUME NEW c \in Clients, Count(c) \/ Uncount(c)
      PROVE  RoomForHandshake'
  BY <1>2, <1>5 DEF Count, Uncount, SessionStates
<1> QED
  BY <1>1, <1>3, <1>4, <1>5, StepCases DEF vars, Broadcast, RecvLagged

\* What is known of a client outlives the steps that do not concern it.
LEMMA OthersKept ==
  ASSUME TypeOK, TypeOK', NEW d \in Clients, Served(d), Ascending(d),
         session'[d] = session[d] \/ session'[d] \notin {"select", "sending"},
         cursor'[d] = cursor[d], joined'[d] = joined[d], inbox'[d] = inbox[d],
         broadcasts <= broadcasts'
  PROVE  Served(d)' /\ Ascending(d)'
<1>1. Ascending(d)'
  BY DEF Ascending
<1>2. CASE session'[d] \notin {"select", "sending"}
  BY <1>1, <1>2 DEF Served
<1>3. CASE session'[d] = session[d] /\ session[d] \in {"select", "sending"}
  <2>1. Done(d)' = Done(d) /\ Done(d) \in Int /\ joined[d] \in Nat
    BY <1>3 DEF Done, TypeOK
  <2>2. \A m \in Int : Accounted(d, m) => Accounted(d, m)'
    BY ServerAssumption DEF Accounted, TypeOK
  <2> QED
    BY <1>1, <1>3, <2>1, <2>2 DEF Served
<1> QED
  BY <1>2, <1>3

\* Every step of the session keeps its client's inbox in order and without a
\* gap that the channel did not make.
LEMMA ServedStep ==
  ASSUME TypeOK, TypeOK', [Next]_vars, \A c \in Clients : Served(c) /\ Ascending(c)
  PROVE  \A c \in Clients : Served(c)' /\ Ascending(c)'
<1>0. /\ broadcasts \in Nat /\ cursor \in [Clients -> Nat \ {0}]
      /\ joined \in [Clients -> Nat] /\ inbox \in [Clients -> Seq(Nat)]
      /\ queue_depth_per_client \in Nat /\ Buffer \in Nat
      /\ queue_depth_per_client <= Buffer
  BY ServerAssumption DEF TypeOK
<1>1. CASE UNCHANGED vars \/ Broadcast
  <2>1. UNCHANGED <<session, cursor, joined, inbox>> /\ broadcasts <= broadcasts'
    BY <1>0, <1>1 DEF vars, Broadcast
  <2> QED
    BY <2>1, OthersKept
<1>2. ASSUME NEW c \in Clients,
             Admit(c) \/ UpgradeFails(c) \/ Count(c) \/ SendFails(c) \/ Uncount(c)
             \/ Unsubscribe(c) \/ ClientCloses(c)
      PROVE  \A d \in Clients : Served(d)' /\ Ascending(d)'
  <2>1. \E state \in SessionStates \ {"select", "sending"} : Goto(c, state)
    BY <1>2 DEF Admit, UpgradeFails, Count, SendFails, Uncount, Unsubscribe,
                ClientCloses, SessionStates
  <2>2. UNCHANGED <<broadcasts, cursor, joined, inbox>>
    BY <1>2 DEF Admit, UpgradeFails, Count, SendFails, Uncount, Unsubscribe,
                ClientCloses
  <2>3. \A d \in Clients :
           session'[d] = session[d] \/ session'[d] \notin {"select", "sending"}
    BY <2>1, Moves
  <2> QED
    BY <1>0, <2>2, <2>3, OthersKept
<1>3. ASSUME NEW c \in Clients, Subscribe(c)
      PROVE  \A d \in Clients : Served(d)' /\ Ascending(d)'
  <2>1. /\ session'[c] = "select" /\ \A d \in Clients \ {c} : session'[d] = session[d]
    BY <1>3, Moves DEF Subscribe, SessionStates
  <2>2. /\ cursor'[c] = broadcasts + 1 /\ joined'[c] = broadcasts /\ inbox'[c] = <<>>
        /\ \A d \in Clients \ {c} : cursor'[d] = cursor[d] /\ joined'[d] = joined[d]
                                    /\ inbox'[d] = inbox[d]
        /\ broadcasts' = broadcasts
    BY <1>0, <1>3 DEF Subscribe
  <2>3. \A d \in Clients \ {c} : Served(d)' /\ Ascending(d)'
    BY <1>0, <2>1, <2>2, OthersKept
  <2>4. Done(c)' = broadcasts /\ DOMAIN inbox'[c] = {}
    BY <1>0, <2>1, <2>2 DEF Done
  <2>5. Served(c)' /\ Ascending(c)'
    BY <1>0, <2>2, <2>4 DEF Served, Ascending
  <2> QED
    BY <2>3, <2>5
<1>4. ASSUME NEW c \in Clients, RecvLagged(c)
      PROVE  \A d \in Clients : Served(d)' /\ Ascending(d)'
  <2>1. /\ session' = session /\ session[c] = "select"
        /\ cursor'[c] = broadcasts + 1 - Buffer
        /\ \A d \in Clients \ {c} : cursor'[d] = cursor[d]
        /\ UNCHANGED <<broadcasts, joined, inbox>>
    BY <1>0, <1>4 DEF RecvLagged
  <2>2. \A d \in Clients \ {c} : Served(d)' /\ Ascending(d)'
    BY <1>0, <2>1, OthersKept
  <2>3. /\ Done(c) = cursor[c] - 1 /\ Done(c)' = broadcasts - Buffer
        /\ Done(c) <= Done(c)' /\ Done(c) \in Int /\ Done(c)' \in Int
    BY <1>0, <1>4, <2>1 DEF Done, RecvLagged, Behind
  <2>4. /\ joined[c] <= Done(c)
        /\ \A i \in DOMAIN inbox[c] : inbox[c][i] <= Done(c) /\ inbox[c][i] \in Nat
        /\ \A m \in (joined[c] + 1)..Done(c) : Accounted(c, m)
    BY <1>0, <2>1, LenProperties DEF Served
  <2>5. ASSUME NEW m \in (joined[c] + 1)..Done(c)'
        PROVE  Accounted(c, m)'
    <3>1. CASE m <= Done(c)
      BY <1>0, <2>1, <2>3, <2>4, <3>1 DEF Accounted
    <3>2. CASE m > Done(c)
      BY <1>0, <2>1, <2>3, <3>2 DEF Accounted
    <3> QED
      BY <1>0, <2>3, <3>1, <3>2
  <2>6. Ascending(c)'
    BY <2>1 DEF Ascending
  <2>7. Served(c)'
    BY <1>0, <2>1, <2>3, <2>4, <2>5 DEF Served
  <2> QED
    BY <2>2, <2>6, <2>7
<1>5. ASSUME NEW c \in Clients, Recv(c)
      PROVE  \A d \in Clients : Served(d)' /\ Ascending(d)'
  <2>1. /\ session[c] = "select" /\ session'[c] = "sending"
        /\ \A d \in Clients \ {c} : session'[d] = session[d]
    BY <1>5, Moves DEF Recv, SessionStates
  <2>2. /\ cursor'[c] = cursor[c] + 1
        /\ \A d \in Clients \ {c} : cursor'[d] = cursor[d]
        /\ UNCHANGED <<broadcasts, joined, inbox>>
    BY <1>0, <1>5 DEF Recv
  <2>3. \A d \in Clients \ {c} : Served(d)' /\ Ascending(d)'
    BY <1>0, <2>1, <2>2, OthersKept
  <2>4. Done(c)' = Done(c)
    BY <1>0, <2>1, <2>2 DEF Done
  <2>5. Served(c)' /\ Ascending(c)'
    BY <2>1, <2>2, <2>4 DEF Served, Ascending, Accounted
  <2> QED
    BY <2>3, <2>5
<1>6. ASSUME NEW c \in Clients, SendOk(c)
      PROVE  \A d \in Clients : Served(d)' /\ Ascending(d)'
  <2> DEFINE n == Len(inbox[c])
  <2>1. /\ session[c] = "sending" /\ session'[c] = "select"
        /\ \A d \in Clients \ {c} : session'[d] = session[d]
    BY <1>6, Moves DEF SendOk, SessionStates
  <2>2. /\ inbox'[c] = Append(inbox[c], cursor[c] - 1)
        /\ \A d \in Clients \ {c} : inbox'[d] = inbox[d]
        /\ UNCHANGED <<broadcasts, joined, cursor>>
    BY <1>0, <1>6 DEF SendOk
  <2>3. \A d \in Clients \ {c} : Served(d)' /\ Ascending(d)'
    BY <1>0, <2>1, <2>2, OthersKept
  <2>4. /\ n \in Nat /\ DOMAIN inbox[c] = 1..n /\ DOMAIN inbox'[c] = 1..(n + 1)
        /\ \A i \in 1..n : inbox'[c][i] = inbox[c][i] /\ inbox[c][i] \in Nat
        /\ inbox'[c][n + 1] = cursor[c] - 1
    <3>1. inbox[c] \in Seq(Nat) /\ cursor[c] - 1 \in Nat
      BY <1>0
    <3>2. /\ Append(inbox[c], cursor[c] - 1) \in Seq(Nat)
          /\ Len(Append(inbox[c], cursor[c] - 1)) = n + 1
          /\ \A i \in 1..n : Append(inbox[c], cursor[c] - 1)[i] = inbox[c][i]
          /\ Append(inbox[c], cursor[c] - 1)[n + 1] = cursor[c] - 1
      BY <3>1, AppendProperties
    <3> QED
      BY <2>2, <3>1, <3>2, LenProperties
  <2> HIDE DEF n
  <2>5. Done(c) = cursor[c] - 2 /\ Done(c)' = cursor[c] - 1 /\ cursor[c] \in Nat
    BY <1>0, <2>1, <2>2 DEF Done
  <2>6. /\ joined[c] <= Done(c) /\ joined[c] \in Nat
        /\ \A i \in 1..n : inbox[c][i] <= Done(c)
        /\ \A m \in (joined[c] + 1)..Done(c) : Accounted(c, m)
    BY <1>0, <2>1, <2>4 DEF Served
  <2>7. Ascending(c)'
    <3>1. SUFFICES ASSUME NEW i \in 1..(n + 1)
                   PROVE  inbox'[c][i] > IF i = 1 THEN joined[c] ELSE inbox'[c][i - 1]
      BY <2>2, <2>4 DEF Ascending
    <3>2. CASE i \in 1..n
      <4>1. inbox[c][i] > IF i = 1 THEN joined[c] ELSE inbox[c][i - 1]
        BY <2>4, <3>2 DEF Ascending
      <4>2. i # 1 => i - 1 \in 1..n
        BY <2>4, <3>2
      <4> QED
        BY <2>4, <3>2, <4>1, <4>2
    <3>3. CASE i = n + 1
      <4>1. i # 1 => i - 1 \in 1..n
        BY <2>4, <3>3
      <4> QED
        BY <2>4, <2>5, <2>6, <3>3, <4>1
    <3> QED
      BY <2>4, <3>2, <3>3
  <2>8. ASSUME NEW m \in (joined[c] + 1)..Done(c)'
        PROVE  Accounted(c, m)'
    <3>1. CASE m = cursor[c] - 1
      <4>1. n + 1 \in DOMAIN inbox'[c]
        BY <2>4
      <4> QED
        BY <2>4, <3>1, <4>1 DEF Accounted
    <3>2. CASE m \in (joined[c] + 1)..Done(c)
      <4>1. Accounted(c, m)
        BY <2>6, <3>2
      <4>2. \A i \in DOMAIN inbox[c] : i \in DOMAIN inbox'[c] /\ inbox'[c][i] = inbox[c][i]
        BY <2>4
      <4> QED
        BY <2>2, <4>1, <4>2 DEF Accounted
    <3> QED
      BY <2>5, <2>6, <3>1, <3>2
  <2>9. /\ joined'[c] <= Done(c)'
        /\ \A i \in DOMAIN inbox'[c] : inbox'[c][i] <= Done(c)'
    BY <2>2, <2>4, <2>5, <2>6
  <2>10. Served(c)'
    BY <2>2, <2>8, <2>9 DEF Served
  <2> QED
    BY <2>3, <2>7, <2>10
<1> QED
  BY <1>1, <1>2, <1>3, <1>4, <1>5, <1>6, StepCases

-----------------------------------------------------------------------------
(***************************************************************************)
(* The results.                                                            *)
(***************************************************************************)
\* The invariant holds before any client connects.
LEMMA InitServerInv == Init => ServerInv
<1> SUFFICES ASSUME Init
             PROVE  ServerInv
  OBVIOUS
<1>1. \A c \in Clients : session[c] = "away" /\ inbox[c] = <<>>
  BY DEF Init
<1>2. CountedClients = {}
  BY <1>1 DEF CountedClients, Counted
<1>3. CountExact
  BY <1>2, FS_EmptySet DEF CountExact, Init
<1>4. RoomForHandshake
  BY <1>1, ServerAssumption DEF RoomForHandshake, Init
<1>5. \A c \in Clients : DOMAIN inbox[c] = {}
  <2>1. DOMAIN <<>> = {}
    OBVIOUS
  <2> QED
    BY <1>1, <2>1
<1>6. \A c \in Clients : Served(c) /\ Ascending(c)
  BY <1>1, <1>5 DEF Served, Ascending
<1> QED
  BY <1>3, <1>4, <1>6, InitTypeOK DEF ServerInv

\* Every step keeps it.
LEMMA NextServerInv == ServerInv /\ [Next]_vars => ServerInv'
<1> SUFFICES ASSUME ServerInv, [Next]_vars
             PROVE  ServerInv'
  OBVIOUS
<1>0. /\ TypeOK /\ CountExact /\ RoomForHandshake
      /\ \A c \in Clients : Served(c) /\ Ascending(c)
  BY DEF ServerInv
<1>1. TypeOK' /\ CountExact' /\ RoomForHandshake'
  BY <1>0, NextTypeOK, CountStep, RoomStep
<1>2. \A c \in Clients : Served(c)' /\ Ascending(c)'
  BY <1>0, <1>1, ServedStep
<1> QED
  BY <1>1, <1>2 DEF ServerInv

\* The invariant of the websocket server holds in every reachable state.
THEOREM ServerInvariance == Spec => []ServerInv
  BY InitServerInv, NextServerInv, PTL DEF Spec

\* active_clients never wraps below zero, and every other variable keeps its
\* type.
THEOREM TypeCorrect == Spec => []TypeOK
<1>1. ServerInv => TypeOK
  BY DEF ServerInv
<1> QED
  BY <1>1, ServerInvariance, PTL

\* websocket_server_connect_handler exceeds max_clients only after two
\* handshakes passed its check before either was counted.
THEOREM LimitHolds == Spec => []LimitUnlessRaced
<1>1. ServerInv => LimitUnlessRaced
  BY DEF ServerInv, RoomForHandshake, LimitUnlessRaced, TypeOK
<1> QED
  BY <1>1, ServerInvariance, PTL

\* fetch_add and fetch_sub of websocket_server_client_session balance: with
\* every client gone the count is 0.
THEOREM CountBalances == Spec => []CountReturns
<1>1. ASSUME ServerInv, \A c \in Clients : session[c] = "away"
      PROVE  active_clients = 0
  <2>1. CountedClients = {}
    BY <1>1 DEF CountedClients, Counted
  <2> QED
    BY <1>1, <2>1, FS_EmptySet DEF ServerInv, CountExact
<1>2. ServerInv => CountReturns
  BY <1>1 DEF CountReturns
<1> QED
  BY <1>2, ServerInvariance, PTL

\* A session sends its client ascending messages, each after its subscription.
THEOREM InboxOrdered == Spec => []InboxInOrder
<1>1. ServerInv => InboxInOrder
  BY DEF ServerInv, Ascending, InboxInOrder
<1> QED
  BY <1>1, ServerInvariance, PTL

\* What a session has skipped had left the channel: at least
\* queue_depth_per_client newer messages had been broadcast.
THEOREM GapsCaused == Spec => []GapsOnlyByLag
<1>1. ASSUME ServerInv, NEW c \in Clients, session[c] = "select",
             NEW m \in (joined[c] + 1)..(cursor[c] - 1)
      PROVE  Accounted(c, m)
  BY <1>1 DEF ServerInv, Served, Done
<1>2. ServerInv => GapsOnlyByLag
  BY <1>1 DEF GapsOnlyByLag, Accounted
<1> QED
  BY <1>2, ServerInvariance, PTL

============================================================================
