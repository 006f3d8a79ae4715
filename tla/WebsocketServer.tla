-------------------------- MODULE WebsocketServer --------------------------
(***************************************************************************)
(* The websocket_server output of hook-smash: clients connect to it, and   *)
(* deliver() broadcasts an envelope to the ones that are connected.        *)
(* Translated from adapters/egress/websocket_server.rs.                    *)
(*                                                                         *)
(* Messages are the numbers 1..broadcasts.  tokio's broadcast channel is   *)
(* external: it keeps the last Buffer messages, and a receiver that is     *)
(* further behind is moved up to the oldest of them.                       *)
(***************************************************************************)
EXTENDS Integers, Sequences

CONSTANTS
    Clients,                  \* who may connect
    Authorized,               \* the clients that present the token, if one is asked for
    auth_mode,                \* "none", "bearer" or "hmac"
    max_clients,
    queue_depth_per_client,
    Buffer,                   \* the messages broadcast::channel really keeps
    MaxMessages,              \* bound: messages broadcast
    MaxHandshakes             \* bound: handshakes per client

\* smash validate() rejects zero limits and other values of auth_mode.
\* broadcast::channel rounds its capacity up to a power of two.
ASSUME ServerAssumption ==
    /\ Authorized \subseteq Clients
    /\ auth_mode \in {"none", "bearer", "hmac"}
    /\ max_clients \in Nat \ {0}
    /\ queue_depth_per_client \in Nat \ {0}
    /\ Buffer \in queue_depth_per_client..(2 * queue_depth_per_client - 1)
    /\ \E k \in 0..queue_depth_per_client : Buffer = 2 ^ k
    /\ MaxMessages \in Nat
    /\ MaxHandshakes \in Nat

VARIABLES
    active_clients,   \* the AtomicUsize
    broadcasts,       \* messages sent into the channel
    session,          \* session[c]: where the connection of c is
    cursor,           \* cursor[c]: the next message its receiver returns
    joined,           \* joined[c]: messages sent before it subscribed
    inbox,            \* inbox[c]: what c received on this connection
    handshakes,       \* handshakes[c]: bound counter
    raced             \* history: some handshake passed the limit check while
                      \* another had passed it and was not counted yet

vars == <<active_clients, broadcasts, session, cursor, joined, inbox,
          handshakes, raced>>

(***************************************************************************)
(* "upgrading": answered 101 and not yet counted; "counted": fetch_add is  *)
(* done; "select": in the select! of the loop; "sending": a message in     *)
(* hand; "leaving": out of the loop; "uncounted": fetch_sub is done, the   *)
(* receiver not yet dropped.                                               *)
(***************************************************************************)
SessionStates == {"away", "upgrading", "counted", "select", "sending",
                  "leaving", "uncounted"}

Counted(c) == session[c] \in {"counted", "select", "sending", "leaving"}
Subscribed(c) == session[c] \in {"select", "sending", "leaving", "uncounted"}

Init ==
    /\ active_clients = 0
    /\ broadcasts = 0
    /\ session = [c \in Clients |-> "away"]
    /\ cursor = [c \in Clients |-> 1]
    /\ joined = [c \in Clients |-> 0]
    /\ inbox = [c \in Clients |-> <<>>]
    /\ handshakes = [c \in Clients |-> 0]
    /\ raced = FALSE

Goto(c, state) == session' = [session EXCEPT ![c] = state]

-----------------------------------------------------------------------------
\* broadcast(): Ok as soon as one receiver exists, that of a session on its
\* way out too; Err, and no message, without one.
Broadcast ==
    /\ broadcasts < MaxMessages
    /\ \E c \in Clients : Subscribed(c)
    /\ broadcasts' = broadcasts + 1
    /\ UNCHANGED <<active_clients, session, cursor, joined, inbox, handshakes,
                   raced>>

authorize_request(c) == auth_mode = "none" \/ c \in Authorized

\* Fault: the limit itself is let in.
AdmitOneMore(c) ==
    /\ session[c] = "away"
    /\ handshakes[c] < MaxHandshakes
    /\ authorize_request(c)
    /\ active_clients <= max_clients
    /\ Goto(c, "upgrading")
    /\ handshakes' = [handshakes EXCEPT ![c] = @ + 1]
    /\ raced' = (raced \/ \E d \in Clients : session[d] = "upgrading")
    /\ UNCHANGED <<active_clients, broadcasts, cursor, joined, inbox>>

\* websocket_server_connect_handler answers 101; on 401 and 503 the client is
\* where it was.
Admit(c) ==
    /\ session[c] = "away"
    /\ handshakes[c] < MaxHandshakes
    /\ authorize_request(c)
    /\ active_clients < max_clients
    /\ Goto(c, "upgrading")
    /\ handshakes' = [handshakes EXCEPT ![c] = @ + 1]
    /\ raced' = (raced \/ \E d \in Clients : session[d] = "upgrading")
    /\ UNCHANGED <<active_clients, broadcasts, cursor, joined, inbox>>

\* The client goes away before the connection is upgraded.
UpgradeFails(c) ==
    /\ session[c] = "upgrading"
    /\ Goto(c, "away")
    /\ UNCHANGED <<active_clients, broadcasts, cursor, joined, inbox, handshakes,
                   raced>>

\* websocket_server_client_session starts: fetch_add ...
Count(c) ==
    /\ session[c] = "upgrading"
    /\ Goto(c, "counted")
    /\ active_clients' = active_clients + 1
    /\ UNCHANGED <<broadcasts, cursor, joined, inbox, handshakes, raced>>

\* Fault: a client that comes back goes on where it was.
SubscribeResuming(c) ==
    /\ session[c] = "counted"
    /\ Goto(c, "select")
    /\ joined' = [joined EXCEPT ![c] = broadcasts]
    /\ inbox' = [inbox EXCEPT ![c] = <<>>]
    /\ UNCHANGED <<active_clients, broadcasts, cursor, handshakes, raced>>

\* ... then subscribe(): the receiver sees what is sent from now on.
Subscribe(c) ==
    /\ session[c] = "counted"
    /\ Goto(c, "select")
    /\ cursor' = [cursor EXCEPT ![c] = broadcasts + 1]
    /\ joined' = [joined EXCEPT ![c] = broadcasts]
    /\ inbox' = [inbox EXCEPT ![c] = <<>>]
    /\ UNCHANGED <<active_clients, broadcasts, handshakes, raced>>

Behind(c) == broadcasts + 1 - cursor[c]

\* Fault: continue without moving the receiver up.
RecvLaggedStays(c) ==
    /\ session[c] = "select"
    /\ Behind(c) > Buffer
    /\ UNCHANGED vars

\* recv() returns Lagged: the loop goes on with the oldest message kept.
RecvLagged(c) ==
    /\ session[c] = "select"
    /\ Behind(c) > Buffer
    /\ cursor' = [cursor EXCEPT ![c] = broadcasts + 1 - Buffer]
    /\ UNCHANGED <<active_clients, broadcasts, session, joined, inbox, handshakes,
                   raced>>

\* recv() returns the next message.
Recv(c) ==
    /\ session[c] = "select"
    /\ Behind(c) \in 1..Buffer
    /\ Goto(c, "sending")
    /\ cursor' = [cursor EXCEPT ![c] = @ + 1]
    /\ UNCHANGED <<active_clients, broadcasts, joined, inbox, handshakes, raced>>

SendOk(c) ==
    /\ session[c] = "sending"
    /\ Goto(c, "select")
    /\ inbox' = [inbox EXCEPT ![c] = Append(@, cursor[c] - 1)]
    /\ UNCHANGED <<active_clients, broadcasts, cursor, joined, handshakes, raced>>

\* Fault: a send that timed out is not the end of the session.
SendFailsGoesOn(c) ==
    /\ session[c] = "sending"
    /\ Goto(c, "select")
    /\ UNCHANGED <<active_clients, broadcasts, cursor, joined, inbox, handshakes,
                   raced>>

\* The socket is broken or send_timeout_ms is over.
SendFails(c) ==
    /\ session[c] = "sending"
    /\ Goto(c, "leaving")
    /\ UNCHANGED <<active_clients, broadcasts, cursor, joined, inbox, handshakes,
                   raced>>

\* A close frame, the end of the stream or an error ends the loop; other
\* frames of the client are read and dropped.
ClientCloses(c) ==
    /\ session[c] = "select"
    /\ Goto(c, "leaving")
    /\ UNCHANGED <<active_clients, broadcasts, cursor, joined, inbox, handshakes,
                   raced>>

\* Fault: the early exit forgets fetch_sub.
UncountForgotten(c) ==
    /\ session[c] = "leaving"
    /\ Goto(c, "uncounted")
    /\ UNCHANGED <<active_clients, broadcasts, cursor, joined, inbox, handshakes,
                   raced>>

\* fetch_sub ...
Uncount(c) ==
    /\ session[c] = "leaving"
    /\ Goto(c, "uncounted")
    /\ active_clients' = active_clients - 1
    /\ UNCHANGED <<broadcasts, cursor, joined, inbox, handshakes, raced>>

\* ... and the session returns, which drops its receiver.
Unsubscribe(c) ==
    /\ session[c] = "uncounted"
    /\ Goto(c, "away")
    /\ UNCHANGED <<active_clients, broadcasts, cursor, joined, inbox, handshakes,
                   raced>>

\* What the server does by itself for a client it has let in.
ServerStep(c) ==
    \/ Count(c) \/ Subscribe(c) \/ RecvLagged(c) \/ Recv(c) \/ SendOk(c)
    \/ SendFails(c) \/ Uncount(c) \/ Unsubscribe(c)

Next ==
    \/ Broadcast
    \/ \E c \in Clients :
          Admit(c) \/ UpgradeFails(c) \/ ServerStep(c) \/ ClientCloses(c)

Spec == Init /\ [][Next]_vars

\* The session is a task of its own and its sends have a timeout.
FairSpec == Spec /\ \A c \in Clients : WF_vars(ServerStep(c))

TypeOK ==
    /\ active_clients \in Nat
    /\ broadcasts \in Nat
    /\ session \in [Clients -> SessionStates]
    /\ cursor \in [Clients -> Nat \ {0}]
    /\ joined \in [Clients -> Nat]
    /\ inbox \in [Clients -> Seq(Nat)]
    /\ handshakes \in [Clients -> Nat]
    /\ raced \in BOOLEAN

-----------------------------------------------------------------------------
(***************************************************************************)
(* Properties.                                                             *)
(***************************************************************************)
\* websocket_server_connect_handler and fetch_add: max_clients is only ever
\* exceeded when two handshakes passed the check before either was counted.
LimitUnlessRaced ==
    raced \/ active_clients <= max_clients

\* websocket_server_client_session: what a client has not got, of the messages
\* since it subscribed, had fallen out of the channel, at least
\* queue_depth_per_client messages ago.  A failed send leaves no gap: it ends
\* the session.
GapsOnlyByLag ==
    \A c \in Clients : session[c] = "select" =>
        \A m \in (joined[c] + 1)..(cursor[c] - 1) :
            \/ \E i \in DOMAIN inbox[c] : inbox[c][i] = m
            \/ m + queue_depth_per_client <= broadcasts

\* Nothing arrives twice or out of order on a connection, and nothing that was
\* broadcast before the client subscribed.
InboxInOrder ==
    \A c \in Clients : \A i \in DOMAIN inbox[c] :
        inbox[c][i] > IF i = 1 THEN joined[c] ELSE inbox[c][i - 1]

\* fetch_add and fetch_sub: once the clients have gone the count is back at 0,
\* so that a limit reached is not reached for ever.
CountReturns ==
    (\A c \in Clients : session[c] = "away") => active_clients = 0

\* A client that stays gets the newest message, or finds the session closed;
\* no slow client keeps it from another.
NewestArrives ==
    \A c \in Clients : \A m \in 1..MaxMessages :
        (session[c] = "select" /\ broadcasts = m /\ cursor[c] <= m)
            ~> (cursor[c] > m \/ ~Subscribed(c))

============================================================================
