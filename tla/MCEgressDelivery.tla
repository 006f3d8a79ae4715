-------------------------- MODULE MCEgressDelivery --------------------------
(***************************************************************************)
(* Instances of EgressDelivery for TLC.                                    *)
(***************************************************************************)
EXTENDS EgressDelivery

MCTarget(driver, retries, usable) ==
    [driver |-> driver, max_retries |-> retries, backoff_base |-> 2,
     backoff_max |-> 3, usable |-> usable]

\* Every driver, openclaw and websocket_client with no retries too, and an
\* adapter that lacks what its sends need.
MCTargets ==
    {MCTarget("openclaw", n, TRUE) : n \in {0, 2, 3}}
        \cup {MCTarget("websocket_client", n, b) : n \in {0, 2}, b \in BOOLEAN}
        \cup {MCTarget(d, 0, TRUE) : d \in {"http_sse", "stdio_jsonrpc"}}
        \cup {MCTarget("kafka_output", 0, b) : b \in BOOLEAN}

============================================================================
