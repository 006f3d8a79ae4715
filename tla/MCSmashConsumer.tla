-------------------------- MODULE MCSmashConsumer --------------------------
(***************************************************************************)
(* Instances of SmashConsumer for TLC: alerts match two routes, the first  *)
(* with an optional destination listed ahead of its required one, the      *)
(* second with a required one; a route without destinations leaves "misc"  *)
(* to the no-output policy.                                                *)
(***************************************************************************)
EXTENDS SmashConsumer

Dest(id, req) == [adapter_id |-> id, required |-> req]

MCEventTypes == {"alert", "misc"}

MCUntimed == {"websocket"}

MCRoutes ==
    << [source_topic_pattern |-> Partitions,
        event_filters        |-> {{"alert"}},
        destinations         |-> <<Dest("websocket", FALSE), Dest("openclaw", TRUE)>>],
       [source_topic_pattern |-> Partitions,
        event_filters        |-> {{"alert"}},
        destinations         |-> <<Dest("kafka", TRUE)>>],
       [source_topic_pattern |-> Partitions,
        event_filters        |-> {{"misc"}},
        destinations         |-> <<>>] >>

MCPolicies ==
    {[allow_no_output |-> FALSE, no_output_sink |-> "unset"],
     [allow_no_output |-> TRUE,  no_output_sink |-> "discard"],
     [allow_no_output |-> TRUE,  no_output_sink |-> "dlq"]}

\* The default policy only, for the run that is not about it.
MCDefaultPolicy == {[allow_no_output |-> FALSE, no_output_sink |-> "unset"]}

============================================================================
