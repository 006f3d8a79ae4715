---------------------------- MODULE MCHookLaunch ----------------------------
(***************************************************************************)
(* Instances of HookLaunch for TLC.                                        *)
(***************************************************************************)
EXTENDS HookLaunch, TLC

P == "default-openclaw"

\* The adapters, each complete for its driver.
Http(id) == [id |-> id, driver |-> "http_webhook_ingress",
             config |-> [bind |-> "text", path_template |-> "/webhook/{source}"]]
Ws == [id |-> "ws", driver |-> "websocket_ingress", config |-> [auth_mode |-> "none"]]
Mcp == [id |-> "mcp", driver |-> "mcp_ingest_exposed",
        config |-> [transport_driver |-> "text", bind |-> "text", auth_mode |-> "bearer",
                    token_env |-> "TOKEN", max_payload_bytes |-> "one"]]
Kafka == [id |-> "kafka", driver |-> "kafka_ingress",
          config |-> [topics |-> "list", group_id |-> "text"]]
Odd == [id |-> "odd", driver |-> "unknown", config |-> <<>>]

Openclaw(id) == [id |-> id, driver |-> "openclaw_http_output",
                 config |-> [url |-> "text", token_env |-> "OPENCLAW_WEBHOOK_TOKEN",
                             timeout_seconds |-> "one", max_retries |-> "one"]]
McpTool(t) == [id |-> "tool-" \o t, driver |-> "mcp_tool_output",
               config |-> [tool_name |-> "text", transport_ref |-> t]]
WsClient == [id |-> "wsclient", driver |-> "websocket_client_output",
             config |-> [url |-> "text", auth_mode |-> "none", send_timeout_ms |-> "one",
                         retry_policy |-> "table"]]
WsServer == [id |-> "wsserver", driver |-> "websocket_server_output",
             config |-> [bind |-> "text", path |-> "/out", auth_mode |-> "none",
                         max_clients |-> "one", queue_depth_per_client |-> "one",
                         send_timeout_ms |-> "one"]]
KafkaOut == [id |-> "kafkaout", driver |-> "kafka_output",
             config |-> [topic |-> "text", key_mode |-> "event_id"]]

\* A contract whose profile names all it has.
MCContract(serve, smash, source) ==
    [serve_adapters |-> serve, smash_adapters |-> smash,
     serve_routes |-> <<[id |-> "in", source_match |-> source,
                         event_type_pattern |-> "*", target_topic |-> "webhooks.core"]>>,
     smash_routes |-> <<[id |-> "out", source_topic_pattern |-> "webhooks.core",
                         destinations |-> {[adapter_id |-> smash[i].id, required |-> i = 1] :
                                             i \in DOMAIN smash}]>>,
     transports |-> [stdio |-> [driver |-> "stdio_jsonrpc", config |-> [command |-> "text"]],
                     sse |-> [driver |-> "http_sse",
                              config |-> [url |-> "text", auth_mode |-> "none"]]],
     allow_no_output |-> FALSE, no_output_sink |-> "unset", validation_mode |-> "strict",
     profiles |-> P :> [label |-> "text", serve_adapters |-> Ids(serve),
                        smash_adapters |-> Ids(smash), serve_routes |-> {"in"},
                        smash_routes |-> {"out"}]]

\* A profile that only takes in, with its events to be dropped.
MCInputOnly ==
    [MCContract(<<Kafka>>, <<Openclaw("openclaw-output")>>, "blank")
       EXCEPT !.allow_no_output = TRUE, !.no_output_sink = "discard",
              !.profiles[P].smash_adapters = {}, !.profiles[P].smash_routes = {},
              !.profiles[P].serve_routes = {}]

MCContracts ==
    {MCContract(<<Kafka, Http("http")>>, <<Openclaw("openclaw")>>, "*"),
     MCContract(<<Http("http"), Ws>>, <<WsClient, WsServer>>, "github"),
     MCContract(<<Http("http"), Mcp>>, <<McpTool("stdio"), McpTool("sse"), KafkaOut>>,
                "example"),
     MCContract(<<Http("a"), Http("a"), Odd>>, <<Openclaw("a"), Openclaw("a")>>, "gitlab"),
     MCInputOnly}

MCEditValues ==
    {<<"auth_mode", "None">>, <<"auth_mode", "bearer">>, <<"auth_mode", "basic">>,
     <<"auth_mode", "blank">>, <<"token_env", "TOKEN">>, <<"bind", "blank">>,
     <<"path_template", "/health">>, <<"path_template", "text">>,
     <<"path", "/webhook/{source}">>, <<"plugins", "plugins">>,
     <<"plugins", "blankplugins">>, <<"plugins", "list">>, <<"timeout_seconds", "zero">>,
     <<"timeout_seconds", "negative">>, <<"send_timeout_ms", "zero">>,
     <<"max_clients", "zero">>, <<"max_payload_bytes", "zero">>, <<"max_retries", "huge">>,
     <<"retry_policy", "badtable">>, <<"retry_policy", "emptytable">>,
     <<"key_mode", "text">>, <<"transport_ref", "text">>, <<"topics", "emptylist">>,
     <<"topics", "holes">>}

Names == {"KAFKA_BROKERS", "HMAC_SECRET_GITHUB", "HMAC_SECRET_LINEAR",
          "HMAC_SECRET_EXAMPLE", "TOKEN", "OPENCLAW_WEBHOOK_URL",
          "OPENCLAW_WEBHOOK_TOKEN"}

MCLaunch ==
    [profile |-> P, force |-> FALSE, backend |-> TRUE, validation_mode |-> <<>>,
     sources_flag |-> <<>>, sources_env |-> <<>>, topics_flag |-> <<>>,
     topics_env |-> <<>>, source_topics |-> <<>>,
     layers |-> <<[n \in Names |-> "text"], <<>>, <<>>>>,
     security_protocol |-> "plaintext", allow_plaintext |-> TRUE,
     trust_proxy_headers |-> FALSE, numbers |-> <<>>]

\* The plain launch and launches that differ from it in a flag, a variable
\* that is missing or blank in some layer, or a number at its edge.
MCLaunches ==
    {MCLaunch, [MCLaunch EXCEPT !.force = TRUE],
     [MCLaunch EXCEPT !.force = TRUE, !.validation_mode = <<"debug">>],
     [MCLaunch EXCEPT !.validation_mode = <<"other">>],
     [MCLaunch EXCEPT !.backend = FALSE, !.force = TRUE],
     [MCLaunch EXCEPT !.profile = "other"],
     [MCLaunch EXCEPT !.sources_flag = <<{"linear"}>>],
     [MCLaunch EXCEPT !.sources_env = <<{"linear"}>>, !.topics_flag = <<{"webhooks.core"}>>],
     [MCLaunch EXCEPT !.source_topics = <<{"github"}>>],
     [MCLaunch EXCEPT !.security_protocol = "ssl"],
     [MCLaunch EXCEPT !.layers[1] = [@ EXCEPT !["KAFKA_BROKERS"] = "blank"],
                      !.layers[3] = "KAFKA_BROKERS" :> "text"],
     [MCLaunch EXCEPT !.trust_proxy_headers = TRUE,
                      !.layers[2] = "RELAY_TRUSTED_PROXY_CIDRS" :> "blank"]}
    \cup {[MCLaunch EXCEPT !.layers[1] = [n \in Names \ {x} |-> "text"]] : x \in Names}
    \cup {[MCLaunch EXCEPT !.layers[3] = x :> "blank", !.force = f] :
            x \in {"KAFKA_BROKERS", "TOKEN", "HMAC_SECRET_GITHUB"}, f \in BOOLEAN}
    \cup {[MCLaunch EXCEPT !.numbers = x :> n] :
            x \in {"RELAY_PUBLISH_QUEUE_CAPACITY", "RELAY_DEDUP_TTL_SECONDS",
                   "RELAY_IP_RATE_PER_MINUTE", "OPENCLAW_MESSAGE_MAX_BYTES"}, n \in {0, 1}}

============================================================================
