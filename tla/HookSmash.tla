----------------------------- MODULE HookSmash -----------------------------
(***************************************************************************)
(* How hook smash brings up hook-smash: the checks and overrides of the    *)
(* hook command (tools/hook/src/commands/smash.rs), then Config::from_env  *)
(* (hook-runtime/src/smash/config.rs) and build_runtime_adapters           *)
(* (adapters/egress/mod.rs).  The command line and the environment are     *)
(* those of HookServe.                                                     *)
(***************************************************************************)
EXTENDS HookServe

VARIABLES
    smashPc,      \* where hook smash and hook-smash are
    smashErrors,  \* history: the validation errors that hook smash saw
    smashProfile, \* history: the profile of the contract that hook smash read
    smashEnv,     \* what hook smash hands to hook-smash
    smashConfig   \* Config of hook-smash

smashVars == <<smashPc, smashErrors, smashProfile, smashEnv, smashConfig>>

SmashInit ==
    /\ smashPc = "down"
    /\ smashErrors = {}
    /\ smashProfile = <<>>
    /\ smashEnv = <<>>
    /\ smashConfig = <<>>

-----------------------------------------------------------------------------
NatKeys(config, keys) == \A k \in keys : k \in DOMAIN config /\ IsNat(config[k])

\* to_smash_adapter_env succeeds.
SmashConvertible(a) ==
    /\ PluginsParse(a.config)
    /\ \/ /\ a.driver = "openclaw_http_output"
          /\ TextKeys(a.config, {"url", "token_env"})
          /\ NatKeys(a.config, {"timeout_seconds", "max_retries"})
          /\ a.config["max_retries"] # "huge"
       \/ a.driver = "mcp_tool_output" /\ TextKeys(a.config, {"tool_name", "transport_ref"})
       \/ /\ a.driver = "websocket_client_output"
          /\ TextKeys(a.config, {"url", "auth_mode"})
          /\ NatKeys(a.config, {"send_timeout_ms"})
          /\ Get(a.config, "retry_policy") \in {"absent", "table", "emptytable"}
       \/ /\ a.driver = "websocket_server_output"
          /\ TextKeys(a.config, {"bind", "path", "auth_mode"})
          /\ NatKeys(a.config, {"max_clients", "queue_depth_per_client",
                                "send_timeout_ms"})
       \/ a.driver = "kafka_output" /\ TextKeys(a.config, {"topic", "key_mode"})

\* to_smash_transport_env succeeds; the validator knew command as optional.
TransportConvertible(t) ==
    \/ /\ t.driver = "stdio_jsonrpc"
       /\ TextKeys(t.config, {"command"})
       /\ Get(t.config, "env") \in {"absent", "table", "emptytable"}
    \/ t.driver = "http_sse" /\ TextKeys(t.config, {"url", "auth_mode"})

\* A topic pattern that hook smash takes: not blank, no wildcard.
LiteralTopics(routes) == \A r \in Range(routes) : r.source_topic_pattern \notin {"blank", "*"}

\* resolve_active_smash_contract succeeds, once validation has passed.
ActiveSmashContractOk(c) ==
    LET p == c.profiles[launch.profile]
        adapters == Active(c.smash_adapters, p.smash_adapters)
    IN  /\ \A a \in Range(adapters) : SmashConvertible(a)
        /\ LiteralTopics(Active(c.smash_routes, p.smash_routes))
        /\ \A a \in Range(adapters) : a.driver = "mcp_tool_output" =>
              TransportConvertible(c.transports[a.config["transport_ref"]])

Topics(routes) == {routes[i].source_topic_pattern : i \in DOMAIN routes}

\* The overrides of a contract; with neither adapters nor allow_no_output
\* there are none.
SmashOverrides(adapters, routes, c) ==
    LET contractual == ~Empty(adapters) \/ c.allow_no_output
    IN  [adapters |-> adapters, routes |-> routes, transports |-> c.transports,
         allow_no_output |-> contractual /\ c.allow_no_output,
         sink |-> IF contractual THEN c.no_output_sink ELSE "unset",
         topics |-> IF launch.topics_flag # <<>> THEN launch.topics_flag[1]
                    ELSE IF ~Empty(routes) THEN Topics(routes)
                    ELSE OrElse(launch.topics_env, {}),
         legacy |-> ~contractual]

\* The reasons not to start that --force overrides.
SmashReasons(env) ==
    {r \in {"backend"} : ~launch.backend}
        \cup {r \in {"KAFKA_BROKERS"} : ~Resolved(r)}
        \cup {r \in {"OPENCLAW_WEBHOOK_URL", "OPENCLAW_WEBHOOK_TOKEN"} :
                env.legacy /\ ~Resolved(r)}

HookSmash ==
    /\ smashPc = "down"
    /\ smashErrors' = validate_contract(contract, launch.profile, Mode(contract))
    /\ LET errors == validate_contract(contract, launch.profile, Mode(contract))
           p == contract.profiles[launch.profile]
           env == IF errors = {}
                    THEN SmashOverrides(Active(contract.smash_adapters, p.smash_adapters),
                                        Active(contract.smash_routes, p.smash_routes),
                                        contract)
                    ELSE SmashOverrides(<<>>, <<>>, contract)
           passes == /\ Mode(contract) \in {"strict", "debug"}
                     /\ ValidationPasses(errors)
                     /\ errors = {} => ActiveSmashContractOk(contract)
                     /\ SmashReasons(env) = {} \/ launch.force
                     /\ launch.backend
       IN  IF passes
             THEN smashPc' = "from_env" /\ smashEnv' = env /\ smashProfile' = <<p>>
             ELSE smashPc' = "refused" /\ UNCHANGED <<smashEnv, smashProfile>>
    /\ UNCHANGED <<contract, edits, launch, serveVars, smashConfig>>

-----------------------------------------------------------------------------
\* Fault: validate() trusts the timeouts and limits.
EgressAdapterOkAnyNumber(a, transports) ==
    /\ Get(a.config, "plugins") # "blankplugins"
    /\ a.driver = "kafka_output" => a.config["key_mode"] \in {"event_id", "source", "none"}

\* validate(): the checks on one adapter.
EgressAdapterOk(a, transports) ==
    LET authOk == \/ a.config["auth_mode"] = "none"
                  \/ OptionalText(a.config, "token_env", "absent") # "absent"
    IN  /\ Get(a.config, "plugins") # "blankplugins"
        /\ CASE a.driver = "openclaw_http_output" -> a.config["timeout_seconds"] # "zero"
             [] a.driver = "mcp_tool_output" -> a.config["transport_ref"] \in transports
             [] a.driver = "websocket_client_output" ->
                  /\ a.config["send_timeout_ms"] # "zero"
                  /\ a.config["auth_mode"] \in {"none", "bearer", "hmac"}
                  /\ authOk
             [] a.driver = "websocket_server_output" ->
                  /\ "zero" \notin {a.config["max_clients"], a.config["send_timeout_ms"],
                                    a.config["queue_depth_per_client"]}
                  /\ authOk
             [] a.driver = "kafka_output" ->
                  a.config["key_mode"] \in {"event_id", "source", "none"}

\* The adapter and the routes of a start without a contract's.
LegacyAdapter ==
    [id |-> "openclaw-output", driver |-> "openclaw_http_output",
     config |-> [url |-> "text", token_env |-> "OPENCLAW_WEBHOOK_TOKEN",
                 timeout_seconds |-> "one", max_retries |-> "one"]]

LegacyRoute(topic) ==
    [id |-> topic, source_topic_pattern |-> topic,
     destinations |-> {[adapter_id |-> "openclaw-output", required |-> TRUE]}]

\* from_env: with no routes and no adapters in the environment the consumer
\* is the openclaw one of old, for KAFKA_TOPICS or its two default topics.
ChooseConfig(env) ==
    IF Empty(env.routes) /\ Empty(env.adapters)
      THEN LET topics == IF env.topics # {} THEN env.topics
                         ELSE {"webhooks.github", "webhooks.linear"}
           IN  [adapters |-> {LegacyAdapter}, routes |-> {LegacyRoute(t) : t \in topics},
                topics |-> topics, legacy |-> TRUE]
      ELSE [adapters |-> Range(env.adapters), routes |-> Range(env.routes),
            topics |-> IF env.topics # {} THEN env.topics ELSE Topics(env.routes),
            legacy |-> FALSE]

ActiveDestinations(config) == UNION {r.destinations : r \in config.routes}

\* The ids of a list repeat.
Repeats(things) == \E i, j \in DOMAIN things : i # j /\ things[i].id = things[j].id

\* The reason from_env and validate() give, or "none"; the first check that
\* fails gives it.
SmashFromEnvError(env, config) ==
    IF config.legacy /\ Merged("OPENCLAW_WEBHOOK_URL") # "text" THEN "OPENCLAW_WEBHOOK_URL"
    ELSE IF Empty(env.routes) # Empty(env.adapters) THEN "routes_without_adapters"
    ELSE IF config.topics = {} THEN "KAFKA_TOPICS"
    ELSE IF Merged("KAFKA_BROKERS") # "text" THEN "KAFKA_BROKERS"
    ELSE IF Number("OPENCLAW_MESSAGE_MAX_BYTES", 4000) < 128 THEN "number"
    ELSE IF Merged("KAFKA_DLQ_TOPIC") = "blank" THEN "KAFKA_DLQ_TOPIC"
    ELSE IF Repeats(env.adapters) \/ Repeats(env.routes) THEN "duplicate_id"
    ELSE IF \E a \in config.adapters : ~EgressAdapterOk(a, DOMAIN env.transports) THEN "adapter"
    ELSE IF \E d \in ActiveDestinations(config) :
              d.adapter_id \notin {a.id : a \in config.adapters} THEN "unknown_adapter"
    ELSE IF /\ ActiveDestinations(config) = {}
            /\ ~env.allow_no_output \/ env.sink = "unset" \/ config.legacy THEN "no_output"
    ELSE "none"

SmashFromEnv ==
    /\ smashPc = "from_env"
    /\ LET config == ChooseConfig(smashEnv)
           error == SmashFromEnvError(smashEnv, config)
       IN  IF error = "none"
             THEN smashPc' = "build" /\ smashConfig' = <<config>>
             ELSE smashPc' = error /\ UNCHANGED smashConfig
    /\ UNCHANGED <<contract, edits, launch, serveVars, smashErrors, smashProfile, smashEnv>>

\* build_runtime_adapters: the tokens are in the environment.
TokenOk(a) ==
    CASE a.driver = "openclaw_http_output" -> Merged(a.config["token_env"]) = "text"
      [] a.driver \in {"websocket_client_output", "websocket_server_output"} ->
            AuthTokenOk(a.config["auth_mode"], OptionalText(a.config, "token_env", "absent"))
      [] a.driver = "mcp_tool_output" ->
            LET t == smashEnv.transports[a.config["transport_ref"]]
            IN  t.driver = "http_sse" =>
                  AuthTokenOk(t.config["auth_mode"],
                              OptionalText(t.config, "token_env", "absent"))
      [] OTHER -> TRUE

\* The consumer runs, unless a websocket server finds its port taken.
BuildRuntimeAdapters ==
    /\ smashPc = "build"
    /\ smashPc' \in IF \A a \in smashConfig[1].adapters : TokenOk(a)
                      THEN {"running"} \cup {x \in {"bind"} :
                              \E a \in smashConfig[1].adapters :
                                  a.driver = "websocket_server_output"}
                      ELSE {"auth_token"}
    /\ UNCHANGED <<contract, edits, launch, serveVars, smashErrors, smashProfile, smashEnv,
                   smashConfig>>

SmashStep == HookSmash \/ SmashFromEnv \/ BuildRuntimeAdapters

============================================================================
