----------------------------- MODULE HookServe -----------------------------
(***************************************************************************)
(* How hook serve brings up hook-serve: the checks and overrides of the    *)
(* hook command (tools/hook/src/commands/serve.rs and config.rs), then     *)
(* Config::from_env (src/config.rs) and main() up to the bound listener    *)
(* (src/main.rs).                                                          *)
(*                                                                         *)
(* An optional value is a sequence of at most one element.  A list of      *)
(* sources is the set of its names, lower case.                            *)
(***************************************************************************)
EXTENDS Contract

CONSTANTS
    Launches    \* command lines with their environments

\* A variable that a layer sets has text in it or is blank, and what is set of
\* the numeric variables are numbers.
ASSUME LaunchAssumption ==
    \A l \in Launches :
        /\ l.force \in BOOLEAN
        /\ \A i \in 1..3 : \A name \in DOMAIN l.layers[i] : l.layers[i][name] \in {"text", "blank"}
        /\ \A name \in DOMAIN l.numbers : l.numbers[name] \in Int

(***************************************************************************)
(* layers: process environment, env files and profile, each a function     *)
(* from the variables it sets to "text" or "blank".  numbers: the numeric  *)
(* variables that are set.  source_topics: the sources that the topics of  *)
(* RELAY_SOURCE_TOPICS end in.                                             *)
(***************************************************************************)
VARIABLES
    launch,      \* one of Launches
    servePc,     \* where hook serve and hook-serve are
    serveErrors, \* history: the validation errors that hook serve saw
    serveProfile,\* history: the profile of the contract that hook serve read
    serveEnv,    \* what hook serve hands to hook-serve
    ingress      \* IngressRuntimeSelection

serveVars == <<servePc, serveErrors, serveProfile, serveEnv, ingress>>

Handlers == {"github", "linear", "example"}
Secret == [github |-> "HMAC_SECRET_GITHUB", linear |-> "HMAC_SECRET_LINEAR",
           example |-> "HMAC_SECRET_EXAMPLE"]
DefaultSources == {"github", "linear"}

OrElse(option, default) == IF option = <<>> THEN default ELSE option[1]

\* Fault: the process environment wins.
MergedProcessFirst(name) ==
    LET set == {i \in 1..3 : name \in DOMAIN launch.layers[i]}
    IN  IF set = {} THEN "absent"
        ELSE launch.layers[CHOOSE i \in set : \A j \in set : i <= j][name]

\* merged_env_for_command: process environment, env files, profile; the later
\* one wins, blank or not.
Merged(name) ==
    LET set == {i \in 1..3 : name \in DOMAIN launch.layers[i]}
    IN  IF set = {} THEN "absent"
        ELSE launch.layers[CHOOSE i \in set : \A j \in set : j <= i][name]

\* resolve_value looks in the opposite order for the same variable.
Resolved(name) ==
    LET set == {i \in 1..3 : name \in DOMAIN launch.layers[i]}
    IN  set # {} /\ launch.layers[CHOOSE i \in set : \A j \in set : j <= i][name] # "blank"

ServeInit ==
    /\ launch \in Launches
    /\ servePc = "down"
    /\ serveErrors = {}
    /\ serveProfile = <<>>
    /\ serveEnv = <<>>
    /\ ingress = <<>>

-----------------------------------------------------------------------------
\* run(): the reasons not to start that --force overrides.
ServeReasons ==
    LET named == OrElse(launch.sources_flag, OrElse(launch.sources_env, {}))
        sources == IF named = {} THEN DefaultSources ELSE named
    IN  {r \in {"backend"} : ~launch.backend}
        \cup {r \in {"KAFKA_BROKERS"} : ~Resolved(r)}
        \cup {Secret[s] : s \in {x \in sources \cap Handlers : ~Resolved(Secret[x])}}

\* parse_plugins_from_config
PluginsParse(config) ==
    Get(config, "plugins") \in {"absent", "emptylist", "plugins", "blankplugins"}

TextKeys(config, keys) == \A k \in keys : k \in DOMAIN config /\ IsText(config[k])

\* to_serve_adapter_env succeeds.
ServeConvertible(a) ==
    /\ PluginsParse(a.config)
    /\ \/ a.driver = "http_webhook_ingress" /\ TextKeys(a.config, {"bind"})
       \/ a.driver = "websocket_ingress" /\ TextKeys(a.config, {"auth_mode"})
       \/ /\ a.driver = "mcp_ingest_exposed"
          /\ TextKeys(a.config, {"transport_driver", "bind", "auth_mode"})
          /\ IsNat(Get(a.config, "max_payload_bytes"))
       \/ /\ a.driver = "kafka_ingress"
          /\ Get(a.config, "topics") = "list"
          /\ TextKeys(a.config, {"group_id"})

\* optional_string_config: what is not a string with text in it is not there.
OptionalText(config, key, default) ==
    IF key \in DOMAIN config /\ IsText(config[key]) THEN config[key] ELSE default

\* to_serve_adapter_env, with the defaults of the keys that may be absent.
ServeAdapterEnv(a) ==
    [id |-> a.id, driver |-> a.driver,
     path |-> CASE a.driver = "http_webhook_ingress" ->
                     OptionalText(a.config, "path_template", "/webhook/{source}")
                [] a.driver = "websocket_ingress" ->
                     OptionalText(a.config, "path_template", "/ingest/ws/{source}")
                [] OTHER -> OptionalText(a.config, "path", "/mcp/tools/serve_ingest_event"),
     auth_mode |-> Get(a.config, "auth_mode"),
     token_env |-> OptionalText(a.config, "token_env", "absent"),
     max_payload_bytes |-> Get(a.config, "max_payload_bytes"),
     plugins |-> Get(a.config, "plugins")]

FirstOf(things) == things[Min(DOMAIN things)]
LastOf(things) == things[Max(DOMAIN things)]

\* The sources that the routes name literally.
RouteSources(routes) == {routes[i].source_match : i \in DOMAIN routes} \ {"*", "blank"}

\* Fault: every adapter of the file is handed over, named by the profile or not.
ActiveServeContractAll(c) ==
    LET p == c.profiles[launch.profile]
        routes == Active(c.serve_routes, p.serve_routes)
        adapters == c.serve_adapters
    IN  [adapters |-> [i \in DOMAIN adapters |-> ServeAdapterEnv(adapters[i])],
         adapter_id |-> IF Empty(adapters) THEN <<>> ELSE <<FirstOf(adapters).id>>,
         routes |-> routes,
         sources |-> RouteSources(routes)]

\* resolve_active_serve_contract, once validation has passed.
ActiveServeContract(c) ==
    LET p == c.profiles[launch.profile]
        routes == Active(c.serve_routes, p.serve_routes)
        adapters == Active(c.serve_adapters, p.serve_adapters)
    IN  [adapters |-> [i \in DOMAIN adapters |-> ServeAdapterEnv(adapters[i])],
         adapter_id |-> IF Empty(adapters) THEN <<>> ELSE <<FirstOf(adapters).id>>,
         routes |-> routes,
         sources |-> RouteSources(routes)]

NoServeContract == [adapters |-> <<>>, adapter_id |-> <<>>, routes |-> <<>>, sources |-> {}]

\* The mode that validate_contract is given: --validation-mode, or the policy.
Mode(c) == OrElse(launch.validation_mode, c.validation_mode)

\* Fault: --force goes past every validation error.
ValidationPassesForced(errors) == errors = {} \/ launch.force

\* Without errors, or with --force and none of them critical.
ValidationPasses(errors) ==
    errors = {} \/ (launch.force /\ security_critical(errors) = {})

\* The environment of the backend: the contract's values, then the flags'.
ServeOverrides(active) ==
    [adapters |-> active.adapters, adapter_id |-> active.adapter_id,
     routes |-> active.routes,
     sources |-> IF launch.sources_flag # <<>> THEN launch.sources_flag[1]
                 ELSE IF active.sources # {} THEN active.sources
                 ELSE OrElse(launch.sources_env, DefaultSources),
     literal |-> active.sources,
     mode |-> Mode(contract)]

\* hook serve: reasons, validation, conversion; then the shell starts the
\* backend, which --force cannot invent.
HookServe ==
    /\ servePc = "down"
    /\ serveErrors' = validate_contract(contract, launch.profile, Mode(contract))
    /\ LET errors == validate_contract(contract, launch.profile, Mode(contract))
           passes == /\ ServeReasons = {} \/ launch.force
                     /\ Mode(contract) \in {"strict", "debug"}
                     /\ ValidationPasses(errors)
                     /\ errors = {} =>
                          \A a \in Range(Active(contract.serve_adapters,
                                            contract.profiles[launch.profile].serve_adapters)) :
                              ServeConvertible(a)
                     /\ launch.backend
       IN  IF passes
             THEN /\ servePc' = "from_env"
                  /\ serveEnv' = ServeOverrides(IF errors = {}
                                                  THEN ActiveServeContract(contract)
                                                  ELSE NoServeContract)
                  /\ serveProfile' = <<contract.profiles[launch.profile]>>
             ELSE servePc' = "refused" /\ UNCHANGED <<serveEnv, serveProfile>>
    /\ UNCHANGED <<contract, edits, launch, ingress>>

-----------------------------------------------------------------------------
PositiveNumbers ==
    {"KAFKA_TOPIC_PARTITIONS", "KAFKA_TOPIC_REPLICATION_FACTOR",
     "RELAY_DEDUP_TTL_SECONDS", "RELAY_COOLDOWN_SECONDS",
     "RELAY_LINEAR_TIMESTAMP_WINDOW_SECONDS"}

\* Fault: every number is only parsed.
NumbersParseAny == \A name \in DOMAIN launch.numbers : launch.numbers[name] >= 0

\* Signed numbers must be positive, unsigned ones only parse.
NumbersParse ==
    \A name \in DOMAIN launch.numbers :
        launch.numbers[name] >= IF name \in PositiveNumbers THEN 1 ELSE 0

Number(name, default) == IF name \in DOMAIN launch.numbers THEN launch.numbers[name] ELSE default

\* KAFKA_SECURITY_PROTOCOL and what it asks for.
KafkaTransportOk ==
    \/ /\ launch.security_protocol = "ssl"
       /\ \A f \in {"KAFKA_TLS_CERT", "KAFKA_TLS_KEY", "KAFKA_TLS_CA"} : Merged(f) = "text"
    \/ launch.security_protocol = "plaintext" /\ launch.allow_plaintext

\* conditional_env: the secret of an enabled source that has one is there.
SecretsGiven(sources) == \A s \in sources \cap Handlers : Merged(Secret[s]) = "text"

\* The checks of from_env on one adapter.
IngressAdapterOk(a) ==
    /\ a.driver = "mcp_ingest_exposed" => a.max_payload_bytes # "zero"
    /\ a.plugins # "blankplugins"

\* The reason from_env gives, or "none"; the first check that fails gives it.
FromEnvError ==
    IF serveEnv.sources = {} THEN "RELAY_ENABLED_SOURCES"
    ELSE IF Merged("RELAY_SOURCE_TOPIC_PREFIX") = "blank" THEN "RELAY_SOURCE_TOPIC_PREFIX"
    ELSE IF launch.source_topics # <<>> /\ ~(serveEnv.sources \subseteq launch.source_topics[1])
      THEN "RELAY_SOURCE_TOPICS"
    ELSE IF Merged("KAFKA_BROKERS") # "text" THEN "KAFKA_BROKERS"
    ELSE IF ~SecretsGiven(serveEnv.sources) THEN "HMAC_SECRET"
    ELSE IF ~NumbersParse THEN "number"
    ELSE IF launch.trust_proxy_headers /\ Merged("RELAY_TRUSTED_PROXY_CIDRS") = "blank"
      THEN "RELAY_TRUSTED_PROXY_CIDRS"
    ELSE IF ~KafkaTransportOk THEN "KAFKA_SECURITY_PROTOCOL"
    ELSE IF \E r \in Range(serveEnv.routes) :
              "blank" \in {r.source_match, r.event_type_pattern, r.target_topic}
      THEN "RELAY_SERVE_ROUTES_JSON"
    ELSE IF \E a \in Range(serveEnv.adapters) : ~IngressAdapterOk(a)
      THEN "RELAY_INGRESS_ADAPTERS_JSON"
    ELSE "none"

FromEnv ==
    /\ servePc = "from_env"
    /\ servePc' = IF FromEnvError = "none" THEN "main" ELSE FromEnvError
    /\ UNCHANGED <<contract, edits, launch, serveErrors, serveProfile, serveEnv, ingress>>

-----------------------------------------------------------------------------
\* resolve_auth_token
AuthTokenOk(auth_mode, token_env) ==
    \/ auth_mode \in {"none", "None"}
    \/ /\ auth_mode \in {"bearer", "hmac"}
       /\ token_env # "absent"
       /\ Merged(token_env) = "text"

OfDriver(adapters, driver) == RestrictValues(adapters, LAMBDA a : a.driver = driver)

Endpoint(adapters, driver) ==
    LET as == OfDriver(adapters, driver)
    IN  IF Empty(as) THEN <<>> ELSE <<LastOf(as)>>

\* resolve_ingress_runtime: the last adapter of a driver is the one that
\* serves, the webhook path is there without one too, and every Kafka adapter
\* gets a worker.
IngressRuntime(env) ==
    LET http == OfDriver(env.adapters, "http_webhook_ingress")
    IN  [http_path |-> IF Empty(http) THEN "/webhook/{source}" ELSE LastOf(http).path,
         http_id |-> IF env.adapter_id # <<>> \/ Empty(http) THEN env.adapter_id
                     ELSE <<FirstOf(http).id>>,
         websocket |-> Endpoint(env.adapters, "websocket_ingress"),
         mcp |-> Endpoint(env.adapters, "mcp_ingest_exposed"),
         kafka |-> OfDriver(env.adapters, "kafka_ingress")]

\* axum refuses, by a panic, a path that does not start with "/" and a second
\* handler for a method of a path.
Paths == {"/webhook/{source}", "/ingest/ws/{source}", "/mcp/tools/serve_ingest_event",
          "/health", "/ready"}

RoutesClash(rt) ==
    \/ rt.http_path \notin Paths
    \/ rt.websocket # <<>> /\ rt.websocket[1].path \notin Paths \ {"/health", "/ready"}
    \/ rt.mcp # <<>> /\ rt.mcp[1].path \notin Paths \ {rt.http_path}

\* mpsc::channel(0) panics; the governor cannot be built with a burst of 0.
MainOutcome(rt) ==
    IF \E a \in Range(serveEnv.adapters) :
          /\ a.driver \in {"websocket_ingress", "mcp_ingest_exposed"}
          /\ ~AuthTokenOk(a.auth_mode, a.token_env) THEN "auth_token"
    ELSE IF ~(serveEnv.sources \subseteq Handlers) THEN "handlers"
    ELSE IF Number("RELAY_PUBLISH_QUEUE_CAPACITY", 4096) = 0 THEN "panic"
    ELSE IF Number("RELAY_IP_RATE_PER_MINUTE", 100) = 0 THEN "governor"
    ELSE IF RoutesClash(rt) THEN "panic"
    ELSE "serving"

\* main() up to the listener; the creation of the topics can fail, and the
\* address be taken.
Main ==
    /\ servePc = "main"
    /\ LET outcome == MainOutcome(IngressRuntime(serveEnv))
       IN  servePc' \in {outcome} \cup (IF outcome \in {"auth_token", "handlers"}
                                          THEN {} ELSE {"topics_or_bind"})
    /\ ingress' = IF servePc' = "serving" THEN <<IngressRuntime(serveEnv)>> ELSE ingress
    /\ UNCHANGED <<contract, edits, launch, serveErrors, serveProfile, serveEnv>>

ServeStep == HookServe \/ FromEnv \/ Main

============================================================================
