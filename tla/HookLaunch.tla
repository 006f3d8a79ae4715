----------------------------- MODULE HookLaunch -----------------------------
(***************************************************************************)
(* hook serve and hook smash, started from one contract file and one       *)
(* environment in any order, while the operator edits the file.            *)
(***************************************************************************)
EXTENDS HookSmash

vars == <<contract, edits, launch, serveVars, smashVars>>

Init == ContractInit /\ ServeInit /\ SmashInit

Next ==
    \/ EditContract /\ UNCHANGED <<launch, serveVars, smashVars>>
    \/ ServeStep /\ UNCHANGED smashVars
    \/ SmashStep

Spec == Init /\ [][Next]_vars

-----------------------------------------------------------------------------
(***************************************************************************)
(* Properties.                                                             *)
(***************************************************************************)
\* resolve_active_serve_contract and resolve_active_smash_contract, each with its
\* own copy of the check: what --force starts from a file with validation errors
\* has nothing of that file.  The server has no endpoint or route but the plain
\* webhook, the consumer only the openclaw adapter of its environment; and none
\* of the errors was a security-critical one, in debug mode or not
\* (docs/security.md:98).
ForcedStartIsBare ==
    /\ servePc = "serving" /\ serveErrors # {} =>
         /\ launch.force /\ security_critical(serveErrors) = {}
         /\ Empty(ingress[1].websocket) /\ Empty(ingress[1].mcp) /\ Empty(ingress[1].kafka)
         /\ Empty(serveEnv.routes) /\ serveEnv.literal = {}
    /\ smashPc = "running" /\ smashErrors # {} =>
         /\ launch.force /\ security_critical(smashErrors) = {}
         /\ smashConfig[1].adapters = {LegacyAdapter}

\* from_env and main: what the running server was given meets what
\* WebhookAdmission and PublishPipeline assume, an enabled source has its
\* handler and its secret, and the queue can hold an event.
ServingMeetsAssumptions ==
    servePc = "serving" =>
        /\ serveEnv.sources # {}
        /\ \A s \in serveEnv.sources : s \in Handlers /\ Merged(Secret[s]) = "text"
        /\ Number("RELAY_PUBLISH_QUEUE_CAPACITY", 4096) > 0
        /\ Number("RELAY_DEDUP_TTL_SECONDS", 604800) > 0
        /\ Number("RELAY_COOLDOWN_SECONDS", 30) > 0

\* resolve_active_serve_contract and resolve_ingress_runtime: through the
\* conversion into hook-serve's environment and the choice of one adapter per
\* driver, a running server takes events in only where the profile that hook
\* serve read says so (but for the webhook path, which is always there), whatever
\* else the file defines or is edited to; and a websocket or MCP endpoint that
\* asks for a token has one to compare with.
EndpointsOfProfile ==
    servePc = "serving" =>
        LET guarded == Range(ingress[1].websocket) \cup Range(ingress[1].mcp)
        IN  /\ \A a \in guarded \cup Range(ingress[1].kafka) :
                  a.id \in serveProfile[1].serve_adapters
            /\ \A a \in guarded :
                  a.auth_mode \notin {"none", "None"} => Merged(a.token_env) = "text"

\* merged_env_for_command and resolve_value: what hook found in its three
\* layers is what the backend finds, so without --force no backend fails for
\* want of KAFKA_BROKERS; a webhook secret can be missing only for sources
\* that the contract's routes put in place of the checked ones.
PrecheckAgrees ==
    ~launch.force =>
        /\ "KAFKA_BROKERS" \notin {servePc, smashPc}
        /\ servePc = "HMAC_SECRET" => serveEnv.literal # {}

\* validate_smash_route_destinations: hook-smash never meets a destination
\* that its adapters do not have, nor a topic list without topics.
ReferencesHold == smashPc \notin {"unknown_adapter", "KAFKA_TOPICS"}

\* validate and build_runtime_adapters: a running consumer meets what
\* SmashConsumer, EgressDelivery and WebsocketServer assume: every destination
\* has exactly one adapter, limits and timeouts are positive, zero outputs
\* have a sink, and it reads the topics of its routes.
RunningMeetsAssumptions ==
    smashPc = "running" =>
        LET config == smashConfig[1]
        IN  /\ \A d \in ActiveDestinations(config) :
                  Cardinality({a \in config.adapters : a.id = d.adapter_id}) = 1
            /\ \A a \in config.adapters :
                  "zero" \notin {Get(a.config, k) :
                      k \in {"timeout_seconds", "send_timeout_ms", "max_clients",
                             "queue_depth_per_client"}}
            /\ ActiveDestinations(config) = {} => smashEnv.sink # "unset"
            /\ \/ launch.topics_flag # <<>>
               \/ {r.source_topic_pattern : r \in config.routes} \subseteq config.topics

\* docs/spec.md:185: a profile without outputs, with the sink discard, drops its
\* events.  So hook-smash, started from a valid contract without --force,
\* delivers to the adapters of the profile and to no other.
OnlyProfileOutputs ==
    smashPc = "running" /\ ~launch.force =>
        {a.id : a \in smashConfig[1].adapters} \subseteq smashProfile[1].smash_adapters

============================================================================
