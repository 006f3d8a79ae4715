------------------------------ MODULE Contract ------------------------------
(***************************************************************************)
(* The contract file that hook serve and hook smash start from, and its    *)
(* validation.  Translated from relay-core's contract.rs and               *)
(* contract_validator.rs.                                                  *)
(*                                                                         *)
(* A TOML value is kept as what the code tells apart: one of NonTexts, or  *)
(* a string that is not blank and stands for itself.  An adapter is its    *)
(* id, its driver and the function from its keys to their values.  A list  *)
(* that is picked from another one keeps the places of what was picked.    *)
(***************************************************************************)
EXTENDS Integers, Sequences, FiniteSetsExt

CONSTANTS
    BaseContracts,  \* the contracts an operator starts from
    EditValues,     \* the values an edit may give to a key
    MaxEdits        \* bound: edits of the contract

Sections == {"serve_adapters", "smash_adapters"}

\* The two lists of adapters are lists.
ASSUME ContractAssumption ==
    \A c \in BaseContracts :
        /\ Sections \subseteq DOMAIN c
        /\ \A section \in Sections : c[section] \in Seq(Range(c[section]))

VARIABLES
    contract,       \* AppContract
    edits           \* bound counter

\* Blank strings, integers, arrays and tables.  "holes" is an array of blank
\* strings, "blankplugins" one of plugins with blank fields.
NonTexts ==
    {"blank", "zero", "one", "negative", "huge", "list", "holes", "emptylist",
     "plugins", "blankplugins", "table", "badtable", "emptytable"}

IsText(v) == v \notin NonTexts
IsNat(v) == v \in {"zero", "one", "huge"}

is_non_empty_toml(v) == v \notin {"blank", "emptylist", "emptytable"}

\* What a key holds, "absent" when it is not there.
Get(config, key) == IF key \in DOMAIN config THEN config[key] ELSE "absent"

-----------------------------------------------------------------------------
\* An adapter or transport schema: its required and its other known keys.
Schema(required, optional) == [required |-> required, optional |-> optional]

IngressSchemas ==
    [http_webhook_ingress |-> Schema({"bind"}, {"path_template", "plugins"}),
     websocket_ingress |-> Schema({"auth_mode"}, {"path_template", "plugins"}),
     mcp_ingest_exposed |->
        Schema({"transport_driver", "bind", "auth_mode", "max_payload_bytes"},
               {"tool_name", "path", "token_env", "plugins"}),
     kafka_ingress |-> Schema({"topics", "group_id"}, {"brokers", "plugins"})]

EgressSchemas ==
    [openclaw_http_output |->
        Schema({"url", "token_env", "timeout_seconds", "max_retries"}, {"plugins"}),
     mcp_tool_output |-> Schema({"tool_name", "transport_ref"}, {"plugins"}),
     websocket_client_output |->
        Schema({"url", "auth_mode", "send_timeout_ms", "retry_policy"}, {"plugins"}),
     websocket_server_output |->
        Schema({"bind", "path", "auth_mode", "max_clients",
                "queue_depth_per_client", "send_timeout_ms"}, {"plugins"}),
     kafka_output |-> Schema({"topic", "key_mode"}, {"plugins"})]

TransportSchemas ==
    [stdio_jsonrpc |-> Schema({}, {"command", "args", "env"}),
     http_sse |-> Schema({"url", "auth_mode"}, {})]

\* validate_adapter_config_schema, and the driver behind it.
SchemaErrors(schemas, driver, config, unsupported) ==
    IF driver \notin DOMAIN schemas
      THEN {unsupported}
      ELSE LET known == schemas[driver].required \cup schemas[driver].optional
           IN  {"unknown_adapter_key" : k \in DOMAIN config \ known}
               \cup {IF k \in DOMAIN config THEN "empty_required_adapter_value"
                                            ELSE "missing_required_adapter_key" :
                       k \in {r \in schemas[driver].required :
                                r \in DOMAIN config => ~is_non_empty_toml(config[r])}}

\* index_ingress_adapters, index_egress_adapters: of two adapters with one id
\* the later one counts.
ById(adapters, id) ==
    adapters[CHOOSE i \in DOMAIN adapters :
               /\ adapters[i].id = id
               /\ \A j \in DOMAIN adapters : adapters[j].id = id => j <= i]

Ids(things) == {things[i].id : i \in DOMAIN things}
Missing(wanted, things, code) == {code : id \in wanted \ Ids(things)}

\* The adapters and routes of a list that a profile names, in list order.
Active(things, ids) == RestrictValues(things, LAMBDA t : t.id \in ids)

Empty(things) == DOMAIN things = {}

\* validate_profile_refs
ProfileRefErrors(c, profile) ==
    Missing(profile.serve_adapters, c.serve_adapters, "missing_serve_adapter")
        \cup Missing(profile.smash_adapters, c.smash_adapters, "missing_smash_adapter")
        \cup Missing(profile.serve_routes, c.serve_routes, "missing_serve_route")
        \cup Missing(profile.smash_routes, c.smash_routes, "missing_smash_route")

IngressErrors(c, profile) ==
    UNION {LET a == ById(c.serve_adapters, id)
           IN  SchemaErrors(IngressSchemas, a.driver, a.config,
                            "unsupported_ingress_driver") :
             id \in profile.serve_adapters \cap Ids(c.serve_adapters)}

ActiveEgress(c, profile) ==
    {ById(c.smash_adapters, id) : id \in profile.smash_adapters \cap Ids(c.smash_adapters)}

EgressErrors(c, profile) ==
    UNION {SchemaErrors(EgressSchemas, a.driver, a.config, "unsupported_egress_driver")
             \cup (IF /\ a.driver = "mcp_tool_output"
                      /\ Get(a.config, "transport_ref") \notin DOMAIN c.transports
                     THEN {"missing_transport_ref"} ELSE {}) :
             a \in ActiveEgress(c, profile)}

\* collect_active_transport_refs and validate_transport_schemas
TransportErrors(c, profile) ==
    UNION {SchemaErrors(TransportSchemas, c.transports[name].driver,
                        c.transports[name].config, "unsupported_transport_driver") :
             name \in {Get(a.config, "transport_ref") :
                         a \in {x \in ActiveEgress(c, profile) :
                                  x.driver = "mcp_tool_output"}}
                      \cap DOMAIN c.transports}

\* Fault: a destination only has to exist.
DestinationErrorsAnyAdapter(c, profile) ==
    UNION {IF r.destinations = {}
             THEN {"empty_smash_route_destinations"}
             ELSE {"missing_destination_adapter" :
                     d \in {x \in r.destinations : x.adapter_id \notin Ids(c.smash_adapters)}} :
             r \in Range(Active(c.smash_routes, profile.smash_routes))}

\* validate_smash_route_destinations
DestinationErrors(c, profile) ==
    UNION {IF r.destinations = {}
             THEN {"empty_smash_route_destinations"}
             ELSE {IF d.adapter_id \notin profile.smash_adapters
                     THEN "inactive_destination_adapter"
                     ELSE "missing_destination_adapter" :
                     d \in {x \in r.destinations :
                              \/ x.adapter_id \notin profile.smash_adapters
                              \/ x.adapter_id \notin Ids(c.smash_adapters)}} :
             r \in Range(Active(c.smash_routes, profile.smash_routes))}

\* validate_no_output_policy
NoOutputErrors(c, profile) ==
    IF \E r \in Range(Active(c.smash_routes, profile.smash_routes)) :
          \E d \in r.destinations : d.adapter_id \in profile.smash_adapters
      THEN {}
      ELSE IF ~c.allow_no_output
             THEN {"no_smash_outputs"}
             ELSE (IF c.no_output_sink = "unset" THEN {"missing_no_output_sink"} ELSE {})
                  \cup (IF c.no_output_sink = "dlq" /\ profile.smash_routes = {}
                          THEN {"dlq_without_routes"} ELSE {})

\* maybe_validate_non_security
LabelErrors(profile, mode) ==
    IF mode # "debug" /\ profile.label = "blank" THEN {"empty_profile_label"} ELSE {}

validate_contract(c, name, mode) ==
    IF name \notin DOMAIN c.profiles
      THEN {"missing_profile"}
      ELSE LET p == c.profiles[name]
           IN  ProfileRefErrors(c, p) \cup IngressErrors(c, p) \cup EgressErrors(c, p)
               \cup TransportErrors(c, p) \cup DestinationErrors(c, p)
               \cup NoOutputErrors(c, p) \cup LabelErrors(p, mode)

\* The errors with security_critical set: all but one.
security_critical(errors) == errors \ {"empty_profile_label"}

-----------------------------------------------------------------------------
(***************************************************************************)
(* The operator edits the file, also between the start of hook serve and   *)
(* that of hook smash.                                                     *)
(***************************************************************************)
ContractInit == contract \in BaseContracts /\ edits = 0

SetKey(section, i, key, value) ==
    contract' = [contract EXCEPT ![section][i].config =
                   [k \in DOMAIN @ \cup {key} |-> IF k = key THEN value ELSE @[k]]]

DropKey(section, i, key) ==
    contract' = [contract EXCEPT ![section][i].config =
                   [k \in DOMAIN @ \ {key} |-> @[k]]]

\* A profile names one adapter or route more or less.
Toggle(name, list, id) ==
    contract' = [contract EXCEPT !.profiles[name][list] =
                   IF id \in @ THEN @ \ {id} ELSE @ \cup {id}]

Reconfigure(allow, sink, mode, label) ==
    contract' = [contract EXCEPT !.allow_no_output = allow, !.no_output_sink = sink,
                                 !.validation_mode = mode,
                                 !.profiles = [n \in DOMAIN @ |->
                                                 [@[n] EXCEPT !.label = label]]]

EditContract ==
    /\ edits < MaxEdits
    /\ edits' = edits + 1
    /\ \/ \E section \in Sections : \E i \in DOMAIN contract[section] :
             \/ \E kv \in EditValues : SetKey(section, i, kv[1], kv[2])
             \/ \E key \in DOMAIN contract[section][i].config : DropKey(section, i, key)
       \/ \E name \in DOMAIN contract.profiles :
             \/ \E list \in Sections : \E id \in Ids(contract[list]) : Toggle(name, list, id)
             \/ \E list \in {"serve_routes", "smash_routes"} :
                   \E id \in Ids(contract[list]) : Toggle(name, list, id)
       \/ \E allow \in BOOLEAN, sink \in {"unset", "discard", "dlq"},
             mode \in {"strict", "debug"}, label \in {"blank", "text"} :
             Reconfigure(allow, sink, mode, label)

============================================================================
