-------------------------- MODULE HookLaunchProofs --------------------------
(***************************************************************************)
(* Proofs about HookLaunch: for every contract file, edit and command      *)
(* line, what a running server and a running consumer were started from    *)
(* has passed the checks their own modules assume.                         *)
(***************************************************************************)
EXTENDS HookLaunch, FiniteSetTheorems, WellFoundedInduction, TLAPS

-----------------------------------------------------------------------------
(***************************************************************************)
(* The inductive invariant.                                                *)
(***************************************************************************)
\* The lists of adapters stay lists through the operator's edits.
ListsKept ==
    \A section \in Sections :
        section \in DOMAIN contract /\ \E n \in Nat : DOMAIN contract[section] = 1..n

\* hook serve, while hook-serve has not looked at its environment: without
\* --force it found the brokers, and the secrets of the sources it knew of.
ServePrechecked ==
    ~launch.force /\ servePc = "from_env" =>
        /\ Merged("KAFKA_BROKERS") = "text"
        /\ serveEnv.literal = {} => SecretsGiven(serveEnv.sources)

\* from_env returned a Config.
ServeConfigured ==
    servePc \in {"main", "serving"} =>
        serveEnv.sources # {} /\ SecretsGiven(serveEnv.sources) /\ NumbersParse

\* What hook-serve selects its endpoints from is a part of a list.
ServeListed ==
    servePc \in {"from_env", "main", "serving"} =>
        \E n \in Nat : DOMAIN serveEnv.adapters \subseteq 1..n

\* What a start over validation errors may be: forced, none of them critical.
Forced(errors) == launch.force /\ security_critical(errors) = {}

\* hook serve handed over adapters of the profile, and nothing of a contract
\* with errors.
ServeHanded ==
    servePc \in {"from_env", "main", "serving"} =>
        /\ \A a \in Range(serveEnv.adapters) : a.id \in serveProfile[1].serve_adapters
        /\ serveErrors # {} =>
             /\ Forced(serveErrors)
             /\ Empty(serveEnv.adapters) /\ Empty(serveEnv.routes) /\ serveEnv.literal = {}

\* main() came to the listener.
ServeMained ==
    servePc = "serving" =>
        /\ ingress = <<IngressRuntime(serveEnv)>>
        /\ serveEnv.sources \subseteq Handlers
        /\ Number("RELAY_PUBLISH_QUEUE_CAPACITY", 4096) # 0
        /\ \A a \in Range(serveEnv.adapters) :
              a.driver \in {"websocket_ingress", "mcp_ingest_exposed"} =>
                  AuthTokenOk(a.auth_mode, a.token_env)

SmashPrechecked ==
    ~launch.force /\ smashPc = "from_env" => Merged("KAFKA_BROKERS") = "text"

\* The destinations of the routes are adapters of the same environment.
DestinationsKnown(env) ==
    \A r \in Range(env.routes) : \A d \in r.destinations : d.adapter_id \in Ids(env.adapters)

\* Adapters with one id each have a driver and only keys of its schema.
KeysKnown(env) ==
    ~Repeats(env.adapters) =>
        \A a \in Range(env.adapters) :
            /\ a.driver \in DOMAIN EgressSchemas
            /\ DOMAIN a.config \subseteq EgressSchemas[a.driver].required
                                           \cup EgressSchemas[a.driver].optional

\* The topics are those of the routes, when no flag names others.
TopicsFollow(env) ==
    launch.topics_flag = <<>> /\ ~Empty(env.routes) => env.topics = Topics(env.routes)

\* The adapters are the profile's, and without --force there are none only if
\* the profile names none.
ProfileFollowed(env, profile) ==
    /\ Ids(env.adapters) \subseteq profile.smash_adapters
    /\ ~launch.force /\ Empty(env.adapters) => profile.smash_adapters = {}

\* What hook smash handed over, and what hook-smash made of it.
SmashHanded ==
    smashPc \in {"from_env", "build", "running"} =>
        /\ DestinationsKnown(smashEnv) /\ KeysKnown(smashEnv) /\ TopicsFollow(smashEnv)
        /\ ProfileFollowed(smashEnv, smashProfile[1])

SmashConfigured ==
    smashPc \in {"build", "running"} =>
        /\ smashConfig = <<ChooseConfig(smashEnv)>>
        /\ SmashFromEnvError(smashEnv, ChooseConfig(smashEnv)) = "none"

\* hook smash handed over nothing of a contract with errors.
SmashBare ==
    smashPc \in {"from_env", "build", "running"} /\ smashErrors # {} =>
        Forced(smashErrors) /\ Empty(smashEnv.adapters) /\ Empty(smashEnv.routes)

ServeInv == ServePrechecked /\ ServeConfigured /\ ServeListed /\ ServeHanded /\ ServeMained
SmashInv == SmashPrechecked /\ SmashHanded /\ SmashBare /\ SmashConfigured

IInv ==
    /\ launch \in Launches
    /\ ListsKept
    /\ ServeInv
    /\ SmashInv
    /\ PrecheckAgrees
    /\ ReferencesHold

-----------------------------------------------------------------------------
(***************************************************************************)
(* Lists and layers.                                                       *)
(***************************************************************************)
\* A part of a list that is not empty has a last place: LastOf and the later of
\* two adapters with one id (index_egress_adapters) are there.
LEMMA LastPlace ==
    ASSUME NEW n \in Nat, NEW S \in SUBSET (1..n), S # {}
    PROVE  Max(S) \in S /\ \A y \in S : Max(S) >= y
<1> DEFINE R == {ss \in Nat \X Nat : ss[1] < ss[2]}
           T == {n - x : x \in S}
<1>1. IsWellFoundedOn(R, Nat)
  BY NatLessThanWellFounded DEF OpToRel
<1>2. T \subseteq Nat /\ T # {}
  <2>1. \A x \in S : n - x \in Nat
    OBVIOUS
  <2> QED  BY <2>1
<1>3. PICK t \in T : \A u \in T : ~(<<u, t>> \in R)
  <2> HIDE DEF R, T
  <2> QED  BY <1>1, <1>2, WFMin
<1>4. PICK m \in S : t = n - m
  BY <1>3
<1>5. \A y \in S : m >= y
  <2> TAKE y \in S
  <2>1. n - y \in T /\ n - y \in Nat /\ t \in Nat
    BY <1>2, <1>3
  <2>2. ~(n - y < t)
    BY <2>1, <1>3
  <2> QED  BY <2>2, <1>4
<1> QED  BY <1>4, <1>5 DEF Max

\* resolve_value and merged_env_for_command: a variable that hook finds with
\* text in it is text in the backend's environment.
LEMMA ResolvedIsText ==
    ASSUME launch \in Launches, NEW name, Resolved(name)
    PROVE  Merged(name) = "text"
<1> DEFINE set == {i \in 1..3 : name \in DOMAIN launch.layers[i]}
           top == CHOOSE i \in set : \A j \in set : j <= i
<1>1. set # {} /\ launch.layers[top][name] # "blank"
  BY DEF Resolved
<1>2. top \in set
  BY <1>1
<1>3. launch.layers[top][name] \in {"text", "blank"}
  BY <1>2, LaunchAssumption
<1>4. Merged(name) = launch.layers[top][name]
  BY <1>1 DEF Merged
<1> QED  BY <1>1, <1>3, <1>4

\* The variables of a launch stay what they are.
LEMMA MergedKept ==
    ASSUME launch' = launch
    PROVE  /\ \A name : Merged(name)' = Merged(name)
           /\ \A name, default : Number(name, default)' = Number(name, default)
           /\ NumbersParse' = NumbersParse
           /\ \A sources : SecretsGiven(sources)' = SecretsGiven(sources)
           /\ \A mode, token : AuthTokenOk(mode, token)' = AuthTokenOk(mode, token)
<1>1. \A name : Merged(name)' = Merged(name)
  BY DEF Merged
<1>2. \A name, default : Number(name, default)' = Number(name, default)
  BY DEF Number
<1>3. NumbersParse' = NumbersParse
  BY DEF NumbersParse
<1>4. \A sources : SecretsGiven(sources)' = SecretsGiven(sources)
  BY <1>1 DEF SecretsGiven
<1>5. \A mode, token : AuthTokenOk(mode, token)' = AuthTokenOk(mode, token)
  BY <1>1 DEF AuthTokenOk
<1> QED  BY <1>1, <1>2, <1>3, <1>4, <1>5

\* What Active keeps of a list: the places of the things with a wanted id.
LEMMA ActivePlaces ==
    ASSUME NEW things, NEW ids
    PROVE  /\ \A i : i \in DOMAIN Active(things, ids) <=>
                        i \in DOMAIN things /\ things[i].id \in ids
           /\ \A i \in DOMAIN Active(things, ids) : Active(things, ids)[i] = things[i]
BY DEF Active, RestrictValues, Restrict

-----------------------------------------------------------------------------
(***************************************************************************)
(* What a contract without errors promises.                                *)
(***************************************************************************)
\* validate_contract: no errors at all means none of any kind.
LEMMA NoErrors ==
    ASSUME NEW c, NEW name, NEW mode, validate_contract(c, name, mode) = {}
    PROVE  /\ name \in DOMAIN c.profiles
           /\ ProfileRefErrors(c, c.profiles[name]) = {}
           /\ EgressErrors(c, c.profiles[name]) = {}
           /\ DestinationErrors(c, c.profiles[name]) = {}
<1> DEFINE p == c.profiles[name]
<1>1. name \in DOMAIN c.profiles
  BY DEF validate_contract
<1>2. validate_contract(c, name, mode) =
        ProfileRefErrors(c, p) \cup IngressErrors(c, p) \cup EgressErrors(c, p)
           \cup TransportErrors(c, p) \cup DestinationErrors(c, p)
           \cup NoOutputErrors(c, p) \cup LabelErrors(p, mode)
  BY <1>1 DEF validate_contract
<1> QED  BY <1>1, <1>2

\* validate_adapter_config_schema: a driver it knows, and no unknown key.
LEMMA SchemaHolds ==
    ASSUME NEW schemas, NEW driver, NEW config, NEW unsupported,
           SchemaErrors(schemas, driver, config, unsupported) = {}
    PROVE  /\ driver \in DOMAIN schemas
           /\ DOMAIN config \subseteq schemas[driver].required \cup schemas[driver].optional
BY DEF SchemaErrors

\* validate_smash_route_destinations: the destinations of the active routes are
\* active adapters.
LEMMA DestinationsActive ==
    ASSUME NEW c, NEW p, DestinationErrors(c, p) = {},
           NEW r \in Range(Active(c.smash_routes, p.smash_routes)),
           NEW d \in r.destinations
    PROVE  d.adapter_id \in Ids(Active(c.smash_adapters, p.smash_adapters))
<1> DEFINE lost == {x \in r.destinations : \/ x.adapter_id \notin p.smash_adapters
                                           \/ x.adapter_id \notin Ids(c.smash_adapters)}
<1>1. {IF x.adapter_id \notin p.smash_adapters
         THEN "inactive_destination_adapter"
         ELSE "missing_destination_adapter" : x \in lost} = {}
  BY DEF DestinationErrors
<1>2. d \notin lost
  BY <1>1
<1>3. d.adapter_id \in p.smash_adapters
  BY <1>2
<1>4. PICK i \in DOMAIN c.smash_adapters : d.adapter_id = c.smash_adapters[i].id
  BY <1>2 DEF Ids
<1>5. i \in DOMAIN Active(c.smash_adapters, p.smash_adapters)
  BY <1>3, <1>4, ActivePlaces
<1> QED  BY <1>4, <1>5, ActivePlaces DEF Ids

\* index_egress_adapters: an adapter whose id no other active one has is the
\* one its id stands for.
LEMMA ByIdUnique ==
    ASSUME NEW things, NEW n \in Nat, DOMAIN things = 1..n, NEW ids,
           ~Repeats(Active(things, ids)), NEW i \in DOMAIN Active(things, ids)
    PROVE  ById(things, things[i].id) = things[i]
<1> DEFINE same(j) == things[j].id = things[i].id
<1>1. i \in 1..n /\ things[i].id \in ids
  BY ActivePlaces
<1>2. \A j \in 1..n : same(j) => j = i
  <2> SUFFICES ASSUME NEW j \in 1..n, same(j), j # i PROVE FALSE
    OBVIOUS
  <2>1. j \in DOMAIN Active(things, ids)
    BY <1>1, ActivePlaces
  <2>2. Active(things, ids)[j].id = Active(things, ids)[i].id
    BY <2>1, ActivePlaces
  <2> QED  BY <2>1, <2>2 DEF Repeats
<1>3. i = CHOOSE k \in DOMAIN things :
             same(k) /\ \A j \in DOMAIN things : same(j) => j <= k
  BY <1>1, <1>2
<1> QED  BY <1>3 DEF ById

\* hook smash hands over nothing that the validator did not see: of a contract
\* without errors the adapters and routes, of one with errors none.
LEMMA HandedOver ==
    ASSUME NEW n \in Nat, DOMAIN contract.smash_adapters = 1..n,
           validate_contract(contract, launch.profile, Mode(contract)) = {},
           NEW env,
           LET p == contract.profiles[launch.profile]
           IN  env = SmashOverrides(Active(contract.smash_adapters, p.smash_adapters),
                                    Active(contract.smash_routes, p.smash_routes), contract)
    PROVE  DestinationsKnown(env) /\ KeysKnown(env)
<1> DEFINE p == contract.profiles[launch.profile]
           adapters == Active(contract.smash_adapters, p.smash_adapters)
           routes == Active(contract.smash_routes, p.smash_routes)
<1>1. env.adapters = adapters /\ env.routes = routes
  BY DEF SmashOverrides
<1>2. EgressErrors(contract, p) = {} /\ DestinationErrors(contract, p) = {}
  BY NoErrors
<1>3. DestinationsKnown(env)
  BY <1>1, <1>2, DestinationsActive DEF DestinationsKnown
<1>4. ASSUME ~Repeats(adapters), NEW i \in DOMAIN adapters
      PROVE  /\ adapters[i].driver \in DOMAIN EgressSchemas
             /\ DOMAIN adapters[i].config \subseteq
                    EgressSchemas[adapters[i].driver].required
                      \cup EgressSchemas[adapters[i].driver].optional
  <2> DEFINE a == contract.smash_adapters[i]
  <2>1. /\ i \in DOMAIN contract.smash_adapters
        /\ a.id \in p.smash_adapters
        /\ adapters[i] = a
    BY <1>4, ActivePlaces
  <2>2. ById(contract.smash_adapters, a.id) = a
    BY <1>4, ByIdUnique
  <2>3. a.id \in p.smash_adapters \cap Ids(contract.smash_adapters)
    BY <2>1 DEF Ids
  <2>4. a \in ActiveEgress(contract, p)
    BY <2>2, <2>3 DEF ActiveEgress
  <2>5. SchemaErrors(EgressSchemas, a.driver, a.config, "unsupported_egress_driver") = {}
    <3> DEFINE schema(b) == SchemaErrors(EgressSchemas, b.driver, b.config,
                                         "unsupported_egress_driver")
               other(b) == IF /\ b.driver = "mcp_tool_output"
                              /\ Get(b.config, "transport_ref") \notin DOMAIN contract.transports
                             THEN {"missing_transport_ref"} ELSE {}
               all == {schema(b) \cup other(b) : b \in ActiveEgress(contract, p)}
    <3>1. UNION all = {}
      BY <1>2 DEF EgressErrors
    <3>2. schema(a) \cup other(a) \in all
      <4> HIDE DEF schema, other, a
      <4> QED  BY <2>4
    <3> HIDE DEF schema, other, all, a
    <3>3. schema(a) = {}
      BY <3>1, <3>2
    <3> QED  BY <3>3 DEF schema
  <2> QED  BY <2>1, <2>5, SchemaHolds
<1>5. KeysKnown(env)
  BY <1>1, <1>4 DEF KeysKnown, Range
<1> QED  BY <1>3, <1>5

\* Without adapters and routes there is nothing to be wrong about.
LEMMA NothingHandedOver ==
    ASSUME NEW env, env = SmashOverrides(<<>>, <<>>, contract)
    PROVE  DestinationsKnown(env) /\ KeysKnown(env)
<1>1. env.adapters = <<>> /\ env.routes = <<>>
  BY DEF SmashOverrides
<1>2. Range(env.adapters) = {} /\ Range(env.routes) = {}
  BY <1>1 DEF Range
<1> QED  BY <1>2 DEF DestinationsKnown, KeysKnown

\* validate_profile_refs: the profile's adapters are handed over, all of them.
LEMMA ProfileHandedOver ==
    ASSUME NEW p, p = contract.profiles[launch.profile], NEW routes,
           validate_contract(contract, launch.profile, Mode(contract)) = {},
           NEW env,
           env = SmashOverrides(Active(contract.smash_adapters, p.smash_adapters),
                                routes, contract)
    PROVE  ProfileFollowed(env, p)
<1> DEFINE adapters == Active(contract.smash_adapters, p.smash_adapters)
<1>1. env.adapters = adapters
  BY DEF SmashOverrides
<1>2. Ids(adapters) \subseteq p.smash_adapters
  BY ActivePlaces DEF Ids
<1>3. ASSUME Empty(adapters), NEW id \in p.smash_adapters PROVE FALSE
  <2>1. Missing(p.smash_adapters, contract.smash_adapters, "missing_smash_adapter") = {}
    BY NoErrors DEF ProfileRefErrors
  <2>2. id \in Ids(contract.smash_adapters)
    BY <1>3, <2>1 DEF Missing
  <2>3. PICK i \in DOMAIN contract.smash_adapters : contract.smash_adapters[i].id = id
    BY <2>2 DEF Ids
  <2>4. i \in DOMAIN adapters
    BY <1>3, <2>3, ActivePlaces
  <2> QED  BY <1>3, <2>4 DEF Empty
<1> QED  BY <1>1, <1>2, <1>3 DEF ProfileFollowed

\* run(): the topics follow the routes, whatever list they come from.
LEMMA TopicsHandedOver ==
    ASSUME NEW adapters, NEW routes
    PROVE  TopicsFollow(SmashOverrides(adapters, routes, contract))
BY DEF TopicsFollow, SmashOverrides

-----------------------------------------------------------------------------
(***************************************************************************)
(* The lists through the edits.                                            *)
(***************************************************************************)
\* The operator's edits change keys of adapters and ids of profiles, never the
\* places of the lists.
LEMMA EditKeepsLists ==
    ASSUME ListsKept, EditContract
    PROVE  ListsKept'
<1> SUFFICES \A section \in Sections :
               /\ section \in DOMAIN contract'
               /\ DOMAIN contract'[section] = DOMAIN contract[section]
  BY DEF ListsKept
<1>1. ASSUME NEW section \in Sections, NEW i \in DOMAIN contract[section], NEW new,
             contract' = [contract EXCEPT ![section][i].config = new]
      PROVE  \A s \in Sections : s \in DOMAIN contract' /\ DOMAIN contract'[s] = DOMAIN contract[s]
  BY <1>1 DEF ListsKept, Sections
<1>2. ASSUME NEW new, contract' = [contract EXCEPT !.profiles = new]
      PROVE  \A s \in Sections : s \in DOMAIN contract' /\ DOMAIN contract'[s] = DOMAIN contract[s]
  BY <1>2 DEF ListsKept, Sections
<1>3. CASE \E section \in Sections : \E i \in DOMAIN contract[section] :
             \/ \E kv \in EditValues : SetKey(section, i, kv[1], kv[2])
             \/ \E key \in DOMAIN contract[section][i].config : DropKey(section, i, key)
  BY <1>3, <1>1 DEF SetKey, DropKey
<1>4. CASE \E name \in DOMAIN contract.profiles : \E list, id : Toggle(name, list, id)
  BY <1>4, <1>2 DEF Toggle
<1>5. CASE \E allow, sink, mode, label : Reconfigure(allow, sink, mode, label)
  BY <1>5 DEF Reconfigure, ListsKept, Sections
<1> QED  BY <1>3, <1>4, <1>5 DEF EditContract

-----------------------------------------------------------------------------
(***************************************************************************)
(* The steps of hook serve and hook-serve.                                 *)
(***************************************************************************)
\* run(): without a reason not to start, the brokers are there, and so is the
\* secret of every source that hook knew of and the contract did not replace.
LEMMA NoReasons ==
    ASSUME launch \in Launches, ServeReasons = {}, NEW active
    PROVE  /\ Merged("KAFKA_BROKERS") = "text"
           /\ active.sources = {} => SecretsGiven(ServeOverrides(active).sources)
<1> DEFINE named == OrElse(launch.sources_flag, OrElse(launch.sources_env, {}))
           known == IF named = {} THEN DefaultSources ELSE named
           missing == {x \in known \cap Handlers : ~Resolved(Secret[x])}
<1>1. {r \in {"KAFKA_BROKERS"} : ~Resolved(r)} = {} /\ {Secret[s] : s \in missing} = {}
  BY DEF ServeReasons
<1>2. Merged("KAFKA_BROKERS") = "text"
  BY <1>1, ResolvedIsText
<1>3. \A s \in known \cap Handlers : Merged(Secret[s]) = "text"
  <2> TAKE s \in known \cap Handlers
  <2>1. s \notin missing
    BY <1>1
  <2> QED  BY <2>1, ResolvedIsText
<1>4. ASSUME active.sources = {} PROVE ServeOverrides(active).sources \subseteq known
  BY <1>4 DEF ServeOverrides, OrElse
<1> QED  BY <1>2, <1>3, <1>4 DEF SecretsGiven

\* What stays true of hook serve while neither it nor the command line changes.
LEMMA ServeKept ==
    ASSUME ServeInv, UNCHANGED <<launch, serveVars>>
    PROVE  ServeInv'
<1>1. /\ servePc' = servePc /\ serveEnv' = serveEnv /\ ingress' = ingress
      /\ launch' = launch /\ serveErrors' = serveErrors /\ serveProfile' = serveProfile
  BY DEF serveVars
<1>2. ServeHanded'
  BY <1>1 DEF ServeInv, ServeHanded, Forced
<1> QED
  BY <1>1, <1>2, MergedKept
  DEF ServeInv, ServePrechecked, ServeConfigured, ServeListed, ServeMained

\* resolve_active_serve_contract: the adapters it converts keep their ids, and
\* the profile names them.
LEMMA ProfileServed ==
    ASSUME NEW a \in Range(ActiveServeContract(contract).adapters)
    PROVE  a.id \in contract.profiles[launch.profile].serve_adapters
<1> DEFINE p == contract.profiles[launch.profile]
           adapters == Active(contract.serve_adapters, p.serve_adapters)
           given == ActiveServeContract(contract).adapters
<1>1. given = [i \in DOMAIN adapters |-> ServeAdapterEnv(adapters[i])]
  BY DEF ActiveServeContract
<1>2. PICK i \in DOMAIN adapters : a = ServeAdapterEnv(adapters[i])
  <2> HIDE DEF adapters
  <2> QED  BY <1>1 DEF Range
<1>3. a.id = adapters[i].id
  BY <1>2, Zenon DEF ServeAdapterEnv
<1> QED  BY <1>2, <1>3, ActivePlaces

\* hook serve establishes what hook-serve starts from.
LEMMA HookServeStep ==
    ASSUME launch \in Launches, ListsKept, ServeInv, HookServe
    PROVE  ServeInv' /\ servePc' \in {"from_env", "refused"}
<1> DEFINE errors == validate_contract(contract, launch.profile, Mode(contract))
           active == IF errors = {} THEN ActiveServeContract(contract) ELSE NoServeContract
<1>1. CASE servePc' = "refused"
  BY <1>1 DEF ServeInv, ServePrechecked, ServeConfigured, ServeListed, ServeHanded,
              ServeMained
<1>2. CASE servePc' # "refused"
  <2>1. /\ servePc' = "from_env"
        /\ launch' = launch
        /\ serveEnv' = ServeOverrides(active)
        /\ serveErrors' = errors
        /\ serveProfile' = <<contract.profiles[launch.profile]>>
        /\ ServeReasons = {} \/ launch.force
        /\ ValidationPasses(errors)
    BY <1>2 DEF HookServe
  <2>3. serveEnv'.literal = active.sources /\ serveEnv'.adapters = active.adapters
    BY <2>1 DEF ServeOverrides
  <2>4. ServePrechecked'
    <3> SUFFICES ASSUME ~launch.force
                 PROVE  /\ Merged("KAFKA_BROKERS") = "text"
                        /\ serveEnv'.literal = {} => SecretsGiven(serveEnv'.sources)
      BY <2>1, MergedKept DEF ServePrechecked
    <3> HIDE DEF active
    <3> QED  BY <2>1, <2>3, NoReasons
  <2>5. \E n \in Nat : DOMAIN active.adapters \subseteq 1..n
    <3>1. CASE errors = {}
      <4> DEFINE p == contract.profiles[launch.profile]
                 adapters == Active(contract.serve_adapters, p.serve_adapters)
      <4>1. DOMAIN active.adapters = DOMAIN adapters
        BY <3>1 DEF ActiveServeContract
      <4>2. DOMAIN adapters \subseteq DOMAIN contract.serve_adapters
        BY ActivePlaces
      <4>3. PICK n \in Nat : DOMAIN contract.serve_adapters = 1..n
        BY DEF ListsKept, Sections
      <4> QED  BY <4>1, <4>2, <4>3
    <3>2. CASE errors # {}
      <4>1. DOMAIN <<>> = {}
        OBVIOUS
      <4>2. DOMAIN active.adapters = {}
        BY <3>2, <4>1 DEF NoServeContract
      <4> QED  BY <4>2
    <3> QED  BY <3>1, <3>2
  <2>6. ServeListed'
    BY <2>3, <2>5 DEF ServeListed
  <2>7. ASSUME errors # {}
        PROVE  /\ Forced(errors)
               /\ Empty(active.adapters) /\ Empty(active.routes) /\ active.sources = {}
    <3>1. DOMAIN <<>> = {}
      OBVIOUS
    <3>2. active = NoServeContract
      BY <2>7
    <3>3. Empty(active.adapters) /\ Empty(active.routes) /\ active.sources = {}
      BY <3>1, <3>2 DEF NoServeContract, Empty
    <3>4. Forced(errors)
      BY <2>1, <2>7 DEF ValidationPasses, Forced
    <3> QED  BY <3>3, <3>4
  <2>8. \A a \in Range(active.adapters) : a.id \in serveProfile'[1].serve_adapters
    <3>1. CASE errors = {}
      BY <2>1, <3>1, ProfileServed
    <3>2. CASE errors # {}
      BY <2>7, <3>2 DEF Empty, Range
    <3> QED  BY <3>1, <3>2
  <2>9. ServeHanded'
    <3> HIDE DEF active, errors
    <3>1. serveEnv'.routes = active.routes
      BY <2>1 DEF ServeOverrides
    <3> QED  BY <2>1, <2>3, <2>7, <2>8, <3>1 DEF ServeHanded, Forced
  <2> QED
    BY <2>1, <2>4, <2>6, <2>9 DEF ServeInv, ServeConfigured, ServeMained
<1>3. servePc' \in {"from_env", "refused"}
  BY DEF HookServe
<1> QED  BY <1>1, <1>2, <1>3

\* from_env goes on with checked sources, secrets and numbers; it never stops
\* for what hook serve has checked.
LEMMA FromEnvStep ==
    ASSUME launch \in Launches, ServeInv, FromEnv
    PROVE  /\ ServeInv'
           /\ ~launch.force => servePc' # "KAFKA_BROKERS"
           /\ ~launch.force /\ servePc' = "HMAC_SECRET" => serveEnv.literal # {}
<1>1. /\ servePc = "from_env" /\ launch' = launch /\ serveEnv' = serveEnv
      /\ servePc' = IF FromEnvError = "none" THEN "main" ELSE FromEnvError
      /\ serveErrors' = serveErrors /\ serveProfile' = serveProfile
  BY DEF FromEnv
<1>2. servePc' \notin {"from_env", "serving"}
  BY <1>1 DEF FromEnvError
<1>3. servePc' = "main" => /\ serveEnv.sources # {} /\ SecretsGiven(serveEnv.sources)
                           /\ NumbersParse
  BY <1>1 DEF FromEnvError
<1>4. ServeInv'
  BY <1>1, <1>2, <1>3, MergedKept
  DEF ServeInv, ServePrechecked, ServeConfigured, ServeListed, ServeHanded, Forced, ServeMained
<1>5. servePc' = "KAFKA_BROKERS" => Merged("KAFKA_BROKERS") # "text"
  BY <1>1 DEF FromEnvError
<1>6. servePc' = "HMAC_SECRET" => ~SecretsGiven(serveEnv.sources)
  BY <1>1 DEF FromEnvError
<1> QED  BY <1>1, <1>4, <1>5, <1>6 DEF ServeInv, ServePrechecked

\* main() comes to its listener only past the tokens, the handlers and the
\* queue.
LEMMA MainStep ==
    ASSUME ServeInv, Main
    PROVE  ServeInv' /\ servePc' \notin {"KAFKA_BROKERS", "HMAC_SECRET"}
<1> DEFINE rt == IngressRuntime(serveEnv)
<1>1. /\ servePc = "main" /\ launch' = launch /\ serveEnv' = serveEnv
      /\ servePc' \in {MainOutcome(rt), "topics_or_bind"}
      /\ servePc' = "serving" => ingress' = <<rt>>
      /\ serveErrors' = serveErrors /\ serveProfile' = serveProfile
  BY DEF Main
<1>2. MainOutcome(rt) \in {"auth_token", "handlers", "panic", "governor", "serving"}
  BY DEF MainOutcome
<1>3. MainOutcome(rt) = "serving" =>
        /\ serveEnv.sources \subseteq Handlers
        /\ Number("RELAY_PUBLISH_QUEUE_CAPACITY", 4096) # 0
        /\ \A a \in Range(serveEnv.adapters) :
              a.driver \in {"websocket_ingress", "mcp_ingest_exposed"} =>
                  AuthTokenOk(a.auth_mode, a.token_env)
  BY DEF MainOutcome
<1>4. servePc' \notin {"from_env", "main"} /\ (servePc' = "serving" => MainOutcome(rt) = "serving")
  BY <1>1, <1>2
<1>5. IngressRuntime(serveEnv)' = rt
  BY <1>1
<1>6. ServeMained'
  BY <1>1, <1>3, <1>4, <1>5, MergedKept DEF ServeMained
<1>7. ServeHanded'
  BY <1>1 DEF ServeInv, ServeHanded, Forced
<1> QED
  BY <1>1, <1>2, <1>4, <1>6, <1>7, MergedKept
  DEF ServeInv, ServePrechecked, ServeConfigured, ServeListed

-----------------------------------------------------------------------------
(***************************************************************************)
(* The steps of hook smash and hook-smash.                                 *)
(***************************************************************************)
\* What from_env answers depends on the command line and the handed environment.
LEMMA SmashErrorKept ==
    ASSUME launch' = launch, NEW env, NEW config
    PROVE  SmashFromEnvError(env, config)' = SmashFromEnvError(env, config)
BY MergedKept DEF SmashFromEnvError

\* What stays true of hook smash while neither it nor the command line changes.
LEMMA SmashKept ==
    ASSUME SmashInv, UNCHANGED <<launch, smashVars>>
    PROVE  SmashInv'
<1>1. /\ smashPc' = smashPc /\ smashEnv' = smashEnv /\ smashConfig' = smashConfig
      /\ launch' = launch /\ smashProfile' = smashProfile /\ smashErrors' = smashErrors
  BY DEF smashVars
<1>2. SmashPrechecked'
  BY <1>1, MergedKept DEF SmashInv, SmashPrechecked
<1>3. SmashHanded'
  BY <1>1 DEF SmashInv, SmashHanded, TopicsFollow, ProfileFollowed
<1>4. SmashConfigured'
  BY <1>1, SmashErrorKept DEF SmashInv, SmashConfigured
<1>5. SmashBare'
  BY <1>1 DEF SmashInv, SmashBare, Forced
<1> QED  BY <1>2, <1>3, <1>4, <1>5 DEF SmashInv

\* hook smash hands over an environment whose references hold, with the brokers
\* unless it was forced.
LEMMA HookSmashStep ==
    ASSUME launch \in Launches, ListsKept, SmashInv, HookSmash
    PROVE  SmashInv' /\ smashPc' \in {"from_env", "refused"}
<1> DEFINE errors == validate_contract(contract, launch.profile, Mode(contract))
           p == contract.profiles[launch.profile]
           full == SmashOverrides(Active(contract.smash_adapters, p.smash_adapters),
                                  Active(contract.smash_routes, p.smash_routes), contract)
           env == IF errors = {} THEN full ELSE SmashOverrides(<<>>, <<>>, contract)
<1>1. CASE smashPc' = "refused"
  BY <1>1 DEF SmashInv, SmashPrechecked, SmashHanded, SmashBare, SmashConfigured
<1>2. CASE smashPc' # "refused"
  <2>1. /\ smashPc' = "from_env" /\ smashEnv' = env /\ launch' = launch
        /\ smashProfile' = <<p>>
        /\ SmashReasons(env) = {} \/ launch.force
        /\ errors = {} \/ Forced(errors)
        /\ smashErrors' = errors
    BY <1>2 DEF HookSmash, ValidationPasses, Forced
  <2>2. DestinationsKnown(env) /\ KeysKnown(env)
    <3>1. CASE errors = {}
      <4>1. PICK n \in Nat : DOMAIN contract.smash_adapters = 1..n
        BY DEF ListsKept, Sections
      <4> QED  BY <3>1, <4>1, HandedOver
    <3>2. CASE errors # {}
      BY <3>2, NothingHandedOver
    <3> QED  BY <3>1, <3>2
  <2>3. TopicsFollow(env)
    BY TopicsHandedOver
  <2>4. SmashHanded'
    <3>1. ProfileFollowed(env, p)
      <4>1. CASE errors = {}
        BY <4>1, ProfileHandedOver
      <4>2. CASE errors # {}
        <5>1. env.adapters = <<>>
          BY <4>2 DEF SmashOverrides
        <5>2. Ids(env.adapters) = {}
          BY <5>1 DEF Ids
        <5> HIDE DEF env, p
        <5> QED  BY <2>1, <4>2, <5>2 DEF ProfileFollowed, Forced
      <4> QED  BY <4>1, <4>2
    <3>2. smashProfile'[1] = p
      BY <2>1
    <3> HIDE DEF env, p
    <3> QED  BY <2>1, <2>2, <2>3, <3>1, <3>2 DEF SmashHanded, TopicsFollow, ProfileFollowed
  <2>5. SmashPrechecked'
    <3> HIDE DEF env
    <3>1. SmashReasons(env) = {} => Resolved("KAFKA_BROKERS")
      BY DEF SmashReasons
    <3> QED  BY <2>1, <3>1, ResolvedIsText, MergedKept DEF SmashPrechecked
  <2>6. SmashBare'
    <3>1. DOMAIN <<>> = {}
      OBVIOUS
    <3>2. errors # {} => Empty(env.adapters) /\ Empty(env.routes)
      BY <3>1 DEF SmashOverrides, Empty
    <3> HIDE DEF env, errors
    <3> QED  BY <2>1, <3>2 DEF SmashBare, Forced
  <2> QED  BY <2>1, <2>4, <2>5, <2>6 DEF SmashInv, SmashConfigured
<1>3. smashPc' \in {"from_env", "refused"}
  BY DEF HookSmash
<1> QED  BY <1>1, <1>2, <1>3

\* A config chosen from an environment whose references hold has an adapter for
\* every destination; it has topics, once routes and adapters go together.
LEMMA ChosenRefers ==
    ASSUME NEW env, DestinationsKnown(env),
           NEW config, config = ChooseConfig(env)
    PROVE  /\ \A d \in ActiveDestinations(config) :
                 d.adapter_id \in {a.id : a \in config.adapters}
           /\ Empty(env.routes) = Empty(env.adapters) => config.topics # {}
<1>1. CASE Empty(env.routes) /\ Empty(env.adapters)
  <2>1. PICK topics : /\ topics # {}
                      /\ config.adapters = {LegacyAdapter}
                      /\ config.routes = {LegacyRoute(t) : t \in topics}
                      /\ config.topics = topics
    BY <1>1 DEF ChooseConfig
  <2>2. ASSUME NEW d \in ActiveDestinations(config)
        PROVE  d.adapter_id = "openclaw-output"
    BY <2>1, <2>2 DEF ActiveDestinations, LegacyRoute
  <2>3. LegacyAdapter.id = "openclaw-output"
    BY DEF LegacyAdapter
  <2> QED  BY <2>1, <2>2, <2>3
<1>2. CASE ~(Empty(env.routes) /\ Empty(env.adapters))
  <2>1. /\ config.adapters = Range(env.adapters)
        /\ config.routes = Range(env.routes)
        /\ config.topics = IF env.topics # {} THEN env.topics ELSE Topics(env.routes)
    BY <1>2 DEF ChooseConfig
  <2>2. ASSUME NEW d \in ActiveDestinations(config)
        PROVE  d.adapter_id \in {a.id : a \in config.adapters}
    <3>1. PICK r \in Range(env.routes) : d \in r.destinations
      BY <2>1, <2>2 DEF ActiveDestinations
    <3>2. PICK i \in DOMAIN env.adapters : d.adapter_id = env.adapters[i].id
      BY <3>1 DEF DestinationsKnown, Ids
    <3> QED  BY <2>1, <3>2 DEF Range
  <2>3. ~Empty(env.routes) => Topics(env.routes) # {}
    BY DEF Empty, Topics
  <2> QED  BY <1>2, <2>1, <2>2, <2>3
<1> QED  BY <1>1, <1>2

\* from_env of hook-smash stops neither for an unknown adapter nor for want of
\* topics, and for the brokers only when hook smash was forced.
LEMMA SmashFromEnvStep ==
    ASSUME launch \in Launches, SmashInv, SmashFromEnv
    PROVE  /\ SmashInv'
           /\ smashPc' \notin {"unknown_adapter", "KAFKA_TOPICS"}
           /\ ~launch.force => smashPc' # "KAFKA_BROKERS"
<1> DEFINE config == ChooseConfig(smashEnv)
           error == SmashFromEnvError(smashEnv, config)
<1>1. /\ smashPc = "from_env" /\ launch' = launch /\ smashEnv' = smashEnv
      /\ smashProfile' = smashProfile /\ smashErrors' = smashErrors
      /\ smashPc' = IF error = "none" THEN "build" ELSE error
      /\ error = "none" => smashConfig' = <<config>>
  BY DEF SmashFromEnv
<1>2. /\ DestinationsKnown(smashEnv) /\ KeysKnown(smashEnv) /\ TopicsFollow(smashEnv)
      /\ ProfileFollowed(smashEnv, smashProfile[1])
  BY <1>1 DEF SmashInv, SmashHanded
<1>3. /\ \A d \in ActiveDestinations(config) : d.adapter_id \in {a.id : a \in config.adapters}
      /\ Empty(smashEnv.routes) = Empty(smashEnv.adapters) => config.topics # {}
  BY <1>2, ChosenRefers
<1>4. /\ error \notin {"unknown_adapter", "KAFKA_TOPICS", "from_env", "build", "running"}
      /\ error = "KAFKA_BROKERS" => Merged("KAFKA_BROKERS") # "text"
  <2> HIDE DEF config
  <2> QED  BY <1>3 DEF SmashFromEnvError
<1>5. ~launch.force => Merged("KAFKA_BROKERS") = "text"
  BY <1>1 DEF SmashInv, SmashPrechecked
<1>6. SmashConfigured'
  BY <1>1, <1>4, SmashErrorKept DEF SmashConfigured
<1>7. SmashPrechecked' /\ SmashHanded'
  BY <1>1, <1>2, <1>4 DEF SmashPrechecked, SmashHanded, TopicsFollow, ProfileFollowed
<1>8. SmashBare'
  BY <1>1, <1>4 DEF SmashInv, SmashBare, Forced
<1> QED  BY <1>1, <1>4, <1>5, <1>6, <1>7, <1>8 DEF SmashInv

\* build_runtime_adapters starts what from_env made, or stops.
LEMMA BuildStep ==
    ASSUME SmashInv, BuildRuntimeAdapters
    PROVE  SmashInv' /\ smashPc' \in {"running", "bind", "auth_token"}
<1>1. /\ smashPc = "build" /\ launch' = launch /\ smashEnv' = smashEnv
      /\ smashProfile' = smashProfile /\ smashErrors' = smashErrors
      /\ smashConfig' = smashConfig /\ smashPc' \in {"running", "bind", "auth_token"}
  BY DEF BuildRuntimeAdapters
<1>2. SmashConfigured'
  BY <1>1, SmashErrorKept DEF SmashInv, SmashConfigured
<1>3. SmashPrechecked' /\ SmashHanded'
  BY <1>1 DEF SmashInv, SmashPrechecked, SmashHanded, TopicsFollow, ProfileFollowed
<1>4. SmashBare'
  BY <1>1 DEF SmashInv, SmashBare, Forced
<1> QED  BY <1>1, <1>2, <1>3, <1>4 DEF SmashInv

-----------------------------------------------------------------------------
(***************************************************************************)
(* The invariant is inductive.                                             *)
(***************************************************************************)
\* Before either command has run there is nothing to check.
LEMMA InitInv == Init => IInv
<1> SUFFICES ASSUME Init PROVE IInv
  OBVIOUS
<1>1. /\ launch \in Launches /\ servePc = "down" /\ smashPc = "down"
      /\ contract \in BaseContracts
  BY DEF Init, ContractInit, ServeInit, SmashInit
<1>2. ListsKept
  BY <1>1, ContractAssumption DEF ListsKept
<1> QED
  BY <1>1, <1>2
  DEF IInv, ServeInv, SmashInv, ServePrechecked, ServeConfigured, ServeListed, ServeHanded,
      ServeMained, SmashPrechecked, SmashHanded, SmashBare, SmashConfigured, PrecheckAgrees,
      ReferencesHold

\* An edit of the file changes nothing of what was started.
LEMMA EditInv ==
    ASSUME IInv, EditContract, UNCHANGED <<launch, serveVars, smashVars>>
    PROVE  IInv'
<1>1. ListsKept'
  BY EditKeepsLists DEF IInv
<1>2. ServeInv' /\ SmashInv'
  BY ServeKept, SmashKept DEF IInv
<1> QED
  BY <1>1, <1>2
  DEF IInv, serveVars, smashVars, PrecheckAgrees, ReferencesHold

\* A step of hook serve or hook-serve.
LEMMA ServeStepInv ==
    ASSUME IInv, ServeStep, UNCHANGED smashVars
    PROVE  IInv'
<1> USE DEF IInv
<1>1. /\ launch' = launch /\ contract' = contract
      /\ smashPc' = smashPc /\ smashVars' = smashVars
  BY DEF ServeStep, HookServe, FromEnv, Main, smashVars
<1>2. launch' \in Launches /\ ListsKept' /\ SmashInv' /\ ReferencesHold'
  BY <1>1, SmashKept DEF ListsKept, ReferencesHold
<1>3. CASE HookServe
  BY <1>1, <1>2, <1>3, HookServeStep DEF PrecheckAgrees
<1>4. CASE FromEnv
  <2>1. serveEnv' = serveEnv
    BY <1>4 DEF FromEnv
  <2>2. PrecheckAgrees'
    BY <1>1, <1>4, <2>1, FromEnvStep DEF PrecheckAgrees
  <2> QED  BY <1>2, <1>4, <2>2, FromEnvStep
<1>5. CASE Main
  BY <1>1, <1>2, <1>5, MainStep DEF PrecheckAgrees
<1> QED  BY <1>3, <1>4, <1>5 DEF ServeStep

\* A step of hook smash or hook-smash.
LEMMA SmashStepInv ==
    ASSUME IInv, SmashStep
    PROVE  IInv'
<1> USE DEF IInv
<1>1. /\ launch' = launch /\ contract' = contract
      /\ servePc' = servePc /\ serveVars' = serveVars
      /\ serveEnv' = serveEnv
  BY DEF SmashStep, HookSmash, SmashFromEnv, BuildRuntimeAdapters, serveVars
<1>2. launch' \in Launches /\ ListsKept' /\ ServeInv'
  BY <1>1, ServeKept DEF ListsKept
<1>3. /\ SmashInv' /\ ReferencesHold'
      /\ ~launch.force => smashPc' # "KAFKA_BROKERS"
  <2>1. CASE HookSmash
    BY <2>1, HookSmashStep DEF ReferencesHold
  <2>2. CASE SmashFromEnv
    BY <2>2, SmashFromEnvStep DEF ReferencesHold
  <2>3. CASE BuildRuntimeAdapters
    BY <2>3, BuildStep DEF ReferencesHold
  <2> QED  BY <2>1, <2>2, <2>3 DEF SmashStep
<1>4. PrecheckAgrees'
  BY <1>1, <1>3 DEF PrecheckAgrees
<1> QED  BY <1>2, <1>3, <1>4

\* Every state that hook serve and hook smash reach, from whatever contract,
\* edits and command line, satisfies the inductive invariant.
THEOREM LaunchInv == Spec => []IInv
<1>1. IInv /\ [Next]_vars => IInv'
  <2> SUFFICES ASSUME IInv, [Next]_vars PROVE IInv'
    OBVIOUS
  <2>1. CASE EditContract /\ UNCHANGED <<launch, serveVars, smashVars>>
    BY <2>1, EditInv
  <2>2. CASE ServeStep /\ UNCHANGED smashVars
    BY <2>2, ServeStepInv
  <2>3. CASE SmashStep
    BY <2>3, SmashStepInv
  <2>4. CASE UNCHANGED vars
    <3>1. contract' = contract /\ UNCHANGED <<launch, serveVars, smashVars>>
      BY <2>4 DEF vars
    <3>2. ServeInv' /\ SmashInv'
      BY <3>1, ServeKept, SmashKept DEF IInv
    <3> QED
      BY <3>1, <3>2
      DEF IInv, serveVars, smashVars, ListsKept, PrecheckAgrees, ReferencesHold
  <2> QED  BY <2>1, <2>2, <2>3, <2>4 DEF Next
<1> QED  BY InitInv, <1>1, PTL DEF Spec

-----------------------------------------------------------------------------
(***************************************************************************)
(* The properties.                                                         *)
(***************************************************************************)
\* from_env and main: a running server has a handler and a secret for each of
\* its sources, and positive limits.
THEOREM ServingAssumptionsMet == Spec => []ServingMeetsAssumptions
<1>1. IInv => ServingMeetsAssumptions
  <2> SUFFICES ASSUME IInv, servePc = "serving"
               PROVE  /\ serveEnv.sources # {}
                      /\ \A s \in serveEnv.sources : s \in Handlers /\ Merged(Secret[s]) = "text"
                      /\ Number("RELAY_PUBLISH_QUEUE_CAPACITY", 4096) > 0
                      /\ Number("RELAY_DEDUP_TTL_SECONDS", 604800) > 0
                      /\ Number("RELAY_COOLDOWN_SECONDS", 30) > 0
    BY DEF ServingMeetsAssumptions
  <2>1. /\ serveEnv.sources # {} /\ SecretsGiven(serveEnv.sources) /\ NumbersParse
        /\ serveEnv.sources \subseteq Handlers
        /\ Number("RELAY_PUBLISH_QUEUE_CAPACITY", 4096) # 0
    BY DEF IInv, ServeInv, ServeConfigured, ServeMained
  <2>2. \A name \in DOMAIN launch.numbers : launch.numbers[name] \in Int
    BY LaunchAssumption DEF IInv
  <2>3. /\ Number("RELAY_PUBLISH_QUEUE_CAPACITY", 4096) > 0
        /\ Number("RELAY_DEDUP_TTL_SECONDS", 604800) > 0
        /\ Number("RELAY_COOLDOWN_SECONDS", 30) > 0
    BY <2>1, <2>2 DEF NumbersParse, Number, PositiveNumbers
  <2> QED  BY <2>1, <2>3 DEF SecretsGiven
<1> QED  BY LaunchInv, <1>1, PTL

\* The endpoint that resolve_ingress_runtime takes of a driver is one of the
\* adapters it was given.
LEMMA LastOfDriver ==
    ASSUME NEW adapters, NEW n \in Nat, DOMAIN adapters \subseteq 1..n, NEW driver,
           ~Empty(OfDriver(adapters, driver))
    PROVE  /\ LastOf(OfDriver(adapters, driver)) \in Range(adapters)
           /\ LastOf(OfDriver(adapters, driver)).driver = driver
<1> DEFINE as == OfDriver(adapters, driver)
           last == Max(DOMAIN as)
<1>1. DOMAIN as \in SUBSET (1..n) /\ DOMAIN as # {}
  BY DEF OfDriver, RestrictValues, Restrict, Empty
<1>2. last \in DOMAIN as
  <2> HIDE DEF as
  <2> QED  BY <1>1, LastPlace
<1>3. last \in DOMAIN adapters /\ as[last] = adapters[last] /\ adapters[last].driver = driver
  <2> HIDE DEF last
  <2> QED  BY <1>2 DEF OfDriver, RestrictValues, Restrict
<1> QED  BY <1>3 DEF LastOf, Range

\* What a running server selected: its endpoints are adapters that it was given,
\* of their drivers, and without adapters there are none.
LEMMA Selected ==
    ASSUME IInv, servePc = "serving"
    PROVE  /\ \A a \in Range(ingress[1].websocket) \cup Range(ingress[1].mcp) :
                 /\ a \in Range(serveEnv.adapters)
                 /\ a.driver \in {"websocket_ingress", "mcp_ingest_exposed"}
           /\ \A a \in Range(ingress[1].kafka) : a \in Range(serveEnv.adapters)
           /\ Empty(serveEnv.adapters) =>
                Empty(ingress[1].websocket) /\ Empty(ingress[1].mcp) /\ Empty(ingress[1].kafka)
<1> DEFINE ofDriver(driver) == OfDriver(serveEnv.adapters, driver)
           endpoint(driver) == Endpoint(serveEnv.adapters, driver)
<1>1. ingress[1] = IngressRuntime(serveEnv)
  BY DEF IInv, ServeInv, ServeMained
<1>2. /\ ingress[1].websocket = endpoint("websocket_ingress")
      /\ ingress[1].mcp = endpoint("mcp_ingest_exposed")
      /\ ingress[1].kafka = ofDriver("kafka_ingress")
  <2>1. IngressRuntime(serveEnv).websocket = endpoint("websocket_ingress")
    BY Zenon DEF IngressRuntime
  <2>2. IngressRuntime(serveEnv).mcp = endpoint("mcp_ingest_exposed")
    BY Zenon DEF IngressRuntime
  <2>3. IngressRuntime(serveEnv).kafka = ofDriver("kafka_ingress")
    BY Zenon DEF IngressRuntime
  <2> QED  BY <1>1, <2>1, <2>2, <2>3
<1>3. PICK n \in Nat : DOMAIN serveEnv.adapters \subseteq 1..n
  BY DEF IInv, ServeInv, ServeListed
<1>4. ASSUME NEW driver, NEW a \in Range(endpoint(driver))
      PROVE  a \in Range(serveEnv.adapters) /\ a.driver = driver
  <2>1. Range(<<>>) = {}
    BY DEF Range
  <2>2. Range(<<LastOf(ofDriver(driver))>>) = {LastOf(ofDriver(driver))}
    <3> HIDE DEF ofDriver
    <3> QED  BY DEF Range
  <2>3. endpoint(driver) =
          IF Empty(ofDriver(driver)) THEN <<>> ELSE <<LastOf(ofDriver(driver))>>
    BY DEF Endpoint
  <2>4. ~Empty(ofDriver(driver)) /\ a = LastOf(ofDriver(driver))
    <3> HIDE DEF ofDriver, endpoint
    <3> QED  BY <1>4, <2>1, <2>2, <2>3
  <2> QED  BY <1>3, <2>4, LastOfDriver
<1>5. ASSUME NEW driver
      PROVE  /\ \A a \in Range(ofDriver(driver)) : a \in Range(serveEnv.adapters)
             /\ Empty(serveEnv.adapters) => Empty(ofDriver(driver)) /\ Empty(endpoint(driver))
  <2>1. DOMAIN <<>> = {}
    OBVIOUS
  <2>2. /\ DOMAIN ofDriver(driver) \subseteq DOMAIN serveEnv.adapters
        /\ \A i \in DOMAIN ofDriver(driver) : ofDriver(driver)[i] = serveEnv.adapters[i]
    BY DEF OfDriver, RestrictValues, Restrict
  <2>3. Empty(ofDriver(driver)) => Empty(endpoint(driver))
    BY <2>1 DEF Endpoint, Empty
  <2> HIDE DEF ofDriver, endpoint
  <2> QED  BY <2>2, <2>3 DEF Range, Empty
<1> HIDE DEF ofDriver, endpoint
<1> QED  BY <1>2, <1>4, <1>5

\* resolve_active_serve_contract and resolve_active_smash_contract: what --force
\* starts over validation errors has nothing of the contract, and none of the
\* errors was security-critical.
THEOREM ForcedStartsBare == Spec => []ForcedStartIsBare
<1>1. ASSUME IInv, servePc = "serving", serveErrors # {}
      PROVE  /\ launch.force /\ security_critical(serveErrors) = {}
             /\ Empty(ingress[1].websocket) /\ Empty(ingress[1].mcp) /\ Empty(ingress[1].kafka)
             /\ Empty(serveEnv.routes) /\ serveEnv.literal = {}
  BY <1>1, Selected DEF IInv, ServeInv, ServeHanded, Forced
<1>2. ASSUME IInv, smashPc = "running", smashErrors # {}
      PROVE  /\ launch.force /\ security_critical(smashErrors) = {}
             /\ smashConfig[1].adapters = {LegacyAdapter}
  <2>1. /\ Forced(smashErrors) /\ Empty(smashEnv.adapters) /\ Empty(smashEnv.routes)
        /\ smashConfig[1] = ChooseConfig(smashEnv)
    BY <1>2 DEF IInv, SmashInv, SmashBare, SmashConfigured
  <2> QED  BY <2>1 DEF Forced, ChooseConfig
<1>3. IInv => ForcedStartIsBare
  BY <1>1, <1>2 DEF ForcedStartIsBare
<1> QED  BY LaunchInv, <1>3, PTL

\* resolve_active_serve_contract and resolve_ingress_runtime: the endpoints of a
\* running server are the profile's, and none that asks for a token lacks it.
THEOREM ProfileEndpoints == Spec => []EndpointsOfProfile
<1>1. ASSUME IInv, servePc = "serving",
             NEW a \in Range(serveEnv.adapters)
      PROVE  a.id \in serveProfile[1].serve_adapters
  BY <1>1 DEF IInv, ServeInv, ServeHanded
<1>2. ASSUME IInv, servePc = "serving",
             NEW a \in Range(ingress[1].websocket) \cup Range(ingress[1].mcp),
             a.auth_mode \notin {"none", "None"}
      PROVE  Merged(a.token_env) = "text"
  <2>1. AuthTokenOk(a.auth_mode, a.token_env)
    BY <1>2, Selected DEF IInv, ServeInv, ServeMained
  <2> QED  BY <1>2, <2>1 DEF AuthTokenOk
<1>3. IInv => EndpointsOfProfile
  BY <1>1, <1>2, Selected DEF EndpointsOfProfile
<1> QED  BY LaunchInv, <1>3, PTL

\* resolve_value and from_env: without --force no backend fails for want of
\* the brokers, and a secret is missing only for sources of the contract's routes.
THEOREM PrecheckAgreed == Spec => []PrecheckAgrees
<1>1. IInv => PrecheckAgrees
  BY DEF IInv
<1> QED  BY LaunchInv, <1>1, PTL

\* validate_smash_route_destinations: hook-smash meets no destination without
\* an adapter and no list without topics.
THEOREM ReferencesKept == Spec => []ReferencesHold
<1>1. IInv => ReferencesHold
  BY DEF IInv
<1> QED  BY LaunchInv, <1>1, PTL

\* from_env of hook-smash returned a Config: every check it makes has passed.
LEMMA ChecksPassed ==
    ASSUME NEW env, NEW config, SmashFromEnvError(env, config) = "none"
    PROVE  /\ ~Repeats(env.adapters)
           /\ \A a \in config.adapters : EgressAdapterOk(a, DOMAIN env.transports)
           /\ \A d \in ActiveDestinations(config) : d.adapter_id \in {a.id : a \in config.adapters}
           /\ ActiveDestinations(config) = {} => env.sink # "unset"
           /\ Empty(env.routes) = Empty(env.adapters)
BY DEF SmashFromEnvError

\* validate(): an adapter with only keys of its schema that passes the checks
\* has no limit or timeout of zero.
LEMMA NothingIsZero ==
    ASSUME NEW a, NEW transports, EgressAdapterOk(a, transports),
           a.driver \in DOMAIN EgressSchemas,
           DOMAIN a.config \subseteq EgressSchemas[a.driver].required
                                       \cup EgressSchemas[a.driver].optional,
           NEW k \in {"timeout_seconds", "send_timeout_ms", "max_clients",
                      "queue_depth_per_client"}
    PROVE  Get(a.config, k) # "zero"
<1> SUFFICES ASSUME k \in DOMAIN a.config PROVE a.config[k] # "zero"
  BY DEF Get
<1>1. a.driver \in {"openclaw_http_output", "mcp_tool_output", "websocket_client_output",
                    "websocket_server_output", "kafka_output"}
  BY DEF EgressSchemas
<1>2. CASE a.driver = "openclaw_http_output"
  BY <1>2 DEF EgressSchemas, Schema, EgressAdapterOk
<1>3. CASE a.driver = "mcp_tool_output"
  BY <1>3 DEF EgressSchemas, Schema
<1>4. CASE a.driver = "websocket_client_output"
  BY <1>4 DEF EgressSchemas, Schema, EgressAdapterOk
<1>5. CASE a.driver = "websocket_server_output"
  BY <1>5 DEF EgressSchemas, Schema, EgressAdapterOk
<1>6. CASE a.driver = "kafka_output"
  BY <1>6 DEF EgressSchemas, Schema
<1> QED  BY <1>1, <1>2, <1>3, <1>4, <1>5, <1>6

\* The ids of a chosen config's adapters do not repeat.
LEMMA OneAdapterPerId ==
    ASSUME NEW env, ~Repeats(env.adapters),
           NEW a \in ChooseConfig(env).adapters, NEW b \in ChooseConfig(env).adapters,
           a.id = b.id
    PROVE  a = b
<1>1. CASE Empty(env.routes) /\ Empty(env.adapters)
  BY <1>1 DEF ChooseConfig
<1>2. CASE ~(Empty(env.routes) /\ Empty(env.adapters))
  <2>1. ChooseConfig(env).adapters = Range(env.adapters)
    BY <1>2 DEF ChooseConfig
  <2>2. PICK i \in DOMAIN env.adapters : a = env.adapters[i]
    BY <2>1 DEF Range
  <2>3. PICK j \in DOMAIN env.adapters : b = env.adapters[j]
    BY <2>1 DEF Range
  <2> QED  BY <2>2, <2>3 DEF Repeats
<1> QED  BY <1>1, <1>2

\* The adapters of a chosen config have no limit or timeout of zero.
LEMMA ChosenNotZero ==
    ASSUME NEW env, KeysKnown(env), ~Repeats(env.adapters),
           NEW a \in ChooseConfig(env).adapters,
           EgressAdapterOk(a, DOMAIN env.transports),
           NEW k \in {"timeout_seconds", "send_timeout_ms", "max_clients",
                      "queue_depth_per_client"}
    PROVE  Get(a.config, k) # "zero"
<1>1. CASE Empty(env.routes) /\ Empty(env.adapters)
  <2>1. a = LegacyAdapter
    BY <1>1 DEF ChooseConfig
  <2> QED  BY <2>1 DEF LegacyAdapter, Get
<1>2. CASE ~(Empty(env.routes) /\ Empty(env.adapters))
  <2>1. a \in Range(env.adapters)
    BY <1>2 DEF ChooseConfig
  <2> QED  BY <2>1, NothingIsZero DEF KeysKnown
<1> QED  BY <1>1, <1>2

\* A chosen config reads the topics of its routes, unless a flag named others.
LEMMA ChosenTopics ==
    ASSUME NEW env, TopicsFollow(env), launch.topics_flag = <<>>,
           Empty(env.routes) = Empty(env.adapters),
           NEW r \in ChooseConfig(env).routes
    PROVE  r.source_topic_pattern \in ChooseConfig(env).topics
<1>1. CASE Empty(env.routes) /\ Empty(env.adapters)
  <2>1. PICK t \in ChooseConfig(env).topics : r = LegacyRoute(t)
    BY <1>1 DEF ChooseConfig
  <2> QED  BY <2>1 DEF LegacyRoute
<1>2. CASE ~(Empty(env.routes) /\ Empty(env.adapters))
  <2>1. /\ r \in Range(env.routes)
        /\ ChooseConfig(env).topics = IF env.topics # {} THEN env.topics ELSE Topics(env.routes)
    BY <1>2 DEF ChooseConfig
  <2>2. env.topics = Topics(env.routes)
    BY <1>2 DEF TopicsFollow
  <2>3. r.source_topic_pattern \in Topics(env.routes)
    BY <2>1 DEF Range, Topics
  <2> QED  BY <2>1, <2>2, <2>3
<1> QED  BY <1>1, <1>2

\* validate and build_runtime_adapters: a running consumer has one adapter per
\* destination, positive limits, a sink when it has no output, and the topics of
\* its routes.
THEOREM RunningAssumptionsMet == Spec => []RunningMeetsAssumptions
<1>1. IInv => RunningMeetsAssumptions
  <2> SUFFICES ASSUME IInv, smashPc = "running" PROVE RunningMeetsAssumptions
    BY DEF RunningMeetsAssumptions
  <2>1. PICK env : env = smashEnv
    OBVIOUS
  <2>2. PICK config : config = ChooseConfig(env)
    OBVIOUS
  <2>3. /\ smashConfig[1] = config
        /\ SmashFromEnvError(env, config) = "none"
        /\ KeysKnown(env) /\ TopicsFollow(env)
    BY <2>1, <2>2 DEF IInv, SmashInv, SmashHanded, SmashConfigured
  <2>4. ASSUME NEW d \in ActiveDestinations(config)
        PROVE  Cardinality({a \in config.adapters : a.id = d.adapter_id}) = 1
    <3>1. PICK b \in config.adapters : b.id = d.adapter_id
      BY <2>3, <2>4, ChecksPassed
    <3>2. {a \in config.adapters : a.id = d.adapter_id} = {b}
      BY <3>1, <2>2, <2>3, ChecksPassed, OneAdapterPerId
    <3> QED  BY <3>2, FS_Singleton
  <2>5. ASSUME NEW a \in config.adapters,
               NEW k \in {"timeout_seconds", "send_timeout_ms", "max_clients",
                          "queue_depth_per_client"}
        PROVE  Get(a.config, k) # "zero"
    BY <2>2, <2>3, <2>5, ChecksPassed, ChosenNotZero
  <2>6. ActiveDestinations(config) = {} => smashEnv.sink # "unset"
    BY <2>1, <2>3, ChecksPassed
  <2>7. \/ launch.topics_flag # <<>>
        \/ {r.source_topic_pattern : r \in config.routes} \subseteq config.topics
    BY <2>2, <2>3, ChecksPassed, ChosenTopics
  <2> QED  BY <2>3, <2>4, <2>5, <2>6, <2>7 DEF RunningMeetsAssumptions
<1> QED  BY LaunchInv, <1>1, PTL

\* What does hold where OnlyProfileOutputs fails: a consumer started without
\* --force from a profile that names an output delivers to outputs of that
\* profile alone (resolve_active_smash_contract, from_env).
NamedOutputsOnly ==
    smashPc = "running" /\ ~launch.force /\ smashProfile[1].smash_adapters # {} =>
        {a.id : a \in smashConfig[1].adapters} \subseteq smashProfile[1].smash_adapters

\* Without --force the one way out of OnlyProfileOutputs is a profile without
\* outputs, for which from_env falls back to the openclaw adapter.
THEOREM OutputsOfProfile == Spec => []NamedOutputsOnly
<1>1. IInv => NamedOutputsOnly
  <2> SUFFICES ASSUME IInv, smashPc = "running", ~launch.force,
                      smashProfile[1].smash_adapters # {},
                      NEW a \in smashConfig[1].adapters
               PROVE  a.id \in smashProfile[1].smash_adapters
    BY DEF NamedOutputsOnly
  <2>1. /\ smashConfig[1] = ChooseConfig(smashEnv)
        /\ ProfileFollowed(smashEnv, smashProfile[1])
    BY DEF IInv, SmashInv, SmashHanded, SmashConfigured
  <2>2. ~Empty(smashEnv.adapters)
    BY <2>1 DEF ProfileFollowed
  <2>3. a \in Range(smashEnv.adapters)
    BY <2>1, <2>2 DEF ChooseConfig
  <2> QED  BY <2>1, <2>3 DEF ProfileFollowed, Range, Ids
<1> QED  BY LaunchInv, <1>1, PTL

=============================================================================
