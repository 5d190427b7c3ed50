--------------------------- MODULE Configuration ---------------------------
(***************************************************************************)
(* How a process gets its configuration: from the built-in defaults and    *)
(* the YAML file, which a library has merged, the AUTHGUARD__ variables    *)
(* are written over it in the order the environment lists them, ${NAME}    *)
(* references are replaced in the part the service owns, the result is     *)
(* decoded, validated and installed.                                       *)
(*                                                                         *)
(* A YAML document is a function from node paths to "map", "seq", "null"   *)
(* or a scalar.  Property names are taken up to normalized_property_name,  *)
(* so the spellings of one property are one segment.                       *)
(***************************************************************************)
EXTENDS ConfigurationSettings

CONSTANTS
    ReferenceTo,    \* the scalars written ${NAME}, and the name
    RuntimeNames,   \* names that provider templates replace at run time
    Environments    \* what a process may be started with: the merged file, the
                    \* variables (a name that is refused has no path), the secrets

VARIABLES
    service,        \* the command: "authn" or "authz"
    environment,    \* names the file, variables and secrets of the process
    document,       \* the merged YAML
    remaining,      \* AUTHGUARD__ variables that are not applied yet
    stage,          \* "merging", "installed" or "rejected"
    config          \* APP_CONFIG: the decoded settings

configVars == <<service, environment, document, remaining, stage, config>>

NoConfig == [p \in {} |-> "blank"]

(* There are two commands that load a configuration.                       *)
ASSUME EnvironmentAssumption ==
    \A e \in DOMAIN Environments : Environments[e].services \subseteq {"authn", "authz"}

(* A setting has a path, no property is called as an index is, and no      *)
(* default is a reference.                                                 *)
ASSUME DefaultsAssumption ==
    \A s \in DOMAIN Default :
        /\ s \in Seq(Range(s)) /\ Len(s) > 0
        /\ \A i \in DOMAIN s : s[i] \notin DOMAIN Position
        /\ Default[s] \notin DOMAIN ReferenceTo

(* A YAML document is a tree: every node hangs from the ones above it.     *)
IsTree(doc) ==
    /\ DOMAIN doc \subseteq Seq(STRING)
    /\ <<>> \in DOMAIN doc
    /\ \A n \in DOMAIN doc : Above(n) \subseteq DOMAIN doc

(* So are the file and the value of a variable.                            *)
ASSUME DocumentAssumption ==
    \A e \in DOMAIN Environments :
        /\ IsTree(Environments[e].file)
        /\ \A o \in Environments[e].overrides : o.path \in Seq(STRING) /\ IsTree(o.value)

(* They never change while the process lives.                              *)
Env == Environments[environment]

-----------------------------------------------------------------------------
(* set_yaml_path.                                                          *)

Containers == {"map", "seq", "null"}

Kept_Recreated(doc, path) ==
    {n \in DOMAIN doc : \A p \in Above(path) : ~Below(n, p)}

(* Nodes that survive: those outside the path, unless a node on the way    *)
(* has the wrong kind and is replaced by an empty container.               *)
Kept(doc, path) ==
    {n \in DOMAIN doc : /\ ~IsPrefix(path, n)
                        /\ \A p \in Above(path) : Below(n, p) => doc[p] = KindFor(path, p)}

(* A sequence is filled up with nulls to the index.                        *)
Padding(path) ==
    UNION {LET segment == path[Len(p) + 1] IN
           IF segment \notin DOMAIN Position THEN {}
           ELSE {Append(p, i) : i \in {j \in DOMAIN Position :
                                         Position[j] < Position[segment]}}
           : p \in Above(path)}

SetYamlPath(doc, path, value) ==
    LET kept == Kept(doc, path)
        written == {path \o n : n \in DOMAIN value}
    IN [n \in kept \cup Above(path) \cup Padding(path) \cup written |->
          IF n \in written THEN value[SubSeq(n, Len(path) + 1, Len(n))]
          ELSE IF n \in Above(path) THEN KindFor(path, n)
          ELSE IF n \in kept THEN doc[n] ELSE "null"]

-----------------------------------------------------------------------------
(* expand_yaml_env_refs: the projected file comes before the environment.  *)

ForeignRoot_None == "none"

(* The subtree whose secrets belong to the other service.                  *)
ForeignRoot == IF service = "authz" THEN "authn" ELSE "authz"

Owned(node) == Len(node) > 0 /\ node[1] # ForeignRoot

References(doc) ==
    {n \in DOMAIN doc : /\ Owned(n)
                        /\ doc[n] \in DOMAIN ReferenceTo
                        /\ ReferenceTo[doc[n]] \notin RuntimeNames}

(* projected_secret_env_file looks at the environment alone; a path given  *)
(* as secrets.env_file in the YAML names no file.                          *)
ProjectedSecrets == Env.projected
Known(name) == name \in DOMAIN ProjectedSecrets \cup DOMAIN Env.process

SecretEnv(name) ==
    IF name \in DOMAIN ProjectedSecrets THEN ProjectedSecrets[name]
    ELSE Env.process[name]

Expand(doc) ==
    [n \in DOMAIN doc |->
        IF n \in References(doc) THEN SecretEnv(ReferenceTo[doc[n]]) ELSE doc[n]]

-----------------------------------------------------------------------------
(* Decoding: structs refuse unknown properties and nodes of another kind,  *)
(* and fill in what is missing.                                            *)

Setting(node) ==
    [i \in DOMAIN node |-> IF node[i] \in DOMAIN Position THEN AnyItem ELSE node[i]]

Decodes(doc) ==
    \A n \in DOMAIN doc :
        IF Setting(n) \in DOMAIN Default THEN doc[n] \notin Containers
        ELSE Setting(n) \in DOMAIN Structure /\ doc[n] = Structure[Setting(n)]

(* The settings of the document's list items, and every other setting.     *)
Present(doc) ==
    LET repeated(s) == \E i \in DOMAIN s : s[i] = AnyItem
        at(s, item) == [i \in DOMAIN s |-> IF s[i] = AnyItem THEN item ELSE s[i]]
        items(s) == {item \in DOMAIN Position :
                       \A i \in DOMAIN s : s[i] = AnyItem =>
                          SubSeq(at(s, item), 1, i) \in DOMAIN doc}
    IN {s \in DOMAIN Default : ~repeated(s)}
       \cup UNION {{at(s, item) : item \in items(s)} : s \in {t \in DOMAIN Default : repeated(t)}}

Decode(doc) ==
    [p \in Present(doc) |-> IF p \in DOMAIN doc THEN doc[p] ELSE Default[Setting(p)]]

-----------------------------------------------------------------------------
(* Validation.                                                             *)

At(section, names) == {Append(section, n) : n \in names}

Empty(value) == value = "blank"
TrimmedEmpty(value) == value \in {"blank", "spaces"}
On(c, setting) == c[setting] = "true"

Given(c, settings) == \A s \in settings : ~TrimmedEmpty(c[s])
Positive(c, settings) == \A s \in settings : c[s] # "zero"
InRange(c, settings) == \A s \in settings : c[s] = "ok"
OneOf(c, one, other) == Empty(c[one]) # Empty(c[other])
IsPath(value) == value \notin {"blank", "relative"}

ValidateServer(c) ==
    LET server == <<"server">> IN
    /\ Given(c, At(server, {"service_name"}))
    /\ Positive(c, At(server, {"port", "scope_port", "shutdown_timeout"}))
    /\ c[<<"server", "port">>] # c[<<"server", "scope_port">>]
    /\ InRange(c, {<<"server", "request", "max_message_bytes">>,
                   <<"server", "response", "max_message_bytes">>,
                   <<"server", "performance", "worker_threads">>})
    /\ Positive(c, {<<"server", "performance", "max_in_flight_requests">>,
                    <<"server", "request", "timeout">>})

ValidateManagement(c) ==
    /\ IsPath(c[<<"mgmt", "context_path">>]) /\ c[<<"mgmt", "context_path">>] # "trailing"
    /\ \A s \in {<<"mgmt", "health", "liveness_path">>, <<"mgmt", "health", "readiness_path">>,
                 <<"mgmt", "metrics", "path">>} : IsPath(c[s])
    /\ On(c, <<"mgmt", "otel", "enabled">>) =>
         /\ Given(c, {<<"mgmt", "otel", "endpoint">>})
         /\ c[<<"mgmt", "otel", "protocol">>] = "grpc"
         /\ c[<<"mgmt", "otel", "sample_rate">>] # "over"
         /\ Positive(c, {<<"mgmt", "otel", "timeout">>})

Listener(c, section) == <<c[Append(section, "host")], c[Append(section, "port")]>>

ValidateAuthzApi(c) ==
    On(c, <<"authz", "api", "enabled">>) => Positive(c, {<<"authz", "api", "port">>})

DifferentListeners(c) ==
    On(c, <<"mgmt", "enabled">>) /\ On(c, <<"authz", "api", "enabled">>)
        => Listener(c, <<"mgmt">>) # Listener(c, <<"authz", "api">>)

ValidateScopeDelivery(c) ==
    LET delivery == <<"authz", "scope_delivery">> IN
    /\ Positive(c, At(delivery, {"direct_urn_limit", "context_ttl", "scope_token_ttl"}))
    /\ InRange(c, At(delivery, {"max_direct_header_bytes"}))

ValidateIdentity(c) ==
    Given(c, At(<<"authz", "identity">>, {"token_header", "principal_id_claim",
                                          "principal_kind_claim", "groups_claim"}))

EnabledEntries(c, protocol) ==
    {e \in {Discovery \o <<protocol, i>> : i \in DOMAIN Position} :
        Append(e, "enabled") \in DOMAIN c /\ On(c, Append(e, "enabled"))}

ValidateKeycloak(c, entry) ==
    LET auth == Append(entry, "auth") IN
    /\ Given(c, At(entry, {"discovery_id", "base_url", "realm"}))
    /\ Given(c, At(auth, {"client_id"}))
    /\ OneOf(c, Append(auth, "client_secret"), Append(auth, "client_secret_file"))
    /\ c[Append(auth, "token_url")] \notin {"relative", "spaces"}
    /\ Positive(c, At(entry, {"connect_timeout", "request_timeout", "max_page_size"}))

ValidateLdap(c, entry) ==
    LET auth == Append(entry, "auth") IN
    /\ Given(c, At(entry, {"discovery_id", "url", "issuer", "base_dn"}))
    /\ Given(c, At(auth, {"bind_dn"}))
    /\ OneOf(c, Append(auth, "bind_password"), Append(auth, "bind_password_file"))
    /\ Positive(c, At(entry, {"connect_timeout", "request_timeout", "max_page_size"}))
    /\ \A kind \in {"user", "group"} :
         Given(c, At(Append(entry, kind), {"object_filter", "id_attribute",
                                           "name_attribute", "search_attributes"}))

ValidateHttpDiscovery(c, entry) ==
    /\ Given(c, At(entry, {"discovery_id", "url", "issuer"}))
    /\ OneOf(c, Append(entry, "jwt_token"), Append(entry, "jwt_token_file"))
    /\ Given(c, At(Append(entry, "request"), {"path", "params"}))
    /\ Given(c, At(Append(entry, "response"), {"id_attr", "display_name_attr"}))
    /\ Positive(c, At(entry, {"connect_timeout", "request_timeout", "max_page_size"}))

ValidatePrincipalDiscovery(c) ==
    /\ \A protocol \in {"keycloak", "ldap", "custom"} :
         Cardinality(EnabledEntries(c, protocol)) <= 1
    /\ \A e \in EnabledEntries(c, "keycloak") : ValidateKeycloak(c, e)
    /\ \A e \in EnabledEntries(c, "ldap") : ValidateLdap(c, e)
    /\ \A e \in EnabledEntries(c, "custom") : ValidateHttpDiscovery(c, e)
    /\ On(c, Append(Scim, "enabled")) => Given(c, At(Scim, {"discovery_id", "issuer"}))

ValidateResign(c) ==
    LET resign == <<"authz", "resign">> IN
    On(c, Append(resign, "enabled")) =>
        /\ Positive(c, At(resign, {"max_ttl"}))
        /\ Given(c, At(resign, {"private_key_b64"}))

ValidateStorage(c) ==
    LET provider == c[<<"storage", "provider">>]
        database == <<"storage", provider>>
    IN /\ provider \in {"sqlite", "postgres"}
       /\ Given(c, At(database, {"url"}))
       /\ Positive(c, At(database, {"max_connections", "connect_timeout"}))
       /\ provider = "postgres" =>
            /\ c[<<"storage", "postgres", "min_connections">>] # "over"
            /\ Positive(c, At(database, {"idle_timeout"}))

ValidateRedisCache(c) ==
    LET redis == <<"cache", "redis">> IN
    /\ \E i \in DOMAIN Position : redis \o <<"nodes", i>> \in DOMAIN c
    /\ Given(c, At(redis, {"key_prefix"}))
    /\ Positive(c, At(redis, {"connection_timeout", "response_timeout"}))
    /\ c[Append(redis, "min_retry_wait")] # "over"
    /\ ~On(c, Append(redis, "read_from_replica"))

ValidateCache(c) ==
    LET memory == <<"cache", "memory">> IN
    /\ c[<<"cache", "provider">>] \in {"memory", "redis"}
    /\ c[<<"cache", "provider">>] = "redis" => ValidateRedisCache(c)
    /\ c[Append(memory, "initial_capacity")] # "over"
    /\ Positive(c, At(memory, {"max_capacity", "ttl"}))
    /\ c[Append(memory, "eviction_policy")] = "LRU"

ValidateDeployment_StorageOnly(c) ==
    /\ c[<<"server", "deployment", "replica_count">>] # "zero"
    /\ c[<<"server", "deployment", "replica_count">>] = "many" =>
         c[<<"storage", "provider">>] # "sqlite"

ValidateDeployment(c) ==
    /\ c[<<"server", "deployment", "replica_count">>] # "zero"
    /\ c[<<"server", "deployment", "replica_count">>] = "many" =>
         /\ c[<<"storage", "provider">>] # "sqlite"
         /\ c[<<"cache", "provider">>] # "memory"

(* Flows that keep a one-time challenge between two requests.              *)
NeedsChallengeStore(c) ==
    \/ c[<<"authn", "providers">>] # "none"
    \/ On(c, <<"authn", "wallet", "enabled">>)
    \/ /\ On(c, <<"authn", "standalone", "enabled">>)
       /\ \E factor \in {"totp", "webauthn"} :
            On(c, <<"authn", "standalone", factor, "enabled">>)

(* Texts and URLs of one factor, of the wallet and of an application are   *)
(* one setting each: "text" when the checks of the code accept them.       *)
ValidateStandaloneAuthn(c) ==
    LET standalone == <<"authn", "standalone">>
        factorOn(f) == On(c, standalone \o <<f, "enabled">>)
    IN /\ \A f \in {"totp", "webauthn"} : factorOn(f) => On(c, Append(standalone, "enabled"))
       /\ On(c, Append(standalone, "enabled")) =>
            /\ Given(c, At(standalone, {"issuer"}))
            /\ InRange(c, {standalone \o <<"password", "min_length">>})
            /\ factorOn("totp") =>
                 /\ Given(c, {Append(standalone, "credential_encryption_key"),
                              standalone \o <<"totp", "issuer">>})
                 /\ InRange(c, {standalone \o <<"totp", "timing">>})
            /\ factorOn("webauthn") => Given(c, {standalone \o <<"webauthn", "relying_party">>})

ValidateWalletAuthn(c) ==
    LET wallet == <<"authn", "wallet">> IN
    On(c, Append(wallet, "enabled")) =>
        /\ Given(c, At(wallet, {"domain_and_uri", "chains"}))
        /\ Positive(c, At(wallet, {"rpc_timeout"}))

(* "ok": every application has names, a logo and a theme in the accepted   *)
(* form, hosts that no other application has, and return URIs on them.     *)
ValidApplications(c) == c[<<"authn", "applications">>] \in {"none", "ok"}

ValidateAuthn(c) ==
    /\ c[<<"authn", "challenge_ttl">>] \notin {"zero", "over"}
    /\ ValidApplications(c)
    /\ NeedsChallengeStore(c) => /\ c[<<"cache", "provider">>] = "redis"
                                 /\ ValidateRedisCache(c)
    /\ ValidateStandaloneAuthn(c)
    /\ ValidateWalletAuthn(c)

(* AppConfigProperties::load and load_for_authn.                           *)
Validate(c) ==
    IF service = "authn" THEN ValidateStorage(c) /\ ValidateAuthn(c)
    ELSE /\ ValidateServer(c) /\ ValidateManagement(c) /\ ValidateAuthzApi(c)
         /\ DifferentListeners(c) /\ ValidateScopeDelivery(c) /\ ValidateIdentity(c)
         /\ ValidatePrincipalDiscovery(c) /\ ValidateResign(c)
         /\ ValidateStorage(c) /\ ValidateCache(c) /\ ValidateDeployment(c)

-----------------------------------------------------------------------------
ConfigInit ==
    /\ environment \in DOMAIN Environments
    /\ service \in Env.services
    /\ document = Env.file
    /\ remaining = Env.overrides
    /\ stage = "merging"
    /\ config = NoConfig

(* apply_environment_entries: std::env::vars gives them in any order.      *)
(* parse_environment_path refuses a name without a segment, or with an     *)
(* index that is no number or is not closed.                               *)
Override(entry) ==
    /\ stage = "merging"
    /\ entry \in remaining
    /\ IF entry.path = <<>>
       THEN stage' = "rejected" /\ UNCHANGED <<document, remaining>>
       ELSE /\ document' = SetYamlPath(document, entry.path, entry.value)
            /\ remaining' = remaining \ {entry}
            /\ UNCHANGED stage
    /\ UNCHANGED <<service, environment, config>>

(* What load returns: nothing when a secret is missing or the YAML is not  *)
(* a configuration.                                                        *)
Loaded ==
    LET expanded == Expand(document)
        decoded == Decode(expanded)
    IN IF /\ Env.readable
          /\ \A n \in References(document) : Known(ReferenceTo[document[n]])
          /\ Decodes(expanded)
          /\ Validate(decoded)
       THEN decoded ELSE NoConfig

(* The rest of load runs without waiting for anything.                     *)
Install ==
    /\ stage = "merging"
    /\ remaining = {}
    /\ config' = Loaded
    /\ stage' = IF config' # NoConfig THEN "installed" ELSE "rejected"
    /\ UNCHANGED <<service, environment, document, remaining>>

LoadNext == Install \/ \E e \in remaining : Override(e)
=============================================================================
