----------------------- MODULE ConfigurationSettings -----------------------
(***************************************************************************)
(* The settings AuthGuard knows, each a path of property names, and the    *)
(* value the Default implementations of the structs give it.               *)
(*                                                                         *)
(* Values stand for classes the checks tell apart.  Text is "blank",       *)
(* "spaces", "padded" (it has space around it) or "text"; a number or      *)
(* duration is "zero", "ok" or "over" its greatest accepted value, and a   *)
(* duration of less than a second is "subsecond"; an endpoint is "https",  *)
(* "http" or "relative"; a request path is "text", or "absolute" with its  *)
(* leading slash; a key is "key" or "short"; a file is "file" when it can  *)
(* be read and "missing" when it cannot.                                   *)
(* Settings that every check treats alike are one setting, and those that  *)
(* no check looks at are left out.                                         *)
(***************************************************************************)
EXTENDS Naturals, FiniteSets, SequencesExt, TLC

CONSTANT Position   \* the index segments, and the number each stands for

(* The segment that stands for every index of a list.                      *)
AnyItem == "*"

ASSUME PositionAssumption ==
    /\ DOMAIN Position \subseteq STRING
    /\ \A i \in DOMAIN Position : Position[i] \in Nat
    /\ AnyItem \notin DOMAIN Position

Above(path) == {SubSeq(path, 1, n) : n \in 0 .. Len(path) - 1}
Below(node, path) == node # path /\ IsPrefix(path, node)

(* What a node must be for the next segment of path to lead on from it.    *)
KindFor(path, node) ==
    IF path[Len(node) + 1] \in DOMAIN Position \cup {AnyItem} THEN "seq" ELSE "map"

Section(path, fields) ==
    [s \in {Append(path, f) : f \in DOMAIN fields} |-> fields[s[Len(s)]]]

ServerDefaults ==
    Section(<<"server">>, [service_name |-> "text", host |-> "any", port |-> "8080",
                           scope_port |-> "8081", shutdown_timeout |-> "ok"])
    @@ Section(<<"server", "request">>, [max_message_bytes |-> "ok", timeout |-> "ok"])
    @@ Section(<<"server", "response">>, [max_message_bytes |-> "ok"])
    @@ Section(<<"server", "performance">>, [worker_threads |-> "ok",
                                             max_in_flight_requests |-> "ok"])
    @@ Section(<<"server", "deployment">>, [replica_count |-> "one"])
    @@ Section(<<"secrets">>, [env_file |-> "blank"])

ManagementDefaults ==
    Section(<<"mgmt">>, [enabled |-> "true", host |-> "any", port |-> "9091",
                         context_path |-> "/"])
    @@ Section(<<"mgmt", "health">>, [liveness_path |-> "/healthz",
                                      readiness_path |-> "/readyz"])
    @@ Section(<<"mgmt", "metrics">>, [enabled |-> "true", path |-> "/metrics"])
    @@ Section(<<"mgmt", "otel">>, [enabled |-> "false", endpoint |-> "text",
                                    protocol |-> "grpc", timeout |-> "ok",
                                    sample_rate |-> "ok"])

CacheDefaults ==
    Section(<<"cache">>, [provider |-> "memory"])
    @@ Section(<<"cache", "memory">>, [initial_capacity |-> "ok", max_capacity |-> "ok",
                                       ttl |-> "ok", eviction_policy |-> "LRU"])
    @@ Section(<<"cache", "redis">>, [key_prefix |-> "text", connection_timeout |-> "ok",
                                      response_timeout |-> "ok", min_retry_wait |-> "ok",
                                      read_from_replica |-> "false"])
    @@ Section(<<"cache", "redis", "nodes">>, AnyItem :> "blank")

StorageDefaults ==
    Section(<<"storage">>, [provider |-> "sqlite"])
    @@ Section(<<"storage", "sqlite">>, [url |-> "text", max_connections |-> "ok",
                                         connect_timeout |-> "ok"])
    @@ Section(<<"storage", "postgres">>, [url |-> "blank", max_connections |-> "ok",
                                           min_connections |-> "zero",
                                           connect_timeout |-> "ok", idle_timeout |-> "ok"])

(* The timing of TOTP is its digits, step and skew; the relying party of   *)
(* WebAuthn its id and origin; applications and providers are whole maps.  *)
AuthnDefaults ==
    Section(<<"authn">>, [providers |-> "none", applications |-> "none",
                          challenge_ttl |-> "ok"])
    @@ Section(<<"authn", "standalone">>, [enabled |-> "false", issuer |-> "text",
                                           credential_encryption_key |-> "blank"])
    @@ Section(<<"authn", "standalone", "password">>, [min_length |-> "ok"])
    @@ Section(<<"authn", "standalone", "totp">>, [enabled |-> "false", issuer |-> "text",
                                                   timing |-> "ok"])
    @@ Section(<<"authn", "standalone", "webauthn">>, [enabled |-> "false",
                                                       relying_party |-> "blank"])
    @@ Section(<<"authn", "wallet">>, [enabled |-> "false", domain_and_uri |-> "blank",
                                       chains |-> "blank", rpc_timeout |-> "ok"])
    @@ Section(<<"authn", "token">>, [private_key |-> "blank", private_key_b64 |-> "blank",
                                      private_key_file |-> "blank"])

AuthzDefaults ==
    Section(<<"authz", "api">>, [enabled |-> "true", host |-> "any", port |-> "9090"])
    @@ Section(<<"authz", "identity">>, [token_header |-> "text", principal_id_claim |-> "text",
                                         principal_kind_claim |-> "text",
                                         groups_claim |-> "text"])
    @@ Section(<<"authz", "scope_delivery">>, [direct_urn_limit |-> "ok",
                                               max_direct_header_bytes |-> "ok",
                                               direct_context_hmac_key |-> "blank",
                                               context_ttl |-> "ok", scope_token_ttl |-> "ok"])
    @@ Section(<<"authz", "resign">>, [enabled |-> "false", max_ttl |-> "ok",
                                       private_key_b64 |-> "blank"])

Discovery == <<"authz", "principal_discovery">>
Scim == Append(Discovery, "scim")

Limits == [connect_timeout |-> "ok", request_timeout |-> "ok", max_page_size |-> "ok"]

KeycloakDefaults ==
    LET entry == Discovery \o <<"keycloak", AnyItem>> IN
    Section(entry, Limits @@ [enabled |-> "false", discovery_id |-> "blank",
                              base_url |-> "blank", issuer |-> "blank", realm |-> "blank",
                              allow_insecure_http |-> "false"])
    @@ Section(Append(entry, "auth"), [token_url |-> "blank", client_id |-> "blank",
                                       client_secret |-> "blank",
                                       client_secret_file |-> "blank"])

LdapDefaults ==
    LET entry == Discovery \o <<"ldap", AnyItem>>
        mapping == [object_filter |-> "blank", id_attribute |-> "blank",
                    name_attribute |-> "blank", search_attributes |-> "blank"]
    IN Section(entry, Limits @@ [enabled |-> "false", discovery_id |-> "blank", url |-> "blank",
                                 issuer |-> "blank", base_dn |-> "blank",
                                 allow_insecure |-> "false"])
       @@ Section(Append(entry, "auth"), [bind_dn |-> "blank", bind_password |-> "blank",
                                          bind_password_file |-> "blank"])
       @@ Section(Append(entry, "user"), mapping)
       @@ Section(Append(entry, "group"), mapping)

(* The names of the query parameters are one setting.                      *)
CustomDefaults ==
    LET entry == Discovery \o <<"custom", AnyItem>> IN
    Section(entry, Limits @@ [enabled |-> "false", discovery_id |-> "blank", url |-> "blank",
                              issuer |-> "blank", jwt_token |-> "blank",
                              jwt_token_file |-> "blank", allow_insecure_http |-> "false"])
    @@ Section(Append(entry, "request"), [path |-> "absolute", params |-> "text"])
    @@ Section(Append(entry, "response"), [array_path |-> "blank", id_attr |-> "text",
                                           display_name_attr |-> "text"])

ScimDefaults ==
    Section(Scim, [enabled |-> "false", discovery_id |-> "text", issuer |-> "text"])

Default ==
    ServerDefaults @@ ManagementDefaults @@ CacheDefaults @@ StorageDefaults
    @@ AuthnDefaults @@ AuthzDefaults
    @@ KeycloakDefaults @@ LdapDefaults @@ CustomDefaults @@ ScimDefaults

(* The structs and lists around the settings.                              *)
Structure ==
    [n \in UNION {Above(s) : s \in DOMAIN Default} |->
        KindFor(CHOOSE s \in DOMAIN Default : Below(s, n), n)]
=============================================================================
