------------------------- MODULE MCServerLifecycle -------------------------
(***************************************************************************)
(* Deployments for TLC.  One file turns every feature on; from it, every   *)
(* setting is changed to every other class of its value, one at a time, on *)
(* the commands that use it.  A few deployments are followed through their whole      *)
(* life, the others until their listeners are up or the start is refused.  *)
(***************************************************************************)
EXTENDS ServerLifecycle

MCPosition == "0" :> 0 @@ "1" :> 1
MCReferenceTo == "${HMAC}" :> "HMAC" @@ "${TOKEN_KEY}" :> "TOKEN_KEY"
                 @@ "${clientId}" :> "clientId"
MCRuntimeNames == {"clientId"}

(* The document that gives the settings.                                   *)
Doc(settings) ==
    [n \in UNION {Above(s) \cup {s} : s \in DOMAIN settings} |->
        IF n \in DOMAIN settings THEN settings[n]
        ELSE KindFor(CHOOSE s \in DOMAIN settings : Below(s, n), n)]

Values(setting, value) == [v \in {setting} |-> value]

(* Every feature is enabled, with its own credentials.                     *)
Full ==
    LET item(protocol) == Discovery \o <<protocol, "0">>
        mapping == [object_filter |-> "text", id_attribute |-> "text",
                    name_attribute |-> "text", search_attributes |-> "text"]
    IN Section(item("keycloak"), Limits @@ [enabled |-> "true", discovery_id |-> "text",
                    base_url |-> "https", issuer |-> "https", realm |-> "text"])
       @@ Section(Append(item("keycloak"), "auth"), [client_id |-> "text",
                    client_secret |-> "text", token_url |-> "https"])
       @@ Section(item("ldap"), Limits @@ [enabled |-> "true", discovery_id |-> "text",
                    url |-> "http", allow_insecure |-> "true", issuer |-> "text",
                    base_dn |-> "text"])
       @@ Section(Append(item("ldap"), "auth"), [bind_dn |-> "text",
                    bind_password_file |-> "file"])
       @@ Section(Append(item("ldap"), "user"), mapping)
       @@ Section(Append(item("ldap"), "group"), mapping)
       @@ Section(item("custom"), Limits @@ [enabled |-> "true", discovery_id |-> "text",
                    url |-> "https", issuer |-> "text", jwt_token |-> "text"])
       @@ Section(Append(item("custom"), "request"), [path |-> "text"])
       @@ Section(Scim, [enabled |-> "true", discovery_id |-> "text", issuer |-> "text"])
       @@ Section(<<"authz", "resign">>, [enabled |-> "true", private_key_b64 |-> "text"])
       @@ Section(<<"authz", "scope_delivery">>, [direct_context_hmac_key |-> "key"])
       @@ Section(<<"cache">>, [provider |-> "redis"])
       @@ Section(<<"cache", "redis", "nodes">>, "0" :> "text")
       @@ Section(<<"storage">>, [provider |-> "postgres"])
       @@ Section(<<"storage", "postgres">>, [url |-> "text"])
       @@ Section(<<"authn">>, [providers |-> "some", applications |-> "ok"])
       @@ Section(<<"authn", "standalone">>, [enabled |-> "true",
                    credential_encryption_key |-> "text"])
       @@ Section(<<"authn", "standalone", "totp">>, [enabled |-> "true"])
       @@ Section(<<"authn", "standalone", "webauthn">>, [enabled |-> "true",
                    relying_party |-> "text"])
       @@ Section(<<"authn", "wallet">>, [enabled |-> "true", domain_and_uri |-> "text",
                    chains |-> "text"])
       @@ Section(<<"authn", "token">>, [private_key_b64 |-> "text"])
       @@ [s \in {t \in DOMAIN Default : \A i \in DOMAIN t : t[i] # AnyItem} |-> Default[s]]

Kinds == {{"blank", "spaces", "padded", "text"}, {"zero", "ok", "over"}, {"true", "false"},
          {"spaces", "relative", "http", "https"}, {"blank", "file", "missing"},
          {"blank", "short", "key"}, {"zero", "8080", "8081", "9090", "9091"},
          {"/", "trailing", "relative"}, {"one", "zero", "many"}, {"sqlite", "postgres", "other"},
          {"memory", "redis", "other"}, {"/healthz", "/readyz", "/metrics", "/_/pprof",
          "/_/metrics", "relative"}, {"text", "absolute"}, {"grpc", "other"}, {"LRU", "other"}, {"none", "some"},
          {"none", "ok", "bad"}, {"any", "local"}}

Durations == {"shutdown_timeout", "timeout", "ttl", "connection_timeout", "response_timeout",
              "connect_timeout", "idle_timeout", "request_timeout", "rpc_timeout",
              "challenge_ttl", "context_ttl", "scope_token_ttl", "max_ttl"}

Variants(setting) ==
    (UNION {k \in Kinds : Full[setting] \in k} \ {Full[setting]})
    \cup {v \in {"subsecond"} : Last(setting) \in Durations}

Plain == [services |-> {"authz"}, file |-> Doc(Full), overrides |-> {},
          projected |-> [n \in {} |-> "text"], process |-> [n \in {} |-> "text"],
          readable |-> TRUE, bind |-> <<"any", "8082">>, followed |-> FALSE]

Deviations == UNION {{<<v>> \o s : v \in Variants(s)} : s \in DOMAIN Full}

(* An environment is named by a tuple of texts.                            *)
Deviating ==
    [d \in Deviations |->
        [Plain EXCEPT !.services = IF d[2] = "authn" THEN {"authn"}
                                   ELSE IF d[2] \in {"authz", "server"} THEN {"authz"}
                                   ELSE {"authn", "authz"},
                      !.file = Doc(Values(Tail(d), Head(d)) @@ Full)]]

(* Deployments that differ in several settings at once.                    *)
Replicas ==
    [d \in {"sqlite", "postgres"} \X {"memory", "redis"} |->
        [Plain EXCEPT !.file = Doc(Values(<<"server", "deployment", "replica_count">>, "many")
                                   @@ Values(<<"storage", "provider">>, d[1])
                                   @@ Values(<<"cache", "provider">>, d[2]) @@ Full)]]

Entry(path, value) == [path |-> path, value |-> value]
Scalar(value) == [n \in {<<>>} |-> value]

(* Sets of AUTHGUARD__ variables: independent ones, one below the other,   *)
(* a list item past the end, a list addressed by key, a whole section, a   *)
(* name without a path.                                                    *)
VariableSets ==
    LET ports == Entry(<<"server", "port">>, Scalar("9000"))
        scope == Entry(<<"server", "scope_port">>, Scalar("9001"))
        realm == Entry(Discovery \o <<"keycloak", "0", "realm">>, Scalar("other"))
        second == Entry(Discovery \o <<"keycloak", "1", "realm">>, Scalar("text"))
        byKey == Entry(Discovery \o <<"keycloak", "realm">>, Scalar("text"))
        section == Entry(<<"mgmt">>, Doc(<<"enabled">> :> "false"))
        inside == Entry(<<"mgmt", "port">>, Scalar("9999"))
        health == Entry(<<"mgmt", "health">>, Scalar("text"))
        unknown == Entry(<<"server", "colour">>, Scalar("text"))
        unnamed == Entry(<<>>, Scalar("text"))
    IN [independent |-> {ports, scope, realm, section}, indexes |-> {realm, second, ports},
        index_and_key |-> {realm, byKey}, nested |-> {section, inside},
        kinds |-> {health, ports}, unknown |-> {unknown}, unnamed |-> {unnamed, ports}]

Overridden ==
    [d \in {<<o>> : o \in DOMAIN VariableSets} |->
        [Plain EXCEPT !.overrides = VariableSets[d[1]]]]

(* References to secrets: in the projected file, in the environment, in    *)
(* both, in neither, with an unreadable file, or in a YAML setting.        *)
SigningKey == <<"authz", "scope_delivery", "direct_context_hmac_key">>
TokenKey == <<"authn", "token", "private_key_b64">>

WithReferences ==
    Doc(Values(SigningKey, "${HMAC}") @@ Values(TokenKey, "${TOKEN_KEY}")
        @@ Values(<<"authn", "standalone", "issuer">>, "${clientId}") @@ Full)

Secret ==
    LET secrets == [none |-> [n \in {} |-> "text"], hmac |-> "HMAC" :> "key",
                    token |-> "TOKEN_KEY" :> "text",
                    both |-> "HMAC" :> "short" @@ "TOKEN_KEY" :> "text"]
    IN [d \in (DOMAIN secrets) \X (DOMAIN secrets) \X {"readable", "unreadable"} |->
          [Plain EXCEPT !.services = {"authn", "authz"}, !.file = WithReferences,
                        !.projected = secrets[d[1]], !.process = secrets[d[2]],
                        !.readable = d[3] = "readable"]]

(* The Helm chart gives both pods one set of variables: each has the keys  *)
(* of both services, in plain or as references, beside the secrets.        *)
Injected ==
    [d \in {"injected"} \X {"key", "${HMAC}"} \X {"padded", "${TOKEN_KEY}"} |->
        [Plain EXCEPT !.services = {"authn", "authz"}, !.file = WithReferences,
                      !.overrides = {Entry(SigningKey, Scalar(d[2])), Entry(TokenKey, Scalar(d[3]))},
                      !.process = "HMAC" :> "key" @@ "TOKEN_KEY" :> "text"]]

(* Whole lives: the default layout, one that shares a port between two     *)
(* listeners, one without the HTTP planes, and authn.                      *)
Followed ==
    [d \in {<<"9090", "true">>, <<"8080", "true">>, <<"9090", "false">>} |->
        [Plain EXCEPT !.followed = TRUE,
                      !.file = Doc(Values(<<"authz", "api", "port">>, d[1])
                                   @@ Values(<<"authz", "api", "enabled">>, d[2])
                                   @@ Values(<<"mgmt", "enabled">>, d[2]) @@ Full)]]
    @@ <<"authn">> :> [Plain EXCEPT !.followed = TRUE, !.services = {"authn"}]

MCEnvironments == Deviating @@ Replicas @@ Overridden @@ Secret @@ Injected @@ Followed
=============================================================================
