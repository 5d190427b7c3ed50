-------------------------- MODULE ServerLifecycle --------------------------
(***************************************************************************)
(* One AuthGuard process from its start to its exit code.  It loads its    *)
(* configuration, opens what it depends on, starts its listeners and       *)
(* serves until a signal or a failed listener ends it.                     *)
(*                                                                         *)
(* The authz command supervises up to four listeners.  The two gRPC ones   *)
(* are tasks that bind and accept while run is still binding the others;   *)
(* a shutdown asks all of them to drain and gives them a bounded time.     *)
(* The authn command joins one or two listeners, which drain on SIGINT     *)
(* without a bound, and installs no handler for SIGTERM.                   *)
(***************************************************************************)
EXTENDS Configuration

CONSTANTS
    Requests,       \* requests that may arrive, each once
    MaxSignals      \* bound: signals sent to the process

ASSUME LifecycleAssumption == MaxSignals \in Nat

VARIABLES
    phase,          \* how far run has come
    plane,          \* the state of every listener
    shutdown,       \* the value in the watch channel
    failure,        \* first_error is set
    request,        \* where a request stands, and at which listener
    signals,        \* signals received
    exit,           \* the exit status, "none" while running
    broken          \* history: listeners that failed

runVars == <<phase, plane, shutdown, failure, request, signals, exit, broken>>
vars == <<configVars, runVars>>

Planes == {"check", "context", "api", "mgmt"}
Idle == [state |-> "idle", at |-> "none"]

Init ==
    /\ ConfigInit
    /\ phase = "loading"
    /\ plane = [p \in Planes |-> "off"]
    /\ shutdown = FALSE
    /\ failure = FALSE
    /\ request = [r \in Requests |-> Idle]
    /\ signals = 0
    /\ exit = "none"
    /\ broken = {}

Load == LoadNext /\ phase = "loading" /\ UNCHANGED runVars

-----------------------------------------------------------------------------
(* Leaving run or main: tasks that still live are aborted, and with them   *)
(* the requests they hold.                                                 *)
Exit(status) ==
    /\ exit' = status
    /\ phase' = "exited"
    /\ plane' = [p \in Planes |-> "off"]
    /\ request' = [r \in Requests |->
                     IF request[r].state = "open"
                     THEN [request[r] EXCEPT !.state = "aborted"] ELSE request[r]]
    /\ UNCHANGED <<configVars, shutdown, failure, signals, broken>>

LoadFailed == phase = "loading" /\ stage = "rejected" /\ Exit("error")

(* load has returned, and the YAML is gone.                                *)
LoadDone ==
    /\ phase = "loading"
    /\ stage = "installed"
    /\ phase' = "opening"
    /\ document' = NoConfig
    /\ UNCHANGED <<service, environment, remaining, stage, config>>
    /\ UNCHANGED <<plane, shutdown, failure, request, signals, exit, broken>>

-----------------------------------------------------------------------------
(* The constructors check again, and more, than the validation did.        *)

Canonical(c, settings) == \A s \in settings : c[s] = "text"

Endpoint(c, setting, allowed) ==
    c[setting] = "https" \/ (c[setting] = "http" /\ On(c, allowed))
OptionalEndpoint(c, setting, allowed) == Empty(c[setting]) \/ Endpoint(c, setting, allowed)

(* PrincipalDiscoveryComponent::credential: "file" names a readable file.  *)
Credential(c, inline, file) == ~Empty(c[inline]) \/ c[file] = "file"

OpensKeycloak(c, e) ==
    LET auth == Append(e, "auth")
        insecure == Append(e, "allow_insecure_http")
    IN /\ Canonical(c, At(e, {"discovery_id", "realm"}) \cup At(auth, {"client_id"}))
       /\ InRange(c, At(e, {"max_page_size"}))
       /\ Endpoint(c, Append(e, "base_url"), insecure)
       /\ OptionalEndpoint(c, Append(e, "issuer"), insecure)
       /\ OptionalEndpoint(c, Append(auth, "token_url"), insecure)
       /\ Credential(c, Append(auth, "client_secret"), Append(auth, "client_secret_file"))

OpensLdap(c, e) ==
    LET auth == Append(e, "auth") IN
    /\ Canonical(c, At(e, {"discovery_id", "issuer", "base_dn"}) \cup At(auth, {"bind_dn"}))
    /\ InRange(c, At(e, {"max_page_size"}))
    /\ Endpoint(c, Append(e, "url"), Append(e, "allow_insecure"))
    /\ Credential(c, Append(auth, "bind_password"), Append(auth, "bind_password_file"))
    /\ \A kind \in {"user", "group"} :
         Canonical(c, At(Append(e, kind), {"object_filter", "id_attribute",
                                           "name_attribute", "search_attributes"}))

(* The token must be canonical, wherever it comes from.                    *)
OpensCustom(c, e) ==
    /\ Canonical(c, At(e, {"discovery_id", "issuer"}))
    /\ InRange(c, At(e, {"max_page_size"}))
    /\ Endpoint(c, Append(e, "url"), Append(e, "allow_insecure_http"))
    /\ c[Append(e, "jwt_token")] \in {"text", "blank"}
    /\ Credential(c, Append(e, "jwt_token"), Append(e, "jwt_token_file"))
    /\ Canonical(c, At(Append(e, "request"), {"path"}))
    /\ c[e \o <<"response", "array_path">>] \in {"blank", "text"}

OpensDiscovery(c) ==
    /\ \A e \in EnabledEntries(c, "keycloak") : OpensKeycloak(c, e)
    /\ \A e \in EnabledEntries(c, "ldap") : OpensLdap(c, e)
    /\ \A e \in EnabledEntries(c, "custom") : OpensCustom(c, e)
    /\ On(c, Append(Scim, "enabled")) => Canonical(c, At(Scim, {"discovery_id", "issuer"}))

(* RuntimeComponents::open: discovery, the re-sign key, which is trimmed,  *)
(* and the signing key.  A text that is no base64 or no PEM key is not a   *)
(* class of its own: OpenFails has it, as it has an unreachable store.     *)
OpensAuthz(c) ==
    /\ OpensDiscovery(c)
    /\ On(c, <<"authz", "resign", "enabled">>)
         => Given(c, {<<"authz", "resign", "private_key_b64">>})
    /\ c[<<"authz", "scope_delivery", "direct_context_hmac_key">>] = "key"

(* TokenIssuer::from_config; of keys that do not parse the same is true.   *)
TokenKeys(c) ==
    {s \in At(<<"authn", "token">>, {"private_key", "private_key_b64", "private_key_file"}) :
        ~Empty(c[s])}

LetsIn(c) ==
    \/ c[<<"authn", "providers">>] # "none"
    \/ On(c, <<"authn", "standalone", "enabled">>)
    \/ On(c, <<"authn", "wallet", "enabled">>)

OpensAuthn(c) ==
    /\ Cardinality(TokenKeys(c)) <= 1
    /\ \A s \in TokenKeys(c) : c[s] \in {"text", "padded", "file"}
    /\ LetsIn(c) => TokenKeys(c) # {}
    /\ On(c, <<"mgmt", "enabled">>) => Env.bind # Listener(c, <<"mgmt">>)

Opens == IF service = "authz" THEN OpensAuthz(config) ELSE OpensAuthn(config)

(* authz spawns the gRPC planes at once.                                   *)
Open ==
    /\ phase = "opening"
    /\ Opens
    /\ phase' = "binding_api"
    /\ plane' = [p \in Planes |->
                   IF service = "authz" /\ p \in {"check", "context"} THEN "spawned" ELSE "off"]
    /\ UNCHANGED <<configVars, shutdown, failure, request, signals, exit, broken>>

(* The constructors refuse, or Redis, the database or the catalog do.      *)
OpenFails == phase = "opening" /\ Exit("error")

-----------------------------------------------------------------------------
(* Listeners.                                                              *)

Address(p) ==
    CASE p = "check" -> <<config[<<"server", "host">>], config[<<"server", "port">>]>>
      [] p = "context" -> <<config[<<"server", "host">>], config[<<"server", "scope_port">>]>>
      [] p = "api" -> IF service = "authn" THEN Env.bind
                      ELSE Listener(config, <<"authz", "api">>)
      [] p = "mgmt" -> Listener(config, <<"mgmt">>)

Bound == {p \in Planes : plane[p] \in {"bound", "listening", "draining"}}
Free(p) == \A q \in Bound : Address(q) # Address(p)

Uses(p) ==
    CASE p = "api" -> service = "authz" => On(config, <<"authz", "api", "enabled">>)
      [] p = "mgmt" -> On(config, <<"mgmt", "enabled">>)
      [] OTHER -> service = "authz"

(* management::endpoints: axum panics on two handlers for one path and on  *)
(* a path without its slash, which only authz has validated.               *)
ManagementRoutes ==
    LET metrics == config[<<"mgmt", "metrics", "path">>] IN
    <<config[<<"mgmt", "health", "liveness_path">>],
      config[<<"mgmt", "health", "readiness_path">>], "/_/pprof">>
    \o (IF On(config, <<"mgmt", "metrics", "enabled">>) THEN <<"/_/metrics">> ELSE <<>>)
    \o (IF On(config, <<"mgmt", "metrics", "enabled">>) /\ metrics # "/_/metrics"
        THEN <<metrics>> ELSE <<>>)

RouterPanics ==
    \/ ~IsInjective(ManagementRoutes)
    \/ \E path \in Range(ManagementRoutes) \cup {config[<<"mgmt", "context_path">>]} : ~IsPath(path)

(* A gRPC task binds when the runtime gets to it.                          *)
TaskBinds(p) ==
    /\ plane[p] = "spawned"
    /\ Free(p)
    /\ plane' = [plane EXCEPT ![p] = "listening"]
    /\ UNCHANGED <<configVars, phase, shutdown, failure, request, signals, exit, broken>>

(* A gRPC task cannot bind, or a listener fails or panics.                 *)
TaskFails(p) ==
    /\ plane[p] \in {"spawned", "listening"}
    /\ Env.followed \/ (plane[p] = "spawned" /\ ~Free(p))
    /\ plane' = [plane EXCEPT ![p] = "failed"]
    /\ broken' = broken \cup {p}
    /\ request' = [r \in Requests |->
                     IF request[r] = [state |-> "open", at |-> p]
                     THEN [request[r] EXCEPT !.state = "aborted"] ELSE request[r]]
    /\ UNCHANGED <<configVars, phase, shutdown, failure, signals, exit>>

(* A gRPC server runs out of connections to accept and ends by itself.     *)
IncomingEnds(p) ==
    /\ Env.followed
    /\ p \in {"check", "context"}
    /\ plane[p] = "listening"
    /\ plane' = [plane EXCEPT ![p] = "draining"]
    /\ UNCHANGED <<configVars, phase, shutdown, failure, request, signals, exit, broken>>

NextPhase == IF phase = "binding_api" THEN "binding_mgmt" ELSE "serving"
Binding == IF phase = "binding_api" THEN "api" ELSE "mgmt"

(* authn serves nothing before both listeners are bound.                   *)
Bind ==
    /\ phase \in {"binding_api", "binding_mgmt"}
    /\ Uses(Binding) => Free(Binding) /\ ~(Binding = "mgmt" /\ RouterPanics)
    /\ phase' = NextPhase
    /\ plane' = [p \in Planes |->
                   IF p = Binding /\ Uses(p)
                   THEN IF service = "authz" \/ NextPhase = "serving" THEN "listening" ELSE "bound"
                   ELSE IF NextPhase = "serving" /\ plane[p] = "bound" THEN "listening"
                   ELSE plane[p]]
    /\ UNCHANGED <<configVars, shutdown, failure, request, signals, exit, broken>>

(* The address is taken, or the router panics: run returns, and dropping   *)
(* the JoinSet aborts the tasks it had started.                            *)
BindFails ==
    /\ phase \in {"binding_api", "binding_mgmt"}
    /\ Uses(Binding)
    /\ Exit("error")

Accept(r, p) ==
    /\ Env.followed
    /\ request[r] = Idle
    /\ plane[p] = "listening"
    /\ request' = [request EXCEPT ![r] = [state |-> "open", at |-> p]]
    /\ UNCHANGED <<configVars, phase, plane, shutdown, failure, signals, exit, broken>>

(* The handler returns, panics or exceeds request.timeout: all answered.   *)
Finish(r) ==
    /\ request[r].state = "open"
    /\ request' = [request EXCEPT ![r].state = "answered"]
    /\ UNCHANGED <<configVars, phase, plane, shutdown, failure, signals, exit, broken>>

-----------------------------------------------------------------------------
(* Shutdown.                                                               *)

Handled(signal) ==
    phase \in {"serving", "draining"} /\ (service = "authz" \/ signal = "INT")

Signal(signal) ==
    /\ Env.followed
    /\ signals < MaxSignals
    /\ signals' = signals + 1
    /\ Handled(signal)
    /\ phase' = "draining"
    /\ shutdown' = TRUE
    /\ UNCHANGED <<configVars, plane, failure, request, exit, broken>>

(* Without a handler the signal ends the process where it stands.          *)
Kill(signal) ==
    /\ Env.followed
    /\ phase # "exited"
    /\ signals < MaxSignals
    /\ ~Handled(signal)
    /\ Exit("killed")

Ended == {p \in Planes : plane[p] \in {"done", "failed"}}
Live == {p \in Planes : plane[p] \notin {"off", "joined"}}

(* join_next in the select: any end is an error before a signal.           *)
JoinFirst(p) ==
    /\ phase = "serving" /\ service = "authz"
    /\ p \in Ended
    /\ plane' = [plane EXCEPT ![p] = "joined"]
    /\ failure' = TRUE
    /\ shutdown' = TRUE
    /\ phase' = "draining"
    /\ UNCHANGED <<configVars, request, signals, exit, broken>>

StopAccepting(p) ==
    /\ shutdown
    /\ plane[p] = "listening"
    /\ plane' = [plane EXCEPT ![p] = "draining"]
    /\ UNCHANGED <<configVars, phase, shutdown, failure, request, signals, exit, broken>>

HasDrained(p) ==
    plane[p] = "draining" /\ \A r \in Requests : request[r] # [state |-> "open", at |-> p]

Drained(p) ==
    /\ HasDrained(p)
    /\ plane' = [plane EXCEPT ![p] = "done"]
    /\ UNCHANGED <<configVars, phase, shutdown, failure, request, signals, exit, broken>>

FailureAfter_LastResult(p) == plane[p] = "failed"

(* The first error stays; a later one is only taken when there is none.    *)
FailureAfter(p) == failure \/ plane[p] = "failed"

Join(p) ==
    /\ phase = "draining" /\ service = "authz"
    /\ p \in Ended
    /\ plane' = [plane EXCEPT ![p] = "joined"]
    /\ failure' = FailureAfter(p)
    /\ UNCHANGED <<configVars, phase, shutdown, request, signals, exit, broken>>

Finished ==
    /\ phase = "draining" /\ service = "authz"
    /\ Live = {}
    /\ Exit(IF failure THEN "error" ELSE "ok")

TimesOut_Never == FALSE

(* tokio::time::timeout over the drain.                                    *)
TimesOut == phase = "draining" /\ service = "authz" /\ Live # {}

ShutdownTimeout == TimesOut /\ Exit("error")

(* try_join!: the first error drops the other listener.                    *)
AuthnFails ==
    /\ service = "authn" /\ phase \in {"serving", "draining"}
    /\ \E p \in Planes : plane[p] = "failed"
    /\ Exit("error")

AuthnFinished ==
    /\ service = "authn" /\ phase = "draining"
    /\ \A p \in Live : plane[p] = "done"
    /\ Exit("ok")

-----------------------------------------------------------------------------
Steps ==
    \/ Load \/ LoadFailed \/ LoadDone \/ Open \/ OpenFails \/ Bind \/ BindFails
    \/ Finished \/ ShutdownTimeout \/ AuthnFails \/ AuthnFinished
    \/ \E p \in Planes : TaskBinds(p) \/ StopAccepting(p) \/ Drained(p)
                         \/ JoinFirst(p) \/ Join(p)

Next ==
    \/ Steps
    \/ \E p \in Planes : TaskFails(p) \/ IncomingEnds(p)
    \/ \E r \in Requests : Finish(r) \/ \E p \in Planes : Accept(r, p)
    \/ \E s \in {"INT", "TERM"} : Signal(s) \/ Kill(s)

Spec == Init /\ [][Next]_vars

(* run goes on binding, the supervisor joins a task that has ended, and    *)
(* the timer of the drain expires.  Nothing is assumed of the listeners or *)
(* of requests, which may take forever.                                    *)
FairSpec ==
    /\ Spec
    /\ WF_vars(Bind \/ BindFails)
    /\ WF_vars(Finished \/ ShutdownTimeout)
    /\ \A p \in Planes : WF_vars(JoinFirst(p))

-----------------------------------------------------------------------------
(* The moment the configuration is handed over; it stays what it is then.  *)
JustInstalled == phase = "loading" /\ stage = "installed"

(* Two variables disturb each other when one path leads through the other  *)
(* or they disagree on whether a node is a list.                           *)
Disturbs(e, f) ==
    \/ IsPrefix(e.path, f.path) \/ IsPrefix(f.path, e.path)
    \/ \E p \in Above(e.path) \cap Above(f.path) : KindFor(e.path, p) # KindFor(f.path, p)

(* A variable touches what lies under its path, and what lies under a node *)
(* that has to change its kind to lead on to the path.                     *)
Touches(e, n) ==
    \/ IsPrefix(e.path, n)
    \/ \E p \in Above(e.path) : IsPrefix(p, n) /\ Env.file[p] # KindFor(e.path, p)

(* Defaults < file < environment (config.rs): in whatever order the        *)
(* environment lists the variables, each one that no other disturbs stands *)
(* in the final document, whole, and what no variable's path touches is    *)
(* what the file says.                                                     *)
OverridesTakeEffect ==
    JustInstalled =>
        /\ \A e \in Env.overrides :
             (\A f \in Env.overrides \ {e} : ~Disturbs(e, f)) =>
                \A n \in DOMAIN document \cup {e.path \o v : v \in DOMAIN e.value} :
                    IsPrefix(e.path, n) =>
                        LET v == SubSeq(n, Len(e.path) + 1, Len(n)) IN
                        v \in DOMAIN e.value /\ document[n] = e.value[v]
        /\ \A n \in DOMAIN Env.file :
             (\A e \in Env.overrides : ~Touches(e, n))
                => n \in DOMAIN document /\ document[n] = Env.file[n]

(* The file, or a variable, spells out the value for this very node.       *)
Says(n, value) ==
    \/ n \in DOMAIN Env.file /\ value = Env.file[n]
    \/ \E e \in Env.overrides : \E v \in DOMAIN e.value : n = e.path \o v /\ value = e.value[v]

(* Each process resolves only its owned authn/authz secrets                *)
(* (etc/authguard.yaml): a setting of the other service is the default or  *)
(* what the file or a variable says there letter for letter, its           *)
(* references unresolved although the secrets they name lie in the same    *)
(* environment; and a setting of its own is no reference.  This is about   *)
(* references: a secret that a variable AUTHGUARD__AUTHN__... spells out   *)
(* in plain is written into the configuration of either service that has   *)
(* the variable (apply_environment_entries).                               *)
SecretsStayWithTheirService ==
    JustInstalled =>
        \A s \in DOMAIN config :
            IF s[1] \in {"authn", "authz"} \ {service}
            THEN config[s] = Default[Setting(s)] \/ Says(s, config[s])
            ELSE config[s] \in DOMAIN ReferenceTo => ReferenceTo[config[s]] \in RuntimeNames

(* The whole seconds of a duration, in which Redis, the access context and *)
(* the re-signed token count their lifetimes.                              *)
AsSecs(value) == IF value = "subsecond" THEN "zero" ELSE value

Lifetimes(c) ==
    At(<<"authz", "scope_delivery">>, {"context_ttl", "scope_token_ttl"})
    \cup {s \in {<<"authz", "resign", "max_ttl">>} : On(c, <<"authz", "resign", "enabled">>)}

(* What the authorization planes rely on.  A lifetime is some seconds long *)
(* but for one case that no check refuses: below a second it is positive   *)
(* to validate and nothing to the components that count seconds.           *)
UsableForAuthz(c) ==
    /\ c[<<"server", "port">>] \notin {"zero", c[<<"server", "scope_port">>]}
    /\ c[<<"cache", "memory", "max_capacity">>] # "zero"
    /\ \A s \in Lifetimes(c) : AsSecs(c[s]) = "zero" => c[s] = "subsecond"
    /\ c[<<"authz", "scope_delivery", "direct_context_hmac_key">>] = "key"
    /\ \A protocol \in {"keycloak", "ldap", "custom"} :
         /\ Cardinality(EnabledEntries(c, protocol)) <= 1
         /\ \A e \in EnabledEntries(c, protocol) :
              /\ c[Append(e, "discovery_id")] = "text"
              /\ \A s \in At(e, {"connect_timeout", "request_timeout"}) : c[s] # "zero"
              /\ c[Append(e, "max_page_size")] = "ok"
    /\ c[<<"server", "deployment", "replica_count">>] = "many" =>
         c[<<"storage", "provider">>] = "postgres" /\ c[<<"cache", "provider">>] = "redis"

(* What the handlers of authn rely on: one key to sign the tokens of those *)
(* they let in, and Redis for the challenges between two requests.         *)
UsableForAuthn(c) ==
    /\ LetsIn(c) => TokenKeys(c) # {} /\ Cardinality(TokenKeys(c)) <= 1
    /\ NeedsChallengeStore(c) =>
         /\ c[<<"cache", "provider">>] = "redis"
         /\ \E i \in DOMAIN Position : <<"cache", "redis">> \o <<"nodes", i>> \in DOMAIN c

(* No listener is ever bound on a configuration that a component behind it *)
(* cannot use, although the checks are spread over validate,               *)
(* validate_deployment and the constructors, differ between the commands,  *)
(* and the first listeners start before the last ones are bound.  The one  *)
(* exception is said in UsableForAuthz: lifetimes below a second.          *)
ListenersNeedUsableConfiguration ==
    Bound # {} => IF service = "authz" THEN UsableForAuthz(config) ELSE UsableForAuthn(config)

(* An exit status of success means that a signal asked for it, that no     *)
(* listener failed before or during the drain, and that every accepted     *)
(* request was answered: the first error is not lost among the results     *)
(* joined after it, and nothing is cut off silently.                       *)
SuccessIsOrderly ==
    exit = "ok" =>
        /\ signals > 0
        /\ broken = {}
        /\ \A r \in Requests : request[r].state \in {"idle", "answered"}

(* Once authz is told to stop or has lost a listener it ends, even if a    *)
(* request never returns: the others are asked to drain and the timer      *)
(* bounds the wait.                                                        *)
StopsInTheEnd ==
    service = "authz" /\ (shutdown \/ Ended # {}) ~> phase = "exited"
=============================================================================
