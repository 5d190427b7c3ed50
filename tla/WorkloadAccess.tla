--------------------------- MODULE WorkloadAccess ---------------------------
(***************************************************************************)
(* From an allowed check to the grants a workload works with.  AuthZ sends *)
(* the access context in a signed header, or stores it in the cache and    *)
(* sends a scope token; Envoy applies the header changes of the answer and *)
(* passes the request on; the adapter's AccessFilter turns the one header  *)
(* that is left into grants: it verifies and decodes a signed context      *)
(* itself, and redeems a token with resolve_scope, whose handler waits for *)
(* the cache.                                                              *)
(*                                                                         *)
(* A request may also reach the workload past Envoy, with headers of an    *)
(* earlier one or with none.  AuthZ and workload have clocks and keys of   *)
(* their own.  Which requests are allowed, and what their contexts say, is *)
(* AccessCheck; here a context is the request it was issued for and its    *)
(* lifetime.                                                               *)
(***************************************************************************)
EXTENDS ScopeCache, Integers

CONSTANTS
    Requests,        \* requests that reach Envoy or, past it, the workload
    Workloads,       \* its resolvers, whether its key is AuthZ's, its clock
    ContextTtl,      \* scope_delivery.context_ttl
    ScopeTokenTtl,   \* scope_delivery.scope_token_ttl
    FutureTolerance, \* how far in the future a context may be issued (30 s)
    Malformed,       \* a header value that is no token, or no signed context
    None

Contexts == [request : Requests, issued : Nat, expires : Nat]

ASSUME WorkloadAssumption ==
    /\ {ContextTtl, ScopeTokenTtl, FutureTolerance} \subseteq Nat
    /\ {Malformed, None} \cap (Tokens \cup Contexts) = {}
    /\ \A w \in Workloads : /\ w.resolvers \subseteq {"header", "grpc"}
                            /\ w.sameKey \in BOOLEAN
                            /\ w.drift \in Int

VARIABLES
    check,          \* how far AuthZ is with the answer to an allowed request
    workload,       \* the configuration the workload was started with
    call,           \* how far its filter is with a request
    rivals          \* history: the tokens used since this one was

vars == <<now, cacheVars, check, workload, call, rivals>>

Idle == [state |-> "idle"]

Init ==
    /\ CacheInit
    /\ check = [r \in Requests |-> Idle]
    /\ workload \in Workloads
    /\ call = [q \in Requests |-> Idle]
    /\ rivals = [t \in Tokens |-> {}]

Clock == Tick /\ UNCHANGED <<cacheVars, check, workload, call, rivals>>

Touch(token) ==
    rivals' = [t \in Tokens |-> IF t = token THEN {} ELSE rivals[t] \cup {token}]

-----------------------------------------------------------------------------
(* prepare_delivery for a request that is allowed.                         *)

Context(r, ttl) == [request |-> r, issued |-> now, expires |-> now + ttl]

Answered(context, token) == [state |-> "answered", context |-> context, token |-> token]

(* The signed context is short enough for a header ...                     *)
SendDirect(r) ==
    /\ check[r] = Idle /\ call[r] = Idle
    /\ check' = [check EXCEPT ![r] = Answered(Context(r, ContextTtl), None)]
    /\ UNCHANGED <<now, cacheVars, workload, call, rivals>>

UsedTokens == {check[r].token : r \in {s \in Requests : "token" \in DOMAIN check[s]}}

(* ... or has too many patterns or bytes, and is stored under a fresh      *)
(* random token.                                                           *)
PrepareToken(r, token) ==
    /\ check[r] = Idle /\ call[r] = Idle
    /\ token \notin UsedTokens
    /\ check' = [check EXCEPT ![r] = [state |-> "storing", token |-> token,
                                     context |-> Context(r, ScopeTokenTtl)]]
    /\ UNCHANGED <<now, cacheVars, workload, call, rivals>>

SendToken(r) ==
    /\ check[r].state = "storing"
    /\ StoreScope(check[r].token, check[r].context, ScopeTokenTtl)
    /\ Touch(check[r].token)
    /\ check' = [check EXCEPT ![r] = Answered(check[r].context, check[r].token)]
    /\ UNCHANGED <<now, workload, call>>

(* A Redis error, or a check dropped by Envoy's timeout while it waits for *)
(* Redis, with or without the value having been stored: the request goes   *)
(* no further.                                                             *)
StoreFails(r) ==
    /\ check[r].state = "storing"
    /\ provider = "redis"
    /\ \/ UNCHANGED <<cacheVars, rivals>>
       \/ /\ StoreScope(check[r].token, check[r].context, ScopeTokenTtl)
          /\ Touch(check[r].token)
    /\ check' = [check EXCEPT ![r].state = "refused"]
    /\ UNCHANGED <<now, workload, call>>

-----------------------------------------------------------------------------
(* AccessContext::decode on a clock.                                       *)
Validates_Started(context, clock) ==
    context.expires > context.issued /\ context.issued <= clock + FutureTolerance

Validates(context, clock) ==
    /\ context.expires > context.issued
    /\ context.issued <= clock + FutureTolerance
    /\ context.expires > clock

WorkloadClock == now + workload.drift

Reach(q, outcome) == call' = [call EXCEPT ![q] = outcome]

Rejected(reason) == [state |-> "rejected", reason |-> reason]
Anonymous == [state |-> "anonymous"]
Entered(context) == [state |-> "entered", context |-> context, at |-> WorkloadClock]

-----------------------------------------------------------------------------
(* AccessFilter::enter up to its first wait.  At most one header is left   *)
(* when the resolvers are asked, and each looks at one header only, so     *)
(* their order does not show.                                              *)

DirectOutcome(context) ==
    IF context # Malformed /\ workload.sameKey /\ Validates(context, WorkloadClock)
    THEN Entered(context)
    ELSE Rejected("invalid_context")

Enter(q, headers) ==
    /\ call[q] = Idle
    /\ Reach(q,
         IF headers.direct # None /\ headers.token # None
         THEN Rejected("invalid_context")
         ELSE IF headers.direct # None /\ "header" \in workload.resolvers
         THEN DirectOutcome(headers.direct)
         ELSE IF headers.token # None /\ "grpc" \in workload.resolvers
         THEN [state |-> "calling", token |-> headers.token]
         ELSE IF headers.token # None
         THEN Rejected("no_resolver")
         ELSE Anonymous)
    /\ UNCHANGED <<now, cacheVars, check, workload, rivals>>

(* allowed_http_response: one access header is overwritten, the other one  *)
(* removed, whatever the client sent.                                      *)
AllowedHttpResponse(a, client) ==
    IF a.token = None THEN [client EXCEPT !.direct = a.context, !.token = None]
    ELSE [client EXCEPT !.direct = None, !.token = a.token]

ClientHeaders == [direct : {None, Malformed}, token : {None, Malformed}]

Forward(r, client) ==
    /\ check[r].state = "answered"
    /\ Enter(r, AllowedHttpResponse(check[r], client))

(* Past Envoy: nothing, nonsense, or what an earlier request carried.      *)
Answers == {check[r] : r \in {s \in Requests : check[s].state = "answered"}}

StrayHeaders ==
    ClientHeaders \cup {AllowedHttpResponse(a, [direct |-> None, token |-> None]) :
                            a \in Answers}

Stray(q, headers) == check[q] = Idle /\ Enter(q, headers)

-----------------------------------------------------------------------------
(* resolve_scope.                                                          *)

LoadToken(q) ==
    /\ call[q].state = "calling"
    /\ LET token == call[q].token IN
       IF token = Malformed
       THEN Reach(q, Rejected("status")) /\ UNCHANGED <<cacheVars, rivals>>
       ELSE /\ LoadScope(token)
            /\ IF Hit(token)
               THEN /\ Touch(token)
                    /\ Reach(q, [state |-> "loaded", token |-> token,
                                 context |-> entries[token].context])
               ELSE Reach(q, Rejected("status")) /\ UNCHANGED rivals
    /\ UNCHANGED <<now, check, workload>>

(* The cache has answered: the handler decodes what it stored.             *)
AnswerScope(q) ==
    /\ call[q].state = "loaded"
    /\ Reach(q, IF Validates(call[q].context, now)
                THEN [call[q] EXCEPT !.state = "replied"]
                ELSE Rejected("status"))
    /\ UNCHANGED <<now, cacheVars, check, workload, rivals>>

(* The reply is back at the workload, whose resolver decodes it again.     *)
Resolve(q) ==
    /\ call[q].state = "replied"
    /\ Reach(q, IF Validates(call[q].context, WorkloadClock)
                THEN Entered(call[q].context)
                ELSE Rejected("invalid_context"))
    /\ UNCHANGED <<now, cacheVars, check, workload, rivals>>

(* The cache or the connection fails: there is no retry.                   *)
CallFails(q) ==
    /\ call[q].state \in {"calling", "loaded", "replied"}
    /\ Reach(q, Rejected("unavailable"))
    /\ UNCHANGED <<now, cacheVars, check, workload, rivals>>

-----------------------------------------------------------------------------
Next ==
    \/ Clock
    \/ \E r \in Requests :
          \/ SendDirect(r) \/ SendToken(r) \/ StoreFails(r)
          \/ \E t \in Tokens : PrepareToken(r, t)
          \/ \E c \in ClientHeaders : Forward(r, c)
    \/ \E q \in Requests, h \in StrayHeaders : Stray(q, h)
    \/ \E q \in Requests : LoadToken(q) \/ AnswerScope(q) \/ Resolve(q) \/ CallFails(q)

Spec == Init /\ [][Next]_vars

-----------------------------------------------------------------------------
(* The grants a workload enters a request with are the ones a check        *)
(* decided: of that very request when it came through Envoy, whatever      *)
(* headers its client sent; and on the clock of the workload they had not  *)
(* expired, however late the context was stored, loaded or delivered.      *)
EnteredWasIssued ==
    \A q \in Requests : call[q].state = "entered" =>
        /\ call[q].at < call[q].context.expires
        /\ \E r \in Requests : /\ check[q] # Idle => r = q
                               /\ check[r].state = "answered"
                               /\ check[r].context = call[q].context

Expired(context) == context.expires <= now \/ context.expires <= WorkloadClock

(* The lifetime the cache gave the token: no longer than cache.memory.ttl. *)
CacheLifetime ==
    IF provider = "memory" THEN Larger(1, Smaller(ScopeTokenTtl, DefaultTtl))
    ELSE ScopeTokenTtl

Evicted(token) == provider = "memory" /\ Cardinality(rivals[token]) >= MaxCapacity

(* A request that Envoy let through enters the workload with its grants    *)
(* unless there is a cause: the filter has no resolver for its header or   *)
(* another key, the clocks disagree by more than the tolerance, a call     *)
(* failed, the context expired on the way, or max_capacity other tokens    *)
(* were stored or redeemed since its own last use.  In particular the      *)
(* cache drops no other token, and no header of the client is in the way.  *)
RefusedForCause ==
    \A r \in Requests :
      check[r] # Idle /\ call[r].state \in {"rejected", "anonymous"} =>
        LET a == check[r]
            resolver == IF a.token = None THEN "header" ELSE "grpc"
        IN  \/ resolver \notin workload.resolvers
            \/ a.token = None /\ ~workload.sameKey
            \/ workload.drift + FutureTolerance < 0
            \/ Expired(a.context)
            \/ call[r].state = "rejected" /\ call[r].reason = "unavailable"
            \/ a.token # None /\ Evicted(a.token)
            \/ a.token # None /\ a.context.issued + CacheLifetime <= now
=============================================================================
