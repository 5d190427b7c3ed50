---------------------------- MODULE AccessCheck ----------------------------
(***************************************************************************)
(* The AuthZ hot path: Envoy asks for a decision on every request (check), *)
(* and an allowed request gets an access context.  How that context comes  *)
(* to the workload, by header or by token, is WorkloadAccess.              *)
(*                                                                         *)
(* A check waits for the row of its principal.  While it waits, principals *)
(* are disabled, catalogs are published and time passes; what it read      *)
(* before is what it goes on with.  After that it runs undisturbed until   *)
(* the context is issued, so one snapshot of the catalog serves route,     *)
(* decision and scope.                                                     *)
(***************************************************************************)
EXTENDS Naturals, FiniteSets, Sequences, ResourceUrn

CONSTANTS
    Requests,       \* checks in flight, each served once
    Inputs,         \* what Envoy may send
    PrincipalIds,   \* canonical principals and groups
    Kind,           \* the kind of every principal
    Catalogs,       \* compiled catalogs a process may start with
    Updates,        \* compiled catalogs that may be published later
    MaxRevision,    \* bound: catalogs published in one run
    MaxTime,        \* bound: seconds the clock may reach
    Resign,         \* whether the identity is re-signed for the workload
    ResignTtl,      \* its max_ttl, in seconds
    NoExpiry,       \* the exp claim of an identity token without one
    None

ASSUME CheckAssumption ==
    /\ MaxRevision \in Nat \ {0}
    /\ Resign \in BOOLEAN
    /\ {ResignTtl, MaxTime} \subseteq Nat

(* The form of an input is "trusted" or the code it is refused with; a     *)
(* principal is named by a canonical id, and exp is a NumericDate.         *)
ASSUME InputAssumption ==
    \A in \in Inputs :
        /\ in.form # "none"
        /\ in.principal \in PrincipalIds
        /\ in.exp \in Nat \cup {NoExpiry}

(* A compiled catalog: vectors of routes and of bindings, whose effect is  *)
(* an enum of two values.                                                  *)
ASSUME CatalogAssumption ==
    \A c \in Catalogs \cup Updates :
        /\ c.routes \in Seq({c.routes[i] : i \in DOMAIN c.routes})
        /\ c.bindings \in Seq({c.bindings[i] : i \in DOMAIN c.bindings})
        /\ \A i \in DOMAIN c.bindings : c.bindings[i].effect \in {"allow", "deny"}

VARIABLES
    now,            \* epoch_seconds()
    principals,     \* iam_principal: the status of every principal
    served,         \* the catalogs the runtime has served, newest last
    pc,             \* where a check stands
    input,          \* what it was asked
    resolved,       \* the principal and groups it read
    answer,         \* what it answered
    received,       \* history: the revision served when the check arrived
    seenActive,     \* history: who was active at some moment until its answer
    keptGroups      \* history: its groups that have been active ever since it arrived

checkVars == <<pc, input, resolved, answer, received>>
history == <<seenActive, keptGroups>>
vars == <<now, principals, served, checkVars, history>>

Revision == Len(served)
Current == served[Revision]
Active == {p \in PrincipalIds : principals[p] = "active"}

Init ==
    /\ now = 0
    /\ principals \in [PrincipalIds -> {"active", "disabled"}]
    /\ served \in {<<c>> : c \in Catalogs}
    /\ pc = [r \in Requests |-> "idle"]
    /\ input = [r \in Requests |-> None]
    /\ resolved = [r \in Requests |-> None]
    /\ answer = [r \in Requests |-> None]
    /\ received = [r \in Requests |-> 0]
    /\ seenActive = [r \in Requests |-> {}]
    /\ keptGroups = [r \in Requests |-> {}]

(* The groups a request names among ids, for the history and properties.   *)
GroupsOf(in, ids) == {g \in (in.groups \cap ids) \ {in.principal} : Kind[g] = "group"}

-----------------------------------------------------------------------------
(* What goes on around the checks.                                         *)

Clock ==
    /\ now < MaxTime
    /\ now' = now + 1
    /\ UNCHANGED <<principals, served, checkVars, history>>

(* set_status and the deletion of a principal by other handlers.           *)
SetStatus(p, status) ==
    /\ principals[p] # "absent"
    /\ principals' = [principals EXCEPT ![p] = status]
    /\ IF status = "active"
       THEN /\ seenActive' = [r \in Requests |-> seenActive[r] \cup
                                IF pc[r] \in {"resolving", "evaluating"} THEN {p} ELSE {}]
            /\ UNCHANGED keptGroups
       ELSE /\ keptGroups' = [r \in Requests |-> keptGroups[r] \ {p}]
            /\ UNCHANGED seenActive
    /\ UNCHANGED <<now, served, checkVars>>

(* PolicyRuntime::install replaces the catalog checks read.                *)
Publish(catalog) ==
    /\ Revision < MaxRevision
    /\ served' = Append(served, catalog)
    /\ UNCHANGED <<now, principals, checkVars, history>>

-----------------------------------------------------------------------------
(* AuthorizationEvaluator.                                                 *)

(* SourceIpConditions::matches: an unknown address satisfies no condition. *)
SourceMatches(condition, address) ==
    /\ address # None
    /\ condition.in = {} \/ address \in condition.in
    /\ address \notin condition.notIn

(* AuthorizationConditions::matches.  facts stands for the tests that ask  *)
(* for one value: transport, mfa and claims.                               *)
ConditionsMatch(conditions, context) ==
    /\ conditions.source # None => SourceMatches(conditions.source, context.address)
    /\ conditions.methods = {} \/ context.method \in conditions.methods
    /\ conditions.facts \subseteq context.facts

PrincipalMatches(binding, who) ==
    binding.principal = who.principal \/ binding.principal \in who.groups

AppliesTo(binding, who, action, context) ==
    /\ PrincipalMatches(binding, who)
    /\ action \in binding.actions
    /\ ConditionsMatch(binding.conditions, context)

Authorize_LastWins(bindings, who, route, context) ==
    LET hit(i) == /\ AppliesTo(bindings[i], who, route.action, context)
                  /\ MatchesAny(bindings[i].urn, {route.resource} \cup route.parents)
        effect[i \in 0 .. Len(bindings)] ==
            IF i = 0 THEN "default"
            ELSE IF hit(i) THEN bindings[i].effect ELSE effect[i - 1]
    IN effect[Len(bindings)] = "allow"

(* authorize: the loop over the bindings, left at the first deny.          *)
Authorize(bindings, who, route, context) ==
    LET hit(i) == /\ AppliesTo(bindings[i], who, route.action, context)
                  /\ MatchesAny(bindings[i].urn, {route.resource} \cup route.parents)
        effect[i \in 0 .. Len(bindings)] ==
            IF i = 0 THEN "default"
            ELSE IF effect[i - 1] # "deny" /\ hit(i) THEN bindings[i].effect
            ELSE effect[i - 1]
    IN effect[Len(bindings)] = "allow"

ScopeUrns_AnyAction(bindings, who, action, context, effect) ==
    {b.urn : b \in {bindings[i] : i \in {j \in DOMAIN bindings :
        /\ PrincipalMatches(bindings[j], who)
        /\ ConditionsMatch(bindings[j].conditions, context)
        /\ bindings[j].effect = effect}}}

(* authorization_scope: the patterns of one effect, whatever the resource. *)
ScopeUrns(bindings, who, action, context, effect) ==
    {b.urn : b \in {bindings[i] : i \in {j \in DOMAIN bindings :
        /\ AppliesTo(bindings[j], who, action, context)
        /\ bindings[j].effect = effect}}}

-----------------------------------------------------------------------------
(* resolve_route: exactly one route must match, and its template expand.   *)
MatchingRoutes(catalog, http) ==
    {i \in DOMAIN catalog.routes : http \in catalog.routes[i].requests}

RouteFailure(catalog, http) ==
    LET hits == MatchingRoutes(catalog, http) IN
    IF hits = {} THEN "route_not_mapped"
    ELSE IF Cardinality(hits) > 1 \/ \E i \in hits : catalog.routes[i].resource = None
    THEN "invalid_route_mapping" ELSE "none"

RouteOf(catalog, http) ==
    catalog.routes[CHOOSE i \in MatchingRoutes(catalog, http) : TRUE]

-----------------------------------------------------------------------------
(* check: steps of one request.                                            *)

Goto(r, place) == pc' = [pc EXCEPT ![r] = place]

Deny(r, code) ==
    /\ Goto(r, "answered")
    /\ answer' = [answer EXCEPT ![r] = [allowed |-> FALSE, code |-> code]]

(* What check and request_identity refuse before they wait for anything;   *)
(* source_token_expiry asks for exp only when identities are re-signed.    *)
InputFailure(in) ==
    IF in.form # "trusted" THEN in.form
    ELSE IF Resign /\ in.exp = NoExpiry THEN "invalid_identity_expiry" ELSE "none"

Receive(r, in) ==
    /\ pc[r] = "idle"
    /\ input' = [input EXCEPT ![r] = in]
    /\ received' = [received EXCEPT ![r] = Revision]
    /\ seenActive' = [seenActive EXCEPT ![r] = Active]
    /\ keptGroups' = [keptGroups EXCEPT ![r] = GroupsOf(in, Active)]
    /\ IF InputFailure(in) = "none"
       THEN Goto(r, "resolving") /\ UNCHANGED answer
       ELSE Deny(r, InputFailure(in))
    /\ UNCHANGED <<now, principals, served, resolved>>

PrincipalFailure_KindOnly(in) ==
    IF principals[in.principal] = "absent" THEN "unknown_principal"
    ELSE IF Kind[in.principal] # in.kind THEN "principal_disabled" ELSE "none"

PrincipalFailure(in) ==
    IF principals[in.principal] = "absent" THEN "unknown_principal"
    ELSE IF principals[in.principal] # "active" \/ Kind[in.principal] # in.kind
    THEN "principal_disabled" ELSE "none"

(* Group ids of the token count only as active groups, and never twice.    *)
ActiveGroups(in) ==
    {g \in (in.groups \cap Active) \ {in.principal} : Kind[g] = "group"}

(* resolve_request: one query for the principal and the groups.            *)
ResolveRequest(r) ==
    /\ pc[r] = "resolving"
    /\ LET in == input[r] IN
       IF PrincipalFailure(in) = "none"
       THEN /\ resolved' = [resolved EXCEPT ![r] =
                   [principal |-> in.principal, groups |-> ActiveGroups(in)]]
            /\ Goto(r, "evaluating")
            /\ UNCHANGED answer
       ELSE Deny(r, PrincipalFailure(in)) /\ UNCHANGED resolved
    /\ UNCHANGED <<now, principals, served, input, received, history>>

(* The query fails: the check fails closed.                                *)
ResolveFails(r) ==
    /\ pc[r] = "resolving"
    /\ Deny(r, "principal_resolution_unavailable")
    /\ UNCHANGED <<now, principals, served, input, resolved, received, history>>

(* evaluate_request resumes with the row it read and takes one snapshot.   *)
Decided(r, catalog) ==
    Authorize(catalog.bindings, resolved[r], RouteOf(catalog, input[r].http),
              input[r].context)

SourceRemains(in) == Resign => in.exp > now

Refusal(r) ==
    IF RouteFailure(Current, input[r].http) # "none"
    THEN RouteFailure(Current, input[r].http)
    ELSE IF ~Decided(r, Current) THEN "authorization_denied"
    ELSE IF ~SourceRemains(input[r]) THEN "invalid_identity_expiry" ELSE "none"

Refuse(r) ==
    /\ pc[r] = "evaluating"
    /\ Refusal(r) # "none"
    /\ Deny(r, Refusal(r))
    /\ UNCHANGED <<now, principals, served, input, resolved, received, history>>

(* resign_token: never longer than the identity it stands for.             *)
ResignExpiry_MaxTtl(in) == IF Resign THEN now + ResignTtl ELSE NoExpiry

ResignExpiry(in) ==
    IF Resign
    THEN now + (IF in.exp - now <= ResignTtl THEN in.exp - now ELSE ResignTtl)
    ELSE NoExpiry

(* AccessContext::new over the snapshot.                                   *)
AccessContext(r) ==
    LET route == RouteOf(Current, input[r].http)
        urns(effect) == ScopeUrns(Current.bindings, resolved[r], route.action,
                                  input[r].context, effect)
    IN [principal |-> resolved[r].principal, action |-> route.action,
        resource |-> route.resource, allow |-> urns("allow"), deny |-> urns("deny"),
        revision |-> Revision]

(* allowed: what prepare_delivery then sends.                              *)
Allow(r) ==
    /\ pc[r] = "evaluating"
    /\ Refusal(r) = "none"
    /\ Goto(r, "answered")
    /\ answer' = [answer EXCEPT ![r] =
          [allowed |-> TRUE, context |-> AccessContext(r), exp |-> ResignExpiry(input[r])]]
    /\ UNCHANGED <<now, principals, served, input, resolved, received, history>>

(* Envoy's ext_authz timeout or a lost connection drops a waiting check.   *)
Drop(r) ==
    /\ pc[r] \in {"resolving", "evaluating"}
    /\ Goto(r, "dropped")
    /\ UNCHANGED <<now, principals, served, input, resolved, answer, received, history>>

-----------------------------------------------------------------------------
Step(r) ==
    \/ ResolveRequest(r) \/ ResolveFails(r)
    \/ Refuse(r) \/ Allow(r)

Next ==
    \/ Clock
    \/ \E p \in PrincipalIds, s \in {"active", "disabled", "absent"} : SetStatus(p, s)
    \/ \E c \in Updates : Publish(c)
    \/ \E r \in Requests, in \in Inputs : Receive(r, in)
    \/ \E r \in Requests : Step(r) \/ Drop(r)

Spec == Init /\ [][Next]_vars

-----------------------------------------------------------------------------
Allowed(r) == answer[r] # None /\ answer[r].allowed

(* The reference: some binding of the catalog grants the request to one of *)
(* the identities, and none of them denies it, in whatever order the       *)
(* bindings were stored.                                                   *)
Entitled(catalog, who, route, context) ==
    LET hits == {i \in DOMAIN catalog.bindings :
                    LET b == catalog.bindings[i] IN
                    /\ b.principal \in {who.principal} \cup who.groups
                    /\ route.action \in b.actions
                    /\ ConditionsMatch(b.conditions, context)
                    /\ \E u \in {route.resource} \cup route.parents : Matches(b.urn, u)}
    IN  hits # {} /\ \A i \in hits : catalog.bindings[i].effect = "allow"

Justified(r) ==
    LET in == input[r]
        context == answer[r].context
        catalog == served[context.revision]
        routes == MatchingRoutes(catalog, in.http)
    IN  /\ context.revision >= received[r]
        /\ \E i \in routes : routes = {i} /\ catalog.routes[i].action = context.action
        /\ \E groups \in SUBSET GroupsOf(in, seenActive[r]) :
              /\ keptGroups[r] \subseteq groups
              /\ Entitled(catalog, [principal |-> in.principal, groups |-> groups],
                          RouteOf(catalog, in.http), in.context)

(* Whatever check lets through was granted by a catalog that was served    *)
(* between the arrival of the request and its answer, to the principal and *)
(* to groups that were active in that time, by a single route; a catalog   *)
(* replaced before the request arrived never decides it.  A denial of a    *)
(* group that was active all that time is never missed.                    *)
AllowIsJustified == \A r \in Requests : Allowed(r) => Justified(r)

(* A principal that stays disabled or deleted from before its request      *)
(* arrives is never let through: no cache stands between the row and       *)
(* resolve_request.                                                        *)
DisabledStaysOut ==
    \A r \in Requests : Allowed(r) => input[r].principal \in seenActive[r]

ScopeCovers(r) ==
    LET context == answer[r].context
        route == RouteOf(served[context.revision], input[r].http)
        urns == {route.resource} \cup route.parents
    IN  /\ \E p \in context.allow : MatchesAny(p, urns)
        /\ ~ \E p \in context.deny : MatchesAny(p, urns)

(* The scope in the context covers the very request it was issued for, and *)
(* excludes nothing of it: decision and authorization_scope come from one  *)
(* catalog and one set of conditions, although they are computed apart.    *)
ScopeCoversRequest == \A r \in Requests : Allowed(r) => ScopeCovers(r)

(* The re-signed identity ends no later than the token Envoy verified.     *)
ResignedEndsWithSource ==
    \A r \in Requests :
        Allowed(r) /\ Resign => answer[r].exp <= input[r].exp
=============================================================================
