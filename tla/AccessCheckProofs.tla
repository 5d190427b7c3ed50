------------------------- MODULE AccessCheckProofs -------------------------
(***************************************************************************)
(* What AccessCheck promises for every catalog, every input and any number *)
(* of checks in flight.  First the loop of authorize is shown to find what *)
(* the bindings say in whatever order they are stored: two runs of it that *)
(* differ would differ at a least index, where they cannot.  Then IInv is  *)
(* shown to be inductive, one lemma per conjunct.                          *)
(***************************************************************************)
EXTENDS AccessCheck, TLAPS, WellFoundedInduction, FiniteSetTheorems

(* A set of naturals that is not empty has a least member.                 *)
LEMMA LeastNatural ==
    ASSUME NEW T \in SUBSET Nat, T # {}
    PROVE  \E n \in T : \A m \in T : n <= m
  <1> DEFINE L == OpToRel(<, Nat)
  <1>1. IsWellFoundedOn(L, Nat)
    BY NatLessThanWellFounded
  <1>2. \A x \in Nat : \A y \in Nat : ~ (<<x, y>> \in L) => ~ (x < y)
    BY DEF OpToRel
  <1> HIDE DEF L
  <1>3. PICK n \in T : \A m \in T : ~ (<<m, n>> \in L)
    BY WFMin, <1>1
  <1>4. \A m \in T : ~ (m < n)
    BY <1>2, <1>3, Zenon
  <1>5. QED
    BY <1>4

(* The loop of authorize over n bindings, those in H hit and e gives their *)
(* effects: f is what the loop has found after i of them.                  *)
IsLoop(f, n, H, e) ==
    f = [i \in 0 .. n |-> IF i = 0 THEN "default"
                          ELSE IF f[i - 1] # "deny" /\ i \in H THEN e[i] ELSE f[i - 1]]

(* The effect of the first i bindings, with no loop.                       *)
LoopResult(i, H, e) ==
    IF \E j \in H : j <= i /\ e[j] = "deny" THEN "deny"
    ELSE IF \E j \in H : j <= i THEN "allow" ELSE "default"

(* That LoopResult is what a run of the loop finds ...                     *)
LEMMA LoopExists ==
    ASSUME NEW n \in Nat, NEW H \in SUBSET (1 .. n), NEW e,
           \A i \in H : e[i] \in {"allow", "deny"}
    PROVE  IsLoop([i \in 0 .. n |-> LoopResult(i, H, e)], n, H, e)
  <1> DEFINE f == [i \in 0 .. n |-> LoopResult(i, H, e)]
  <1> SUFFICES ASSUME NEW i \in 0 .. n
               PROVE  f[i] = IF i = 0 THEN "default"
                             ELSE IF f[i - 1] # "deny" /\ i \in H THEN e[i] ELSE f[i - 1]
    BY DEF IsLoop
  <1>1. CASE i = 0
    BY <1>1 DEF LoopResult
  <1>2. CASE i # 0
    <2>1. /\ i - 1 \in 0 .. n
          /\ \A j \in H : j <= i <=> (j <= i - 1 \/ j = i)
      BY <1>2
    <2>2. f[i] = LoopResult(i, H, e) /\ f[i - 1] = LoopResult(i - 1, H, e)
      BY <2>1
    <2>3. QED
      BY <1>2, <2>1, <2>2 DEF LoopResult
  <1>3. QED
    BY <1>1, <1>2

(* ... and the loop has only one.                                          *)
LEMMA LoopUnique ==
    ASSUME NEW n \in Nat, NEW H, NEW e, NEW f, NEW g,
           IsLoop(f, n, H, e), IsLoop(g, n, H, e)
    PROVE  f = g
  <1> DEFINE T == {i \in 0 .. n : f[i] # g[i]}
  <1>1. SUFFICES ASSUME T # {} PROVE FALSE
    BY DEF IsLoop
  <1>2. T \in SUBSET Nat
    OBVIOUS
  <1>3. PICK k \in T : \A m \in T : k <= m
    <2> HIDE DEF T
    <2>1. QED
      BY <1>1, <1>2, LeastNatural
  <1>4. CASE k = 0
    BY <1>3, <1>4 DEF IsLoop
  <1>5. CASE k # 0
    <2>1. k - 1 \in 0 .. n /\ f[k - 1] = g[k - 1]
      BY <1>3, <1>5
    <2>2. QED
      BY <1>3, <1>5, <2>1 DEF IsLoop
  <1>6. QED
    BY <1>4, <1>5

(* The bindings that grant or deny one request.                            *)
Hits(bindings, who, route, context) ==
    {i \in 1 .. Len(bindings) :
        /\ AppliesTo(bindings[i], who, route.action, context)
        /\ MatchesAny(bindings[i].urn, {route.resource} \cup route.parents)}

(* authorize finds what its bindings say whatever their order: the loop    *)
(* that stops at the first deny allows a request exactly when some binding *)
(* hits it and every one that hits it allows it.                           *)
THEOREM AuthorizeIsOrderFree ==
    ASSUME NEW bindings, NEW who, NEW route, NEW context, Len(bindings) \in Nat,
           \A i \in 1 .. Len(bindings) : bindings[i].effect \in {"allow", "deny"}
    PROVE  Authorize(bindings, who, route, context)
              <=> /\ Hits(bindings, who, route, context) # {}
                  /\ \A i \in Hits(bindings, who, route, context) :
                        bindings[i].effect = "allow"
  <1> DEFINE hit(i) == /\ AppliesTo(bindings[i], who, route.action, context)
                       /\ MatchesAny(bindings[i].urn, {route.resource} \cup route.parents)
             n == Len(bindings)
             H == Hits(bindings, who, route, context)
             e == [i \in 1 .. n |-> bindings[i].effect]
             R == [i \in 0 .. n |-> LoopResult(i, H, e)]
             P(f) == f = [i \in 0 .. n |-> IF i = 0 THEN "default"
                          ELSE IF f[i - 1] # "deny" /\ hit(i) THEN bindings[i].effect
                          ELSE f[i - 1]]
             E == CHOOSE f : P(f)
  <1>1. Authorize(bindings, who, route, context) = (E[n] = "allow")
    BY DEF Authorize
  <1>2. H \in SUBSET (1 .. n) /\ \A i \in 1 .. n : i \in H <=> hit(i)
    BY DEF Hits
  <1> HIDE DEF hit, H
  <1>3. ASSUME NEW f PROVE P(f) <=> IsLoop(f, n, H, e)
    <2>1. [i \in 0 .. n |-> IF i = 0 THEN "default"
              ELSE IF f[i - 1] # "deny" /\ hit(i) THEN bindings[i].effect ELSE f[i - 1]]
          = [i \in 0 .. n |-> IF i = 0 THEN "default"
              ELSE IF f[i - 1] # "deny" /\ i \in H THEN e[i] ELSE f[i - 1]]
      BY <1>2
    <2>2. QED
      BY <2>1 DEF IsLoop
  <1>4. IsLoop(R, n, H, e)
    <2>1. \A i \in H : e[i] \in {"allow", "deny"}
      BY <1>2
    <2> HIDE DEF e
    <2>2. QED
      BY <1>2, <2>1, LoopExists
  <1>5. P(R)
    BY <1>3, <1>4
  <1>6. P(E)
    BY <1>5, Zenon
  <1>7. E = R
    <2>1. IsLoop(E, n, H, e)
      BY <1>3, <1>6
    <2> HIDE DEF E, R
    <2>2. QED
      BY <1>4, <2>1, LoopUnique
  <1>8. E[n] = LoopResult(n, H, e)
    <2>1. R[n] = LoopResult(n, H, e)
      OBVIOUS
    <2> HIDE DEF E, R
    <2>2. QED
      BY <1>7, <2>1
  <1>9. LoopResult(n, H, e) = "allow" <=> H # {} /\ \A i \in H : e[i] = "allow"
    <2>1. \A i \in H : i <= n /\ e[i] \in {"allow", "deny"}
      BY <1>2
    <2> HIDE DEF e, n
    <2>2. QED
      BY <2>1 DEF LoopResult
  <1>10. QED
    BY <1>1, <1>2, <1>8, <1>9 DEF H

-----------------------------------------------------------------------------
(* The inductive invariant.                                                *)

(* What the variables range over.                                          *)
TypeOK ==
    /\ now \in Nat
    /\ principals \in [PrincipalIds -> {"active", "disabled", "absent"}]
    /\ served \in Seq(Catalogs \cup Updates)
    /\ pc \in [Requests -> {"idle", "resolving", "evaluating", "answered", "dropped"}]
    /\ input \in [Requests -> Inputs \cup {None}]
    /\ DOMAIN resolved = Requests
    /\ DOMAIN answer = Requests
    /\ received \in [Requests -> Nat]
    /\ seenActive \in [Requests -> SUBSET PrincipalIds]
    /\ keptGroups \in [Requests -> SUBSET PrincipalIds]

Waiting(r) == pc[r] \in {"resolving", "evaluating"}

(* A catalog is served from the start, and checks arrived under one.       *)
ServedCovers == Revision >= 1 /\ \A r \in Requests : received[r] <= Revision

(* A waiting check passed the tests of its input; whoever is active now is *)
(* seen by it, and the groups that were active all along are now.          *)
WaitingIsWatched ==
    \A r \in Requests : Waiting(r) =>
        /\ input[r] \in Inputs
        /\ InputFailure(input[r]) = "none"
        /\ Active \subseteq seenActive[r]
        /\ keptGroups[r] \subseteq GroupsOf(input[r], Active)

(* What a check read of the principals was true while it waited.           *)
ResolvedWasActive ==
    \A r \in Requests : pc[r] = "evaluating" =>
        /\ resolved[r].principal = input[r].principal
        /\ input[r].principal \in seenActive[r]
        /\ resolved[r].groups \in SUBSET GroupsOf(input[r], seenActive[r])
        /\ keptGroups[r] \subseteq resolved[r].groups

(* A request has an answer only once the check is over.                    *)
UnansweredIsSilent == \A r \in Requests : pc[r] # "answered" => answer[r] = None

(* What one allowed request promises: the four properties, and that the    *)
(* catalog its context names has been served.                              *)
Sound(r) ==
    /\ answer[r].context.revision \in 1 .. Revision
    /\ Justified(r)
    /\ ScopeCovers(r)
    /\ input[r].principal \in seenActive[r]
    /\ Resign => answer[r].exp <= input[r].exp

AllowedIsSound == \A r \in Requests : Allowed(r) => Sound(r)

IInv ==
    /\ TypeOK
    /\ ServedCovers
    /\ WaitingIsWatched
    /\ ResolvedWasActive
    /\ UnansweredIsSilent
    /\ AllowedIsSound

(* What was promised stays true while the catalogs served so far stay what *)
(* they were, principals are only added to the ones seen active and groups *)
(* only taken from the ones active all along.                              *)
LEMMA SoundStays ==
    ASSUME NEW r \in Requests, Sound(r),
           answer'[r] = answer[r], input'[r] = input[r], received'[r] = received[r],
           seenActive[r] \subseteq seenActive'[r],
           keptGroups'[r] \subseteq keptGroups[r],
           1 .. Revision \subseteq 1 .. Revision',
           \A k \in 1 .. Revision : served'[k] = served[k]
    PROVE  Sound(r)'
  <1> DEFINE k == answer[r].context.revision
  <1>1. k \in 1 .. Revision /\ served'[k] = served[k]
    BY DEF Sound
  <1>2. Justified(r)'
    <2>1. GroupsOf(input[r], seenActive[r]) \subseteq GroupsOf(input'[r], seenActive'[r])
      BY DEF GroupsOf
    <2>2. QED
      BY <1>1, <2>1 DEF Sound, Justified
  <1>3. ScopeCovers(r)'
    BY <1>1 DEF Sound, ScopeCovers
  <1>4. QED
    BY <1>1, <1>2, <1>3 DEF Sound

(* A route that fails no test is the only one that matches.                *)
LEMMA OnlyRoute ==
    ASSUME NEW catalog \in Catalogs \cup Updates, NEW http,
           RouteFailure(catalog, http) = "none"
    PROVE  \E i \in MatchingRoutes(catalog, http) :
              /\ MatchingRoutes(catalog, http) = {i}
              /\ RouteOf(catalog, http) = catalog.routes[i]
  <1> DEFINE M == MatchingRoutes(catalog, http)
  <1>1. M # {} /\ ~ (Cardinality(M) > 1)
    BY DEF RouteFailure
  <1>2. IsFiniteSet(M)
    <2>1. DOMAIN catalog.routes = 1 .. Len(catalog.routes) /\ Len(catalog.routes) \in Nat
      BY CatalogAssumption
    <2>2. IsFiniteSet(1 .. Len(catalog.routes))
      BY <2>1, FS_Interval
    <2>3. M \subseteq 1 .. Len(catalog.routes)
      BY <2>1 DEF MatchingRoutes
    <2>4. QED
      BY <2>2, <2>3, FS_Subset
  <1>3. Cardinality(M) = 1
    <2>1. Cardinality(M) \in Nat /\ Cardinality(M) # 0
      BY <1>1, <1>2, FS_CardinalityType, FS_EmptySet
    <2>2. QED
      BY <1>1, <2>1
  <1>4. PICK i : M = {i}
    BY <1>2, <1>3, FS_Singleton
  <1>5. RouteOf(catalog, http) = catalog.routes[i]
    BY <1>4 DEF RouteOf
  <1>6. QED
    BY <1>4, <1>5

(* What check decides is what the catalog entitles to, and the scope that  *)
(* goes with it covers the request.                                        *)
LEMMA DecidedIsEntitled ==
    ASSUME NEW catalog \in Catalogs \cup Updates, NEW who, NEW route, NEW context,
           Authorize(catalog.bindings, who, route, context)
    PROVE  /\ Entitled(catalog, [principal |-> who.principal, groups |-> who.groups],
                       route, context)
           /\ \E p \in ScopeUrns(catalog.bindings, who, route.action, context, "allow") :
                 MatchesAny(p, {route.resource} \cup route.parents)
           /\ ~ \E p \in ScopeUrns(catalog.bindings, who, route.action, context, "deny") :
                 MatchesAny(p, {route.resource} \cup route.parents)
  <1> DEFINE B == catalog.bindings
             H == Hits(B, who, route, context)
             urns == {route.resource} \cup route.parents
             scope(effect) == ScopeUrns(B, who, route.action, context, effect)
  <1>1. /\ Len(B) \in Nat
        /\ DOMAIN B = 1 .. Len(B)
        /\ \A i \in 1 .. Len(B) : B[i].effect \in {"allow", "deny"}
    <2>1. B \in Seq({B[i] : i \in DOMAIN B})
      BY CatalogAssumption
    <2>2. \A i \in DOMAIN B : B[i].effect \in {"allow", "deny"}
      BY CatalogAssumption
    <2> HIDE DEF B
    <2>3. Len(B) \in Nat /\ DOMAIN B = 1 .. Len(B)
      BY <2>1
    <2>4. QED
      BY <2>2, <2>3
  <1>2. H # {} /\ \A i \in H : B[i].effect = "allow"
    BY <1>1, AuthorizeIsOrderFree
  <1>3. \A i \in 1 .. Len(B) :
           i \in H <=> AppliesTo(B[i], who, route.action, context) /\ MatchesAny(B[i].urn, urns)
    BY DEF Hits
  <1>4. Entitled(catalog, [principal |-> who.principal, groups |-> who.groups], route, context)
    BY <1>1, <1>2 DEF Entitled, Hits, AppliesTo, PrincipalMatches, MatchesAny
  <1>5. \E p \in scope("allow") : MatchesAny(p, urns)
    <2>1. PICK i \in H : TRUE
      BY <1>2
    <2>2. i \in DOMAIN B /\ B[i].effect = "allow"
          /\ AppliesTo(B[i], who, route.action, context) /\ MatchesAny(B[i].urn, urns)
      BY <1>1, <1>2, <1>3, <2>1 DEF Hits
    <2>3. B[i].urn \in scope("allow")
      BY <2>2 DEF ScopeUrns
    <2>4. QED
      BY <2>2, <2>3
  <1>6. ~ \E p \in scope("deny") : MatchesAny(p, urns)
    <2>1. SUFFICES ASSUME NEW p \in scope("deny"), MatchesAny(p, urns) PROVE FALSE
      OBVIOUS
    <2>2. PICK j \in DOMAIN B : /\ AppliesTo(B[j], who, route.action, context)
                                /\ B[j].effect = "deny"
                                /\ p = B[j].urn
      BY DEF ScopeUrns
    <2>3. j \in H
      BY <1>1, <1>3, <2>1, <2>2
    <2>4. QED
      BY <1>2, <2>2, <2>3
  <1>7. QED
    BY <1>4, <1>5, <1>6

-----------------------------------------------------------------------------
(* The initial states.                                                     *)
LEMMA InvInit == Init => IInv
  <1> SUFFICES ASSUME Init PROVE IInv
    OBVIOUS
  <1>1. TypeOK
    <2>1. PICK c \in Catalogs : served = <<c>>
      BY DEF Init
    <2>2. served \in Seq(Catalogs \cup Updates)
      BY <2>1
    <2>3. QED
      BY <2>2 DEF Init, TypeOK
  <1>2. Revision = 1
    BY DEF Init, Revision
  <1>3. QED
    BY <1>1, <1>2 DEF Init, IInv, ServedCovers, WaitingIsWatched, Waiting, ResolvedWasActive,
       UnansweredIsSilent, AllowedIsSound, Allowed

(* Every step keeps the types.                                             *)
LEMMA TypeStep ==
    ASSUME TypeOK, [Next]_vars
    PROVE  TypeOK'
  <1> USE DEF TypeOK, checkVars, history
  <1>1. CASE Clock
    BY <1>1 DEF Clock
  <1>2. ASSUME NEW p \in PrincipalIds, NEW s \in {"active", "disabled", "absent"},
               SetStatus(p, s)
        PROVE  TypeOK'
    <2>1. {seenActive', keptGroups'} \subseteq [Requests -> SUBSET PrincipalIds]
      BY <1>2 DEF SetStatus
    <2>2. QED
      BY <1>2, <2>1 DEF SetStatus
  <1>3. ASSUME NEW c \in Updates, Publish(c)
        PROVE  TypeOK'
    BY <1>3 DEF Publish
  <1>4. ASSUME NEW r \in Requests, NEW in \in Inputs, Receive(r, in)
        PROVE  TypeOK'
    <2>1. /\ received' \in [Requests -> Nat]
          /\ {seenActive', keptGroups'} \subseteq [Requests -> SUBSET PrincipalIds]
      BY <1>4 DEF Receive, Revision, Active, GroupsOf
    <2>2. QED
      BY <1>4, <2>1 DEF Receive, Goto, Deny
  <1>5. ASSUME NEW r \in Requests, ResolveRequest(r)
        PROVE  TypeOK'
    BY <1>5 DEF ResolveRequest, Goto, Deny
  <1>6. ASSUME NEW r \in Requests, ResolveFails(r)
        PROVE  TypeOK'
    BY <1>6 DEF ResolveFails, Goto, Deny
  <1>7. ASSUME NEW r \in Requests, Refuse(r)
        PROVE  TypeOK'
    BY <1>7 DEF Refuse, Goto, Deny
  <1>8. ASSUME NEW r \in Requests, Allow(r)
        PROVE  TypeOK'
    BY <1>8 DEF Allow, Goto
  <1>9. ASSUME NEW r \in Requests, Drop(r)
        PROVE  TypeOK'
    BY <1>9 DEF Drop, Goto
  <1>10. CASE UNCHANGED vars
    BY <1>10 DEF vars
  <1>11. QED
    BY <1>1, <1>2, <1>3, <1>4, <1>5, <1>6, <1>7, <1>8, <1>9, <1>10 DEF Next, Step

(* Catalogs are only added, and what was served stays what it was.         *)
LEMMA ServedGrows ==
    ASSUME TypeOK, [Next]_vars
    PROVE  /\ Revision \in Nat /\ Revision' \in Nat
           /\ Revision <= Revision'
           /\ \A k \in 1 .. Revision : served'[k] = served[k]
  <1> USE DEF TypeOK, Revision
  <1>1. CASE \E c \in Updates : Publish(c)
    BY <1>1 DEF Publish
  <1>2. CASE UNCHANGED served
    BY <1>2
  <1>3. QED
    BY <1>1, <1>2 DEF Next, Step, vars, Clock, SetStatus, Receive, ResolveRequest,
       ResolveFails, Refuse, Allow, Drop

(* A check is received under the newest catalog.                           *)
LEMMA ServedStep ==
    ASSUME TypeOK, ServedCovers, [Next]_vars
    PROVE  ServedCovers'
  <1>1. CASE \E r \in Requests, in \in Inputs : Receive(r, in)
    BY <1>1 DEF TypeOK, ServedCovers, Receive, Revision
  <1>2. CASE UNCHANGED received
    BY <1>2, ServedGrows DEF TypeOK, ServedCovers
  <1>3. QED
    BY <1>1, <1>2 DEF Next, Step, vars, checkVars, Clock, SetStatus, Publish, ResolveRequest,
       ResolveFails, Refuse, Allow, Drop

(* SetStatus records the principals it activates for every waiting check   *)
(* and strikes out the groups it disables, and Receive records the ones    *)
(* active when the check arrives.                                          *)
LEMMA WatchedStep ==
    ASSUME TypeOK, WaitingIsWatched, [Next]_vars
    PROVE  WaitingIsWatched'
  <1> USE DEF TypeOK, WaitingIsWatched, Waiting, checkVars, history
  <1>1. CASE Clock
    BY <1>1 DEF Clock, Active, InputFailure, GroupsOf
  <1>2. ASSUME NEW p \in PrincipalIds, NEW s \in {"active", "disabled", "absent"},
               SetStatus(p, s)
        PROVE  WaitingIsWatched'
    <2>1. Active' = IF s = "active" THEN Active \cup {p} ELSE Active \ {p}
      BY <1>2 DEF SetStatus, Active
    <2>2. ASSUME NEW r \in Requests, Waiting(r)'
          PROVE  /\ Active' \subseteq seenActive'[r]
                 /\ keptGroups'[r] \subseteq GroupsOf(input[r], Active')
      <3>1. Waiting(r) /\ Active \subseteq seenActive[r]
                       /\ keptGroups[r] \subseteq GroupsOf(input[r], Active)
        BY <1>2, <2>2 DEF SetStatus
      <3>2. CASE s = "active"
        BY <1>2, <2>1, <3>1, <3>2 DEF SetStatus, GroupsOf
      <3>3. CASE s # "active"
        BY <1>2, <2>1, <3>1, <3>3 DEF SetStatus, GroupsOf
      <3>4. QED
        BY <3>2, <3>3
    <2>3. UNCHANGED <<input, pc>>
      BY <1>2 DEF SetStatus
    <2>4. QED
      BY <2>2, <2>3 DEF InputFailure
  <1>3. ASSUME NEW c \in Updates, Publish(c)
        PROVE  WaitingIsWatched'
    BY <1>3 DEF Publish, Active, InputFailure, GroupsOf
  <1>4. ASSUME NEW r \in Requests, NEW in \in Inputs, Receive(r, in)
        PROVE  WaitingIsWatched'
    BY <1>4 DEF Receive, Goto, Deny, Active, InputFailure, GroupsOf
  <1>5. ASSUME NEW r \in Requests, ResolveRequest(r)
        PROVE  WaitingIsWatched'
    BY <1>5 DEF ResolveRequest, Goto, Deny, Active, InputFailure, GroupsOf
  <1>6. ASSUME NEW r \in Requests, ResolveFails(r) \/ Refuse(r) \/ Allow(r) \/ Drop(r)
        PROVE  WaitingIsWatched'
    BY <1>6 DEF ResolveFails, Refuse, Allow, Drop, Goto, Deny, Active, InputFailure, GroupsOf
  <1>7. CASE UNCHANGED vars
    BY <1>7 DEF vars, Active, InputFailure, GroupsOf
  <1>8. QED
    BY <1>1, <1>2, <1>3, <1>4, <1>5, <1>6, <1>7 DEF Next, Step

(* resolve_request reads the principal and its groups in one query, among  *)
(* the ones active at that moment.                                         *)
LEMMA ResolvedStep ==
    ASSUME TypeOK, WaitingIsWatched, ResolvedWasActive, [Next]_vars
    PROVE  ResolvedWasActive'
  <1> USE DEF TypeOK, ResolvedWasActive, checkVars, history
  <1>1. ASSUME NEW p \in PrincipalIds, NEW s \in {"active", "disabled", "absent"},
               SetStatus(p, s)
        PROVE  ResolvedWasActive'
    <2>1. ASSUME NEW r \in Requests
          PROVE  /\ seenActive[r] \subseteq seenActive'[r]
                 /\ keptGroups'[r] \subseteq keptGroups[r]
                 /\ GroupsOf(input[r], seenActive[r]) \subseteq GroupsOf(input[r], seenActive'[r])
      BY <1>1 DEF SetStatus, GroupsOf
    <2>2. UNCHANGED <<pc, input, resolved>>
      BY <1>1 DEF SetStatus
    <2>3. QED
      BY <2>1, <2>2
  <1>2. ASSUME NEW r \in Requests, NEW in \in Inputs, Receive(r, in)
        PROVE  ResolvedWasActive'
    BY <1>2 DEF Receive, Goto, Deny
  <1>3. ASSUME NEW r \in Requests, ResolveRequest(r)
        PROVE  ResolvedWasActive'
    <2>1. CASE PrincipalFailure(input[r]) = "none"
      <3>1. input[r].principal \in Active
        BY <1>3, <2>1, InputAssumption
           DEF ResolveRequest, PrincipalFailure, Active, WaitingIsWatched, Waiting
      <3>2. ActiveGroups(input[r]) = GroupsOf(input[r], Active)
        BY DEF ActiveGroups, GroupsOf
      <3>3. /\ Active \subseteq seenActive[r]
            /\ GroupsOf(input[r], Active) \subseteq GroupsOf(input[r], seenActive[r])
            /\ keptGroups[r] \subseteq GroupsOf(input[r], Active)
        BY <1>3 DEF ResolveRequest, WaitingIsWatched, Waiting, GroupsOf
      <3>4. resolved' = [resolved EXCEPT ![r] = [principal |-> input[r].principal,
                                                 groups |-> ActiveGroups(input[r])]]
        BY <1>3, <2>1 DEF ResolveRequest
      <3>5. QED
        BY <1>3, <2>1, <3>1, <3>2, <3>3, <3>4 DEF ResolveRequest, Goto
    <2>2. CASE PrincipalFailure(input[r]) # "none"
      BY <1>3, <2>2 DEF ResolveRequest, Goto, Deny
    <2>3. QED
      BY <2>1, <2>2
  <1>4. ASSUME NEW r \in Requests, ResolveFails(r) \/ Refuse(r) \/ Allow(r) \/ Drop(r)
        PROVE  ResolvedWasActive'
    BY <1>4 DEF ResolveFails, Refuse, Allow, Drop, Goto, Deny
  <1>5. CASE UNCHANGED <<checkVars, history>>
    BY <1>5
  <1>6. QED
    BY <1>1, <1>2, <1>3, <1>4, <1>5 DEF Next, Step, vars, Clock, Publish

(* The answer of a check is given once, when it ends.                      *)
LEMMA SilentStep ==
    ASSUME TypeOK, UnansweredIsSilent, [Next]_vars
    PROVE  UnansweredIsSilent'
  <1> USE DEF TypeOK, UnansweredIsSilent, checkVars
  <1>1. ASSUME NEW r \in Requests, NEW in \in Inputs, Receive(r, in)
        PROVE  UnansweredIsSilent'
    BY <1>1 DEF Receive, Goto, Deny
  <1>2. ASSUME NEW r \in Requests, ResolveRequest(r)
        PROVE  UnansweredIsSilent'
    BY <1>2 DEF ResolveRequest, Goto, Deny
  <1>3. ASSUME NEW r \in Requests, ResolveFails(r) \/ Refuse(r) \/ Allow(r) \/ Drop(r)
        PROVE  UnansweredIsSilent'
    BY <1>3 DEF ResolveFails, Refuse, Allow, Drop, Goto, Deny
  <1>4. CASE UNCHANGED checkVars
    BY <1>4
  <1>5. QED
    BY <1>1, <1>2, <1>3, <1>4 DEF Next, Step, vars, Clock, SetStatus, Publish

(* The context a check issues is sound at the moment it is issued.         *)
LEMMA AllowIsSound ==
    ASSUME TypeOK, ServedCovers, WaitingIsWatched, ResolvedWasActive,
           NEW r \in Requests, Allow(r)
    PROVE  Sound(r)'
  <1> DEFINE in == input[r]
             route == RouteOf(Current, in.http)
             who == resolved[r]
  <1>1. /\ in \in Inputs
        /\ pc[r] = "evaluating"
        /\ Refusal(r) = "none"
        /\ UNCHANGED <<served, input, received, seenActive, keptGroups>>
        /\ answer'[r] = [allowed |-> TRUE, context |-> AccessContext(r), exp |-> ResignExpiry(in)]
    BY DEF Allow, history, TypeOK, WaitingIsWatched, Waiting
  <1>2. /\ RouteFailure(Current, in.http) = "none"
        /\ Authorize(Current.bindings, who, route, in.context)
        /\ SourceRemains(in)
    BY <1>1 DEF Refusal, Decided
  <1>3. Revision \in Nat /\ Revision \in 1 .. Revision /\ Current \in Catalogs \cup Updates
    BY DEF ServedCovers, TypeOK, Revision, Current
  <1>4. /\ answer'[r].context.revision = Revision
        /\ answer'[r].context.action = route.action
        /\ answer'[r].context.allow
              = ScopeUrns(Current.bindings, who, route.action, in.context, "allow")
        /\ answer'[r].context.deny
              = ScopeUrns(Current.bindings, who, route.action, in.context, "deny")
        /\ answer'[r].exp = ResignExpiry(in)
    BY <1>1 DEF AccessContext
  <1>5. /\ Entitled(Current, [principal |-> who.principal, groups |-> who.groups],
                    route, in.context)
        /\ \E p \in answer'[r].context.allow :
              MatchesAny(p, {route.resource} \cup route.parents)
        /\ ~ \E p \in answer'[r].context.deny :
              MatchesAny(p, {route.resource} \cup route.parents)
    <2> HIDE DEF in, route, who
    <2>1. QED
      BY <1>2, <1>3, <1>4, DecidedIsEntitled
  <1>6. served'[answer'[r].context.revision] = Current
    BY <1>1, <1>4 DEF Current
  <1>7. Justified(r)'
    <2>1. Revision >= received[r]
      BY DEF ServedCovers
    <2>2. \E i \in MatchingRoutes(Current, in.http) :
             /\ MatchingRoutes(Current, in.http) = {i}
             /\ Current.routes[i].action = route.action
      BY <1>2, <1>3, OnlyRoute
    <2>3. /\ who.principal = in.principal
          /\ who.groups \in SUBSET GroupsOf(in, seenActive[r])
          /\ keptGroups[r] \subseteq who.groups
      BY <1>1 DEF ResolvedWasActive
    <2>4. QED
      BY <1>1, <1>4, <1>5, <1>6, <2>1, <2>2, <2>3 DEF Justified
  <1>8. ScopeCovers(r)'
    BY <1>1, <1>5, <1>6 DEF ScopeCovers
  <1>9. (Resign => answer[r].exp <= input[r].exp)'
    <2>1. Resign => in.exp \in Nat
      BY <1>1, InputAssumption DEF WaitingIsWatched, Waiting, InputFailure
    <2>2. QED
      BY <1>1, <1>2, <1>4, <2>1, CheckAssumption DEF TypeOK, ResignExpiry, SourceRemains
  <1>10. QED
    <2>1. in.principal \in seenActive[r]
      BY <1>1 DEF ResolvedWasActive
    <2>2. Revision' = Revision
      BY <1>1 DEF Revision
    <2>3. QED
      BY <1>1, <1>3, <1>4, <1>7, <1>8, <1>9, <2>1, <2>2 DEF Sound

(* A step either issues one context, or adds no allowed request and keeps  *)
(* what the earlier ones rest on.                                          *)
LEMMA SoundStep ==
    ASSUME IInv, [Next]_vars
    PROVE  AllowedIsSound'
  <1> USE DEF IInv, checkVars, history
  <1>1. SUFFICES ASSUME NEW r \in Requests, Allowed(r)' PROVE Sound(r)'
    BY DEF AllowedIsSound
  <1>2. CASE Allow(r)
    BY <1>2, AllowIsSound
  <1>3. CASE ~ Allow(r)
    <2>1. answer'[r] = answer[r]
      BY <1>1, <1>3 DEF TypeOK, Allowed, Next, Step, vars, Clock, SetStatus, Publish, Receive,
         ResolveRequest, ResolveFails, Refuse, Allow, Drop, Deny
    <2>2. pc[r] = "answered"
      BY <1>1, <2>1 DEF TypeOK, Allowed, UnansweredIsSilent
    <2>3. /\ input'[r] = input[r] /\ received'[r] = received[r]
          /\ seenActive[r] \subseteq seenActive'[r] /\ keptGroups'[r] \subseteq keptGroups[r]
      <3>1. ASSUME NEW p \in PrincipalIds, NEW s \in {"active", "disabled", "absent"},
                   SetStatus(p, s)
            PROVE  /\ UNCHANGED <<input, received>>
                   /\ seenActive[r] \subseteq seenActive'[r] /\ keptGroups'[r] \subseteq keptGroups[r]
        BY <3>1 DEF TypeOK, SetStatus
      <3>2. ASSUME NEW q \in Requests, NEW in \in Inputs, Receive(q, in)
            PROVE  /\ input'[r] = input[r] /\ received'[r] = received[r]
                   /\ seenActive'[r] = seenActive[r] /\ keptGroups'[r] = keptGroups[r]
        BY <2>2, <3>2 DEF TypeOK, Receive
      <3>3. CASE UNCHANGED <<input, received, history>>
        BY <3>3 DEF history
      <3>4. QED
        BY <3>1, <3>2, <3>3 DEF Next, Step, vars, Clock, Publish, ResolveRequest,
           ResolveFails, Refuse, Allow, Drop
    <2>4. 1 .. Revision \subseteq 1 .. Revision' /\ \A k \in 1 .. Revision : served'[k] = served[k]
      BY ServedGrows
    <2>5. Sound(r)
      BY <1>1, <2>1 DEF AllowedIsSound, Allowed
    <2>6. QED
      BY <2>1, <2>3, <2>4, <2>5, SoundStays
  <1>4. QED
    BY <1>2, <1>3

-----------------------------------------------------------------------------
(* IInv is inductive.                                                      *)
THEOREM InductiveInvariant == Spec => []IInv
  <1>1. IInv /\ [Next]_vars => IInv'
    BY TypeStep, ServedStep, WatchedStep, ResolvedStep, SilentStep, SoundStep DEF IInv
  <1>2. QED
    BY InvInit, <1>1, PTL DEF Spec

(* For every catalog, every request and every interleaving with writers of *)
(* principals and catalogs, what check lets through was entitled by a      *)
(* catalog served while it was checked.                                    *)
THEOREM AllowIsAlwaysJustified == Spec => []AllowIsJustified
  <1>1. IInv => AllowIsJustified
    BY DEF IInv, AllowedIsSound, Sound, AllowIsJustified
  <1>2. QED
    BY InductiveInvariant, <1>1, PTL

(* Nobody gets in who was not active at some moment of the check.          *)
THEOREM DisabledAlwaysStaysOut == Spec => []DisabledStaysOut
  <1>1. IInv => DisabledStaysOut
    BY DEF IInv, AllowedIsSound, Sound, DisabledStaysOut
  <1>2. QED
    BY InductiveInvariant, <1>1, PTL

(* authorize and authorization_scope, computed apart, agree on every       *)
(* request that is let through.                                            *)
THEOREM ScopeAlwaysCoversRequest == Spec => []ScopeCoversRequest
  <1>1. IInv => ScopeCoversRequest
    BY DEF IInv, AllowedIsSound, Sound, ScopeCoversRequest
  <1>2. QED
    BY InductiveInvariant, <1>1, PTL

(* No re-signed identity outlives the token it stands for.                 *)
THEOREM ResignedAlwaysEndsWithSource == Spec => []ResignedEndsWithSource
  <1>1. IInv => ResignedEndsWithSource
    BY DEF IInv, AllowedIsSound, Sound, ResignedEndsWithSource
  <1>2. QED
    BY InductiveInvariant, <1>1, PTL
=============================================================================
