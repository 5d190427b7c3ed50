------------------------ MODULE WorkloadAccessProofs ------------------------
(***************************************************************************)
(* What reaches a workload was decided for it, and what does not reach it  *)
(* has a cause: for any number of requests, tokens and places in the       *)
(* cache, whatever the lifetimes, clocks and keys.                         *)
(***************************************************************************)
EXTENDS WorkloadAccess, FiniteSetTheorems, WellFoundedInduction, TLAPS

-----------------------------------------------------------------------------
(* The inductive invariant: the checks, the cache, then each call.         *)

CheckFields == {"state", "context", "token"}

CheckOK(r) ==
    \/ check[r] = Idle
    \/ /\ DOMAIN check[r] = CheckFields
       /\ check[r].state \in {"storing", "answered", "refused"}
       /\ check[r].token \in Tokens \/ (check[r].token = None /\ check[r].state = "answered")
       /\ check[r].context \in Contexts
       /\ check[r].context.issued <= now

Holds(r, t) == check[r] # Idle /\ check[r].token = t

(* Nobody draws a token twice.                                             *)
ChecksInv ==
    /\ now \in Nat
    /\ DOMAIN check = Requests
    /\ \A r \in Requests : CheckOK(r)
    /\ \A r, s \in Requests, t \in Tokens : Holds(r, t) /\ Holds(s, t) => r = s

(* An entry is the context of the check that drew its token, and the       *)
(* stamps tell which of two tokens was used since the other was.           *)
EntryFields == {"context", "expires", "accessed"}

EntryOK(t) ==
    /\ t \in Tokens
    /\ DOMAIN entries[t] = EntryFields
    /\ entries[t].expires \in Nat
    /\ entries[t].accessed \in Nat /\ entries[t].accessed <= accesses
    /\ \E r \in Requests : /\ Holds(r, t)
                           /\ check[r].state # "storing"
                           /\ check[r].context = entries[t].context

EntriesInv ==
    /\ provider \in {"memory", "redis"}
    /\ accesses \in Nat
    /\ IsFiniteSet(DOMAIN entries)
    /\ \A t \in DOMAIN entries : EntryOK(t)

StampsInv ==
    /\ DOMAIN rivals = Tokens
    /\ \A t \in Tokens : IsFiniteSet(rivals[t])
    /\ provider = "memory" => \A t, u \in DOMAIN entries :
          /\ entries[t].accessed = entries[u].accessed => t = u
          /\ entries[t].accessed < entries[u].accessed => u \in rivals[t]

(* What became of a token that was sent.                                   *)
KeptOK(r) ==
    LET t == check[r].token
        due == check[r].context.issued + CacheLifetime
    IN  check[r].state = "answered" /\ t # None =>
          IF t \in DOMAIN entries THEN entries[t].expires >= due
          ELSE Evicted(t) \/ due <= now

KeptInv == \A r \in Requests : KeptOK(r)

(* What a call has in hand.                                                *)
IssuedTo(q, context) ==
    \E r \in Requests : /\ check[q] # Idle => r = q
                        /\ check[r].state = "answered"
                        /\ check[r].context = context

Cause(r) ==
    LET a == check[r]
    IN  \/ (IF a.token = None THEN "header" ELSE "grpc") \notin workload.resolvers
        \/ a.token = None /\ ~workload.sameKey
        \/ workload.drift + FutureTolerance < 0
        \/ Expired(a.context)
        \/ call[r].state = "rejected" /\ call[r].reason = "unavailable"
        \/ a.token # None /\ a.token \notin DOMAIN entries

CallOK(q) ==
    LET c == call[q]
    IN  /\ c = Idle \/ c.state \in {"calling", "loaded", "replied", "entered", "rejected",
                                    "anonymous"}
        /\ c # Idle /\ check[q] # Idle => check[q].state = "answered"
        /\ c.state = "calling" =>
              \/ c.token = Malformed /\ check[q] = Idle
              \/ /\ c.token \in Tokens
                 /\ \E r \in Requests : /\ check[q] # Idle => r = q
                                        /\ check[r].state = "answered"
                                        /\ check[r].token = c.token
        /\ c.state \in {"loaded", "replied"} =>
              DOMAIN c = CheckFields /\ IssuedTo(q, c.context)
        /\ c.state = "entered" => c.at < c.context.expires /\ IssuedTo(q, c.context)
        /\ c.state \in {"rejected", "anonymous"} /\ check[q] # Idle => Cause(q)

CallsInv ==
    /\ workload \in Workloads
    /\ DOMAIN call = Requests
    /\ \A q \in Requests : CallOK(q)

CacheInv == EntriesInv /\ StampsInv /\ KeptInv

IInv == ChecksInv /\ CacheInv /\ CallsInv

-----------------------------------------------------------------------------
(* The checks.                                                             *)

Fresh(c) ==
    /\ DOMAIN c = CheckFields
    /\ c.state \in {"storing", "answered", "refused"}
    /\ c.token \in Tokens \/ (c.token = None /\ c.state = "answered")
    /\ c.context \in Contexts
    /\ c.context.issued <= now

(* A check moves on, and keeps what it drew and decided.                   *)
Advances(r) ==
    /\ check[r] = Idle /\ call[r] # Idle => check'[r] = Idle
    /\ check[r] = Idle /\ check'[r] # Idle =>
          check'[r].state = "storing" \/ check'[r].token = None
    /\ check[r] # Idle =>
          /\ check'[r] # Idle
          /\ check'[r].token = check[r].token
          /\ check'[r].context = check[r].context
          /\ check[r].state # "storing" => check'[r] = check[r]

ChecksAdvance ==
    /\ workload' = workload /\ provider' = provider
    /\ now' \in Nat /\ now <= now'
    /\ ChecksInv'
    /\ \A r \in Requests : Advances(r)

(* Writing one check.                                                      *)
LEMMA CheckIsWritten ==
    ASSUME ChecksInv, NEW r \in Requests, NEW c, Fresh(c),
           check' = [check EXCEPT ![r] = c], now' = now,
           c.token \in Tokens => Holds(r, c.token) \/ \A s \in Requests : ~Holds(s, c.token)
    PROVE  ChecksInv'
  <1>1. \A s \in Requests : check'[s] = IF s = r THEN c ELSE check[s]
    BY DEF ChecksInv
  <1>2. DOMAIN check' = Requests /\ now' \in Nat
    BY DEF ChecksInv
  <1>3. ASSUME NEW s \in Requests
        PROVE  CheckOK(s)'
    <2>1. CheckOK(s)
      BY DEF ChecksInv
    <2>2. CASE s = r
      <3>1. check'[s] = c
        BY <1>1, <2>2
      <3>2. QED
        BY <3>1 DEF CheckOK, Fresh
    <2>3. CASE s # r
      <3>1. check'[s] = check[s]
        BY <1>1, <2>3
      <3>2. QED
        BY <2>1, <3>1 DEF CheckOK
    <2>4. QED
      BY <2>2, <2>3
  <1>4. ASSUME NEW s \in Requests, NEW t \in Tokens, Holds(s, t)'
        PROVE  Holds(s, t) \/ (s = r /\ c.token = t)
    <2>1. CASE s = r
      BY <1>1, <1>4, <2>1 DEF Holds
    <2>2. CASE s # r
      <3>1. check'[s] = check[s]
        BY <1>1, <2>2
      <3>2. check'[s] # Idle /\ check'[s].token = t
        BY <1>4 DEF Holds, Idle
      <3>3. QED
        BY <3>1, <3>2 DEF Holds
    <2>3. QED
      BY <2>1, <2>2
  <1>5. ASSUME NEW s \in Requests, NEW u \in Requests, NEW t \in Tokens, Holds(s, t)', Holds(u, t)'
        PROVE  s = u
    <2>1. Holds(s, t) \/ (s = r /\ c.token = t)
      BY <1>4, <1>5
    <2>2. Holds(u, t) \/ (u = r /\ c.token = t)
      BY <1>4, <1>5
    <2>3. Holds(s, t) /\ Holds(u, t) => s = u
      BY DEF ChecksInv
    <2>4. \A w \in Requests : Holds(r, t) /\ Holds(w, t) => w = r
      BY DEF ChecksInv
    <2>5. QED
      BY <2>1, <2>2, <2>3, <2>4, Zenon
  <1>6. QED
    BY <1>2, <1>3, <1>5 DEF ChecksInv

(* Nothing but its own handler changes a check.                            *)
LEMMA CheckOfHandler ==
    ASSUME ChecksInv, NEW r \in Requests, NEW c, Fresh(c),
           check' = [check EXCEPT ![r] = c],
           check[r] = Idle => call[r] = Idle /\ (c.state = "storing" \/ c.token = None),
           check[r] # Idle => /\ check[r].state = "storing"
                              /\ c.token = check[r].token /\ c.context = check[r].context
    PROVE  \A s \in Requests : Advances(s)
  <1>1. \A s \in Requests : check'[s] = IF s = r THEN c ELSE check[s]
    BY DEF ChecksInv
  <1>2. c # Idle
    BY DEF Fresh, Idle
  <1>3. ASSUME NEW s \in Requests
        PROVE  Advances(s)
    <2>1. CASE s = r
      BY <1>1, <1>2, <2>1 DEF Advances
    <2>2. CASE s # r
      BY <1>1, <2>2 DEF Advances
    <2>3. QED
      BY <2>1, <2>2
  <1>4. QED
    BY <1>3

(* Where the checks stay as they are.                                      *)
LEMMA ChecksStay ==
    ASSUME ChecksInv, UNCHANGED check, now' = now \/ Tick
    PROVE  ChecksInv' /\ now' \in Nat /\ now <= now' /\ \A r \in Requests : Advances(r)
  <1>1. now \in Nat /\ now' \in Nat /\ now <= now'
    BY DEF ChecksInv, Tick
  <1>2. ASSUME NEW r \in Requests
        PROVE  CheckOK(r)' /\ Advances(r)
    <2>1. CheckOK(r)
      BY DEF ChecksInv
    <2>2. CASE check[r] = Idle
      BY <2>2 DEF CheckOK, Advances
    <2>3. CASE check[r] # Idle
      <3>1. check[r].context.issued \in Nat
        BY <2>1, <2>3 DEF CheckOK, Contexts
      <3> DEFINE n == check[r].context.issued
      <3>2. n <= now'
        <4>1. n \in Nat /\ n <= now
          BY <2>1, <2>3, <3>1 DEF CheckOK
        <4> HIDE DEF n
        <4>2. QED
          BY <1>1, <4>1
      <3>3. QED
        BY <2>1, <2>3, <3>2 DEF CheckOK, Advances
    <2>4. QED
      BY <2>2, <2>3
  <1>3. \A r \in Requests : \A t : Holds(r, t)' <=> Holds(r, t)
    BY DEF Holds
  <1>4. QED
    BY <1>1, <1>2, <1>3 DEF ChecksInv

(* Every step takes the checks forward.                                    *)
LEMMA StepsAdvanceChecks ==
    ASSUME IInv, [Next]_vars
    PROVE  ChecksAdvance
  <1>1. ChecksInv /\ now \in Nat /\ ContextTtl \in Nat /\ ScopeTokenTtl \in Nat
    BY WorkloadAssumption DEF IInv, ChecksInv
  <1>2. ASSUME NEW r \in Requests, NEW ttl \in Nat
        PROVE  Context(r, ttl) \in Contexts /\ Context(r, ttl).issued <= now
    BY <1>1 DEF Context, Contexts
  <1>3. ASSUME UNCHANGED <<check, workload, provider>>, now' = now \/ Tick
        PROVE  ChecksAdvance
    BY <1>1, <1>3, ChecksStay DEF ChecksAdvance
  <1>4. ASSUME NEW r \in Requests, SendDirect(r)
        PROVE  ChecksAdvance
    <2> DEFINE c == Answered(Context(r, ContextTtl), None)
    <2>1. Fresh(c)
      BY <1>1, <1>2 DEF Answered, Fresh, CheckFields
    <2>2. c.token = None /\ None \notin Tokens
      BY WorkloadAssumption DEF Answered
    <2>3. /\ check' = [check EXCEPT ![r] = c] /\ check[r] = Idle /\ call[r] = Idle
          /\ now' = now /\ workload' = workload /\ provider' = provider
      BY <1>4 DEF SendDirect, cacheVars
    <2> HIDE DEF c
    <2>4. ChecksInv'
      BY <1>1, <2>1, <2>2, <2>3, CheckIsWritten
    <2>5. \A s \in Requests : Advances(s)
      BY <1>1, <2>1, <2>2, <2>3, CheckOfHandler
    <2>6. QED
      BY <1>1, <2>3, <2>4, <2>5 DEF ChecksAdvance
  <1>5. ASSUME NEW r \in Requests, NEW t \in Tokens, PrepareToken(r, t)
        PROVE  ChecksAdvance
    <2> DEFINE c == [state |-> "storing", token |-> t, context |-> Context(r, ScopeTokenTtl)]
    <2>1. Fresh(c) /\ c.token = t /\ c.state = "storing"
      BY <1>1, <1>2 DEF Fresh, CheckFields
    <2>2. /\ check' = [check EXCEPT ![r] = c] /\ check[r] = Idle /\ call[r] = Idle
          /\ now' = now /\ workload' = workload /\ provider' = provider
          /\ t \notin UsedTokens
      BY <1>5 DEF PrepareToken, cacheVars
    <2>3. \A s \in Requests : ~Holds(s, t)
      <3> SUFFICES ASSUME NEW s \in Requests, Holds(s, t)
                   PROVE  FALSE
        OBVIOUS
      <3>1. CheckOK(s) /\ check[s] # Idle /\ check[s].token = t
        BY <1>1 DEF Holds, ChecksInv
      <3>2. "token" \in DOMAIN check[s]
        BY <3>1 DEF CheckOK, CheckFields
      <3>3. QED
        BY <2>2, <3>1, <3>2 DEF UsedTokens
    <2> HIDE DEF c
    <2>4. ChecksInv'
      BY <1>1, <2>1, <2>2, <2>3, CheckIsWritten
    <2>5. \A s \in Requests : Advances(s)
      BY <1>1, <2>1, <2>2, CheckOfHandler
    <2>6. QED
      BY <1>1, <2>2, <2>4, <2>5 DEF ChecksAdvance
  <1>6. ASSUME NEW r \in Requests, NEW c, check[r].state = "storing",
               check' = [check EXCEPT ![r] = c],
               c = Answered(check[r].context, check[r].token) \/ c = [check[r] EXCEPT !.state = "refused"],
               UNCHANGED <<now, workload, provider>>
        PROVE  ChecksAdvance
    <2>1. CheckOK(r)
      BY <1>1 DEF ChecksInv
    <2>2. check[r] # Idle
      BY <1>6 DEF Idle
    <2>3. /\ DOMAIN c = CheckFields /\ c.state \in {"answered", "refused"}
          /\ c.token = check[r].token /\ c.context = check[r].context
      BY <1>6, <2>1, <2>2 DEF CheckOK, CheckFields, Answered
    <2>4. check[r].token \in Tokens /\ check[r].context \in Contexts /\ check[r].context.issued <= now
      BY <1>6, <2>1, <2>2 DEF CheckOK
    <2>5. Fresh(c)
      BY <2>3, <2>4 DEF Fresh
    <2>6. Holds(r, c.token)
      BY <2>2, <2>3 DEF Holds
    <2>7. ChecksInv'
      BY <1>1, <1>6, <2>5, <2>6, CheckIsWritten
    <2>8. \A s \in Requests : Advances(s)
      BY <1>1, <1>6, <2>2, <2>3, <2>5, CheckOfHandler
    <2>9. QED
      BY <1>1, <1>6, <2>7, <2>8 DEF ChecksAdvance
  <1>7. ASSUME NEW r \in Requests, SendToken(r) \/ StoreFails(r)
        PROVE  ChecksAdvance
    <2>1. check[r].state = "storing" /\ UNCHANGED <<now, workload, provider>>
      BY <1>7 DEF SendToken, StoreFails, StoreScope, cacheVars
    <2>2. CASE SendToken(r)
      <3>1. check' = [check EXCEPT ![r] = Answered(check[r].context, check[r].token)]
        BY <2>2 DEF SendToken
      <3>2. QED
        BY <1>6, <2>1, <3>1, Zenon
    <2>3. CASE StoreFails(r)
      <3>1. check' = [check EXCEPT ![r] = [check[r] EXCEPT !.state = "refused"]]
        BY <2>3 DEF StoreFails
      <3>2. QED
        BY <1>6, <2>1, <3>1, Zenon
    <2>4. QED
      BY <1>7, <2>2, <2>3
  <1>8. ASSUME NEW q \in Requests, NEW h, Enter(q, h)
        PROVE  ChecksAdvance
    BY <1>3, <1>8 DEF Enter, cacheVars
  <1>9. ASSUME NEW q \in Requests, LoadToken(q) \/ AnswerScope(q) \/ Resolve(q) \/ CallFails(q)
        PROVE  ChecksAdvance
    <2>1. UNCHANGED <<check, workload, provider>> /\ now' = now
      BY <1>9 DEF LoadToken, LoadScope, AnswerScope, Resolve, CallFails, cacheVars
    <2>2. QED
      BY <1>3, <2>1
  <1>10. CASE Next
    BY <1>10, <1>3, <1>4, <1>5, <1>7, <1>8, <1>9, Zenon DEF Next, Clock, Forward, Stray, cacheVars
  <1>11. CASE UNCHANGED vars
    BY <1>3, <1>11 DEF vars, cacheVars
  <1>12. QED
    BY <1>10, <1>11

-----------------------------------------------------------------------------
(* The cache.                                                              *)

(* A set of naturals that is not empty has a least member.                 *)
LEMMA LeastNatural ==
    ASSUME NEW T \in SUBSET Nat, T # {}
    PROVE  \E n \in T : \A m \in T : n <= m
  <1> DEFINE L == OpToRel(<, Nat)
  <1>1. IsWellFoundedOn(L, Nat)
    BY NatLessThanWellFounded
  <1>2. \A x \in Nat : \A y \in Nat : ~ (<<x, y>> \in L) => ~ (x < y)
    BY DEF OpToRel
  <1> HIDE DEF L
  <1>3. PICK n \in T : \A m \in T : ~ (<<m, n>> \in L)
    BY WFMin, <1>1
  <1>4. \A m \in T : ~ (m < n)
    BY <1>2, <1>3, Zenon
  <1>5. QED
    BY <1>4

(* min_by_key finds a token when there is one.                             *)
LEMMA OldestIsUnexpired ==
    ASSUME EntriesInv, Unexpired # {}
    PROVE  /\ LeastRecentlyUsed \in Unexpired
           /\ \A u \in Unexpired : entries[LeastRecentlyUsed].accessed <= entries[u].accessed
  <1> DEFINE T == {entries[t].accessed : t \in Unexpired}
  <1>1. T \in SUBSET Nat /\ T # {}
    BY DEF EntriesInv, EntryOK, Unexpired
  <1>2. PICK n \in T : \A m \in T : n <= m
    BY <1>1, LeastNatural
  <1>3. \E t \in Unexpired : \A u \in Unexpired : entries[t].accessed <= entries[u].accessed
    BY <1>2
  <1>4. QED
    BY <1>3, Zenon DEF LeastRecentlyUsed

(* A lifetime is a number of seconds.                                      *)
LEMMA LifetimeType == ASSUME provider \in {"memory", "redis"} PROVE CacheLifetime \in Nat
  BY CacheAssumption, WorkloadAssumption DEF CacheLifetime, Larger, Smaller

(* A token that was sent is followed through a step of the cache.          *)
LEMMA TokenIsFollowed ==
    ASSUME ChecksInv, EntriesInv, NEW r \in Requests, KeptOK(r), check[r] # Idle,
           check'[r] = check[r],
           now' \in Nat, now <= now', provider' = provider,
           LET t == check[r].token
           IN  /\ t \in DOMAIN entries' => /\ t \in DOMAIN entries
                                           /\ entries'[t].expires = entries[t].expires
               /\ t \in DOMAIN entries \ DOMAIN entries' => entries[t].expires <= now \/ Evicted(t)'
               /\ t \notin DOMAIN entries /\ Evicted(t) => Evicted(t)'
    PROVE  KeptOK(r)'
  <1> DEFINE t == check[r].token
             due == check[r].context.issued + CacheLifetime
             life == CacheLifetime
  <1>1. life \in Nat /\ life' = life
    BY LifetimeType DEF EntriesInv, CacheLifetime
  <1>2. check[r].context.issued \in Nat
    BY DEF ChecksInv, CheckOK, Contexts
  <1>3. due \in Nat /\ due' = due /\ t' = t /\ now \in Nat
    <2> HIDE DEF life
    <2>1. due = check[r].context.issued + life /\ due' = check[r].context.issued + life'
      BY DEF life
    <2>2. QED
      BY <1>1, <1>2, <2>1 DEF ChecksInv
  <1>4. SUFFICES ASSUME check[r].state = "answered", t # None
                 PROVE  IF t \in DOMAIN entries' THEN entries'[t].expires >= due
                        ELSE Evicted(t)' \/ due <= now'
    BY <1>3 DEF KeptOK
  <1>5. IF t \in DOMAIN entries THEN entries[t].expires >= due ELSE Evicted(t) \/ due <= now
    BY <1>4 DEF KeptOK
  <1>6. t \in DOMAIN entries => entries[t].expires \in Nat
    BY DEF EntriesInv, EntryOK
  <1>7. Evicted(t)' \/ ~Evicted(t)'
    OBVIOUS
  <1> HIDE DEF due, t
  <1>8. CASE t \in DOMAIN entries'
    <2>1. t \in DOMAIN entries /\ entries'[t].expires = entries[t].expires
      BY <1>8 DEF t
    <2>2. QED
      BY <1>5, <1>8, <2>1
  <1>9. CASE t \notin DOMAIN entries' /\ t \in DOMAIN entries
    <2>1. entries[t].expires <= now \/ Evicted(t)'
      BY <1>9 DEF t
    <2>2. CASE entries[t].expires <= now
      BY <1>3, <1>5, <1>6, <1>9, <2>2
    <2>3. CASE Evicted(t)'
      BY <1>9, <2>3
    <2>4. QED
      BY <2>1, <2>2, <2>3
  <1>10. CASE t \notin DOMAIN entries' /\ t \notin DOMAIN entries
    <2>1. Evicted(t) => Evicted(t)'
      BY <1>10 DEF t
    <2>2. CASE due <= now
      BY <1>3, <1>10, <2>2
    <2>3. CASE Evicted(t)
      BY <1>10, <2>1, <2>3
    <2>4. QED
      BY <1>5, <1>10, <2>2, <2>3
  <1>11. QED
    BY <1>8, <1>9, <1>10

(* The check behind an entry stays.                                        *)
LEMMA HolderStays ==
    ASSUME ChecksInv, ChecksAdvance, NEW t \in DOMAIN entries, EntryOK(t)
    PROVE  \E r \in Requests : /\ Holds(r, t)'
                               /\ check'[r].state # "storing"
                               /\ check'[r].context = entries[t].context
  <1>1. PICK r \in Requests : /\ Holds(r, t) /\ check[r].state # "storing"
                              /\ check[r].context = entries[t].context
    BY DEF EntryOK
  <1>2. check'[r] = check[r] /\ check[r] # Idle /\ check[r].token = t
    BY <1>1 DEF ChecksAdvance, Advances, Holds
  <1>3. QED
    BY <1>1, <1>2 DEF Holds

(* Nothing touches the cache.                                              *)
LEMMA CacheStays ==
    ASSUME IInv, ChecksAdvance, UNCHANGED <<entries, accesses, rivals>>,
           \A r \in Requests : check[r].state = "storing" => check'[r].state # "answered"
    PROVE  CacheInv'
  <1>1. ChecksInv /\ EntriesInv /\ StampsInv /\ KeptInv /\ provider' = provider
    BY DEF IInv, CacheInv, ChecksAdvance
  <1>2. ASSUME NEW t \in DOMAIN entries
        PROVE  EntryOK(t)'
    <2>1. EntryOK(t)
      BY <1>1 DEF EntriesInv
    <2>2. \E r \in Requests : /\ Holds(r, t)'
                              /\ check'[r].state # "storing"
                              /\ check'[r].context = entries[t].context
      BY <1>1, <2>1, HolderStays
    <2>3. QED
      BY <2>1, <2>2 DEF EntryOK
  <1>3. EntriesInv'
    BY <1>1, <1>2 DEF EntriesInv
  <1>4. StampsInv'
    BY <1>1 DEF StampsInv
  <1>5. ASSUME NEW r \in Requests
        PROVE  KeptOK(r)'
    <2>1. Advances(r) /\ CheckOK(r)
      BY <1>1 DEF ChecksAdvance, ChecksInv
    <2>2. CASE check[r] # Idle /\ check[r].state # "storing"
      <3>1. check'[r] = check[r] /\ now' \in Nat /\ now <= now'
        BY <2>1, <2>2 DEF Advances, ChecksAdvance
      <3>2. \A t : Evicted(t)' <=> Evicted(t)
        BY <1>1 DEF Evicted
      <3>3. KeptOK(r)
        BY <1>1 DEF KeptInv
      <3>4. QED
        BY <1>1, <2>2, <3>1, <3>2, <3>3, TokenIsFollowed
    <2>3. CASE check[r] # Idle /\ check[r].state = "storing"
      BY <2>3 DEF KeptOK
    <2>4. CASE check[r] = Idle
      BY <2>1, <2>4 DEF KeptOK, Advances, Idle
    <2>5. QED
      BY <2>2, <2>3, <2>4
  <1>6. QED
    BY <1>3, <1>4, <1>5 DEF CacheInv, KeptInv

(* A token that is used has no rivals; every other one has one more.       *)
LEMMA RivalsAre ==
    ASSUME StampsInv, NEW t \in Tokens, Touch(t)
    PROVE  /\ DOMAIN rivals' = Tokens
           /\ \A u \in Tokens : rivals'[u] = IF u = t THEN {} ELSE rivals[u] \cup {t}
           /\ \A u \in Tokens : IsFiniteSet(rivals'[u])
           /\ provider' = provider => \A u \in Tokens \ {t} : Evicted(u) => Evicted(u)'
  <1>1. /\ DOMAIN rivals' = Tokens
        /\ \A u \in Tokens : rivals'[u] = IF u = t THEN {} ELSE rivals[u] \cup {t}
    BY DEF Touch
  <1>2. ASSUME NEW u \in Tokens
        PROVE  IsFiniteSet(rivals'[u])
    <2>1. IsFiniteSet(rivals[u]) /\ IsFiniteSet({})
      BY FS_EmptySet DEF StampsInv
    <2>2. IsFiniteSet(rivals[u] \cup {t})
      BY <2>1, FS_AddElement
    <2>3. QED
      BY <1>1, <2>1, <2>2
  <1>3. ASSUME provider' = provider, NEW u \in Tokens \ {t}, Evicted(u)
        PROVE  Evicted(u)'
    <2>1. IsFiniteSet(rivals[u])
      BY DEF StampsInv
    <2>2. rivals'[u] = rivals[u] \cup {t}
      BY <1>1
    <2>3. IsFiniteSet(rivals'[u]) /\ rivals[u] \in SUBSET rivals'[u]
      BY <1>2, <2>2
    <2>4. Cardinality(rivals[u]) <= Cardinality(rivals'[u])
      BY <2>3, FS_Subset
    <2> DEFINE m == Cardinality(rivals[u])
               n == Cardinality(rivals'[u])
    <2>5. m \in Nat /\ n \in Nat /\ m <= n /\ MaxCapacity \in Nat
      BY <2>1, <2>3, <2>4, FS_CardinalityType, CacheAssumption
    <2>6. m >= MaxCapacity /\ provider = "memory"
      BY <1>3 DEF Evicted
    <2> HIDE DEF m, n
    <2>7. n >= MaxCapacity
      BY <2>5, <2>6
    <2>8. QED
      BY <1>3, <2>6, <2>7 DEF Evicted, n
  <1>4. QED
    BY <1>1, <1>2, <1>3

(* A full cache drops a token that max_capacity others were used after.    *)
LEMMA VictimIsEvicted ==
    ASSUME EntriesInv, StampsInv, NEW t \in Tokens, t \notin DOMAIN entries,
           IsFull(t), Touch(t), provider' = provider
    PROVE  \E v \in Unexpired : v = LeastRecentlyUsed /\ Evicted(v)'
  <1>0. PICK v : v = LeastRecentlyUsed
    OBVIOUS
  <1> DEFINE U == Unexpired
             n == Cardinality(U)
  <1>1. IsFiniteSet(DOMAIN entries) /\ U \in SUBSET DOMAIN entries
    BY DEF EntriesInv, Unexpired
  <1>2. IsFiniteSet(U) /\ n \in Nat
    BY <1>1, FS_Subset, FS_CardinalityType
  <1>3. provider = "memory" /\ n >= MaxCapacity /\ MaxCapacity \in Nat /\ MaxCapacity # 0
    BY CacheAssumption DEF IsFull
  <1>4. U # {}
    <2> SUFFICES ASSUME U = {} PROVE FALSE
      OBVIOUS
    <2>1. n = 0
      BY FS_EmptySet
    <2> HIDE DEF n
    <2>2. QED
      BY <1>3, <2>1
  <1>5. v \in U /\ \A u \in U : entries[v].accessed <= entries[u].accessed
    BY <1>0, <1>4, OldestIsUnexpired
  <1> HIDE DEF U
  <1>6. ASSUME NEW u \in U, u # v
        PROVE  u \in rivals[v]
    <2>1. u \in DOMAIN entries /\ v \in DOMAIN entries
      BY <1>1, <1>5
    <2>2. entries[u].accessed \in Nat /\ entries[v].accessed \in Nat
      BY <2>1 DEF EntriesInv, EntryOK
    <2>3. entries[v].accessed # entries[u].accessed
      BY <1>3, <1>6, <2>1 DEF StampsInv
    <2>4. entries[v].accessed < entries[u].accessed
      BY <1>5, <2>2, <2>3
    <2>5. QED
      BY <1>3, <2>1, <2>4 DEF StampsInv
  <1> DEFINE W == (U \ {v}) \cup {t}
  <1>7. v \in Tokens /\ v # t /\ t \notin U
    BY <1>1, <1>5 DEF EntriesInv, EntryOK
  <1>8. rivals'[v] = rivals[v] \cup {t} /\ IsFiniteSet(rivals'[v])
    BY <1>7, RivalsAre
  <1>9. W \in SUBSET rivals'[v]
    BY <1>6, <1>8
  <1>10. Cardinality(W) = n
    <2>1. IsFiniteSet(U \ {v}) /\ Cardinality(U \ {v}) = n - 1
      BY <1>2, <1>5, FS_RemoveElement
    <2>2. t \notin U \ {v}
      BY <1>7
    <2>3. Cardinality(W) = Cardinality(U \ {v}) + 1
      BY <2>1, <2>2, FS_AddElement
    <2> HIDE DEF n, W
    <2>4. QED
      BY <1>2, <2>1, <2>3
  <1>11. Cardinality(W) <= Cardinality(rivals'[v]) /\ Cardinality(rivals'[v]) \in Nat
    BY <1>8, <1>9, FS_Subset, FS_CardinalityType
  <1> HIDE DEF n, W
  <1>12. Cardinality(rivals'[v]) >= MaxCapacity
    BY <1>2, <1>3, <1>10, <1>11
  <1>13. Evicted(v)'
    BY <1>3, <1>12 DEF Evicted
  <1>14. QED
    BY <1>0, <1>5, <1>13 DEF U

(* store_scope keeps the invariant of the cache.                           *)
LEMMA ScopeIsStored ==
    ASSUME IInv, ChecksAdvance, NEW r \in Requests, check[r].state = "storing",
           NEW t, t = check[r].token,
           StoreScope(t, check[r].context, ScopeTokenTtl), Touch(t), now' = now,
           check'[r].state # "storing",
           \A s \in Requests : s # r => check'[s] = check[s]
    PROVE  CacheInv'
  <1>1. ChecksInv /\ EntriesInv /\ StampsInv /\ KeptInv /\ provider' = provider
    BY DEF IInv, CacheInv, ChecksAdvance
  <1>2. /\ check[r] # Idle /\ CheckOK(r) /\ Holds(r, t) /\ t \in Tokens
        /\ check[r].context.issued \in Nat /\ check[r].context.issued <= now
    <2>1. check[r] # Idle /\ CheckOK(r)
      BY <1>1 DEF ChecksInv, Idle
    <2>2. QED
      BY <2>1 DEF CheckOK, Holds, Contexts
  <1>3. /\ check'[r] # Idle /\ check'[r].token = t /\ check'[r].context = check[r].context
        /\ Holds(r, t)'
    BY <1>2 DEF ChecksAdvance, Advances, Holds
  <1>4. t \notin DOMAIN entries
    <2> SUFFICES ASSUME t \in DOMAIN entries PROVE FALSE
      OBVIOUS
    <2>1. PICK s \in Requests : Holds(s, t) /\ check[s].state # "storing"
      BY <1>1 DEF EntriesInv, EntryOK
    <2>2. s = r
      BY <1>1, <1>2, <2>1 DEF ChecksInv
    <2>3. QED
      BY <2>1, <2>2
  <1> DEFINE kept == Survivors(t)
             e == [context |-> check[r].context, expires |-> ExpiresAt(ScopeTokenTtl),
                   accessed |-> Stamp]
  <1>5. /\ kept \subseteq DOMAIN entries /\ t \notin kept
        /\ DOMAIN entries' = kept \cup {t} /\ entries'[t] = e
        /\ \A u \in kept : entries'[u] = entries[u]
        /\ accesses' = Stamp
    BY <1>4 DEF StoreScope, Survivors, Unexpired
  <1>6. \A u \in DOMAIN entries : u \notin kept =>
           entries[u].expires <= now \/ (IsFull(t) /\ u = LeastRecentlyUsed)
    <2>1. \A u \in DOMAIN entries : entries[u].expires \in Nat
      BY <1>1 DEF EntriesInv, EntryOK
    <2>2. now \in Nat
      BY <1>1 DEF ChecksInv
    <2>3. QED
      BY <1>4, <2>1, <2>2 DEF Survivors, Unexpired
  <1>7. /\ accesses \in Nat /\ Stamp \in Nat /\ accesses <= Stamp
        /\ provider = "memory" => accesses < Stamp
    BY <1>1 DEF EntriesInv, Stamp
  <1>8. ExpiresAt(ScopeTokenTtl) = now + CacheLifetime /\ CacheLifetime \in Nat /\ now \in Nat
    BY <1>1, LifetimeType DEF EntriesInv, ExpiresAt, CacheLifetime, ChecksInv
  <1>9. e.expires = now + CacheLifetime /\ e.accessed = Stamp /\ e.context = check[r].context
        /\ DOMAIN e = EntryFields
    BY <1>8 DEF EntryFields
  <1> HIDE DEF e, kept
  <1>10. ASSUME NEW u \in DOMAIN entries'
         PROVE  EntryOK(u)'
    <2>1. CASE u = t
      BY <1>2, <1>3, <1>5, <1>7, <1>8, <1>9, <2>1 DEF EntryOK
    <2>2. CASE u # t
      <3>1. u \in DOMAIN entries /\ entries'[u] = entries[u]
        BY <1>5, <2>2
      <3>2. EntryOK(u)
        BY <1>1, <3>1 DEF EntriesInv
      <3>3. \E s \in Requests : /\ Holds(s, u)' /\ check'[s].state # "storing"
                                /\ check'[s].context = entries[u].context
        BY <1>1, <3>1, <3>2, HolderStays
      <3>4. entries[u].accessed <= accesses'
        BY <1>5, <1>7, <3>2 DEF EntryOK
      <3>5. QED
        BY <3>1, <3>2, <3>3, <3>4 DEF EntryOK
    <2>3. QED
      BY <2>1, <2>2
  <1>11. EntriesInv'
    <2>1. IsFiniteSet(kept)
      BY <1>1, <1>5, FS_Subset DEF EntriesInv
    <2>2. IsFiniteSet(DOMAIN entries')
      BY <1>5, <2>1, FS_AddElement
    <2>3. QED
      BY <1>1, <1>5, <1>7, <1>10, <2>2 DEF EntriesInv
  <1>12. /\ DOMAIN rivals' = Tokens
         /\ \A u \in Tokens : rivals'[u] = IF u = t THEN {} ELSE rivals[u] \cup {t}
         /\ \A u \in Tokens : IsFiniteSet(rivals'[u])
         /\ \A u \in Tokens \ {t} : Evicted(u) => Evicted(u)'
    BY <1>1, <1>2, RivalsAre
  <1>13. StampsInv'
    <2> SUFFICES ASSUME provider = "memory", NEW u \in DOMAIN entries', NEW w \in DOMAIN entries'
                 PROVE  /\ entries'[u].accessed = entries'[w].accessed => u = w
                        /\ entries'[u].accessed < entries'[w].accessed => w \in rivals'[u]
      BY <1>1, <1>12 DEF StampsInv
    <2>1. ASSUME NEW x \in kept
          PROVE  /\ x \in DOMAIN entries /\ x \in Tokens /\ x # t /\ entries'[x] = entries[x]
                 /\ entries[x].accessed \in Nat /\ entries[x].accessed < Stamp
                 /\ rivals'[x] = rivals[x] \cup {t}
      <3>1. x \in DOMAIN entries /\ x # t /\ entries'[x] = entries[x]
        BY <1>5
      <3>2. EntryOK(x)
        BY <1>1, <3>1 DEF EntriesInv
      <3>3. QED
        BY <1>7, <1>12, <3>1, <3>2 DEF EntryOK
    <2>2. entries'[t].accessed = Stamp
      BY <1>5, <1>9
    <2>3. CASE u \in kept /\ w \in kept
      BY <1>1, <2>1, <2>3 DEF StampsInv
    <2>4. CASE u \in kept /\ w = t
      BY <1>7, <2>1, <2>2, <2>4
    <2>5. CASE u = t /\ w \in kept
      BY <1>7, <2>1, <2>2, <2>5
    <2>6. CASE u = t /\ w = t
      BY <1>7, <2>2, <2>6
    <2>7. QED
      BY <1>5, <2>3, <2>4, <2>5, <2>6
  <1>14. ASSUME NEW s \in Requests
         PROVE  KeptOK(s)'
    <2>1. CASE s = r
      <3>1. check'[s].token = t /\ t \in DOMAIN entries' /\ entries'[t].expires = now + CacheLifetime
        BY <1>3, <1>5, <1>9, <2>1
      <3>2. CacheLifetime' = CacheLifetime
        BY <1>1 DEF CacheLifetime
      <3> DEFINE n == check[r].context.issued
                 l == CacheLifetime
      <3>3. now + l >= n + l
        <4>1. n \in Nat /\ n <= now /\ l \in Nat /\ now \in Nat
          BY <1>2, <1>8
        <4> HIDE DEF n, l
        <4>2. QED
          BY <4>1
      <3>4. check'[s].context.issued = n
        BY <1>3, <2>1
      <3> HIDE DEF n
      <3>5. QED
        BY <3>1, <3>2, <3>3, <3>4 DEF KeptOK, l
    <2>2. CASE s # r /\ check[s] = Idle
      BY <2>2 DEF KeptOK, Idle
    <2>3. CASE s # r /\ check[s] # Idle
      <3>1. check'[s] = check[s] /\ CheckOK(s) /\ KeptOK(s)
        BY <1>1, <2>3 DEF ChecksInv, KeptInv
      <3>2. PICK x : x = check[s].token
        OBVIOUS
      <3>3. CASE x = None
        BY <3>1, <3>2, <3>3 DEF KeptOK
      <3>4. CASE x # None
        <4>1. x \in Tokens /\ Holds(s, x)
          BY <2>3, <3>1, <3>2, <3>4 DEF CheckOK, Holds
        <4>2. x # t
          BY <1>1, <1>2, <2>3, <4>1 DEF ChecksInv
        <4>3. x \in DOMAIN entries' => x \in DOMAIN entries /\ entries'[x].expires = entries[x].expires
          BY <1>5, <4>2
        <4>4. Evicted(x) => Evicted(x)'
          BY <1>12, <4>1, <4>2
        <4>5. x \in DOMAIN entries \ DOMAIN entries' => entries[x].expires <= now \/ Evicted(x)'
          <5> SUFFICES ASSUME x \in DOMAIN entries, x \notin kept, ~(entries[x].expires <= now)
                       PROVE  Evicted(x)'
            BY <1>5
          <5>1. IsFull(t) /\ x = LeastRecentlyUsed
            BY <1>6
          <5>2. PICK v \in Unexpired : v = LeastRecentlyUsed /\ Evicted(v)'
            BY <1>1, <1>2, <1>4, <5>1, VictimIsEvicted
          <5>3. QED
            BY <5>1, <5>2
        <4>6. QED
          BY <1>1, <1>8, <2>3, <3>1, <3>2, <4>3, <4>4, <4>5, TokenIsFollowed
      <3>5. QED
        BY <3>3, <3>4
    <2>4. QED
      BY <2>1, <2>2, <2>3
  <1>15. QED
    BY <1>11, <1>13, <1>14 DEF CacheInv, KeptInv

(* load_scope keeps it, whether it finds the token or not.                 *)
LEMMA ScopeIsLoaded ==
    ASSUME IInv, ChecksAdvance, NEW t \in Tokens, LoadScope(t),
           IF Hit(t) THEN Touch(t) ELSE UNCHANGED rivals, UNCHANGED check, now' = now
    PROVE  CacheInv'
  <1>1. ChecksInv /\ EntriesInv /\ StampsInv /\ KeptInv /\ provider' = provider
    BY DEF IInv, CacheInv, ChecksAdvance
  <1>2. /\ DOMAIN entries' = Unexpired /\ Unexpired \subseteq DOMAIN entries
        /\ accesses' = Stamp
    BY DEF LoadScope, Unexpired
  <1>3. /\ accesses \in Nat /\ Stamp \in Nat /\ accesses <= Stamp /\ now \in Nat
        /\ provider = "memory" => accesses < Stamp
    BY <1>1 DEF EntriesInv, ChecksInv, Stamp
  <1>4. ASSUME NEW u \in Unexpired
        PROVE  /\ EntryOK(u)
               /\ DOMAIN entries'[u] = EntryFields
               /\ entries'[u].context = entries[u].context
               /\ entries'[u].expires = entries[u].expires
               /\ entries'[u].accessed = IF u = t THEN Stamp ELSE entries[u].accessed
    <2>1. EntryOK(u)
      BY <1>1, <1>2 DEF EntriesInv
    <2>2. DOMAIN entries[u] = EntryFields
      BY <2>1 DEF EntryOK
    <2>3. entries'[u] = IF u = t THEN [entries[u] EXCEPT !.accessed = Stamp] ELSE entries[u]
      BY DEF LoadScope
    <2>4. QED
      BY <2>1, <2>2, <2>3 DEF EntryFields
  <1>5. EntriesInv'
    <2>1. IsFiniteSet(DOMAIN entries')
      BY <1>1, <1>2, FS_Subset DEF EntriesInv
    <2>2. ASSUME NEW u \in DOMAIN entries'
          PROVE  EntryOK(u)'
      <3>1. u \in Unexpired /\ u \in DOMAIN entries
        BY <1>2
      <3>2. \E s \in Requests : /\ Holds(s, u)' /\ check'[s].state # "storing"
                                /\ check'[s].context = entries[u].context
        BY <1>1, <1>4, <3>1, HolderStays
      <3>3. entries'[u].accessed \in Nat /\ entries'[u].accessed <= accesses'
        BY <1>2, <1>3, <1>4, <3>1 DEF EntryOK
      <3>4. QED
        BY <1>4, <3>1, <3>2, <3>3 DEF EntryOK
    <2>3. QED
      BY <1>1, <1>2, <1>3, <2>1, <2>2 DEF EntriesInv
  <1>6. /\ DOMAIN rivals' = Tokens
        /\ \A u \in Tokens : IsFiniteSet(rivals'[u])
        /\ \A u \in Tokens \ {t} : rivals[u] \subseteq rivals'[u]
        /\ Hit(t) => \A u \in Tokens \ {t} : t \in rivals'[u]
        /\ \A u \in Tokens : (u # t \/ ~Hit(t)) /\ Evicted(u) => Evicted(u)'
    <2>1. CASE Hit(t)
      BY <1>1, <2>1, RivalsAre
    <2>2. CASE ~Hit(t)
      BY <1>1, <2>2 DEF StampsInv, Evicted
    <2>3. QED
      BY <2>1, <2>2
  <1>7. StampsInv'
    <2> SUFFICES ASSUME provider = "memory", NEW u \in DOMAIN entries', NEW w \in DOMAIN entries'
                 PROVE  /\ entries'[u].accessed = entries'[w].accessed => u = w
                        /\ entries'[u].accessed < entries'[w].accessed => w \in rivals'[u]
      BY <1>1, <1>6 DEF StampsInv
    <2>1. ASSUME NEW x \in DOMAIN entries'
          PROVE  /\ x \in DOMAIN entries /\ x \in Tokens
                 /\ entries'[x].accessed = IF x = t THEN Stamp ELSE entries[x].accessed
                 /\ entries[x].accessed \in Nat /\ entries[x].accessed < Stamp
      BY <1>2, <1>3, <1>4 DEF EntryOK
    <2>2. CASE u # t /\ w # t
      BY <1>1, <1>6, <2>1, <2>2 DEF StampsInv
    <2>3. CASE u # t /\ w = t
      BY <1>2, <1>3, <1>6, <2>1, <2>3 DEF Hit
    <2>4. CASE u = t
      BY <1>3, <2>1, <2>4
    <2>5. QED
      BY <2>2, <2>3, <2>4
  <1>8. ASSUME NEW s \in Requests
        PROVE  KeptOK(s)'
    <2>1. check'[s] = check[s] /\ CheckOK(s) /\ KeptOK(s)
      BY <1>1 DEF ChecksInv, KeptInv
    <2>2. PICK x : x = check[s].token
      OBVIOUS
    <2>3. CASE check[s] = Idle \/ x = None
      BY <2>1, <2>2, <2>3 DEF KeptOK, Idle
    <2>4. CASE check[s] # Idle /\ x # None
      <3>1. x \in Tokens
        BY <2>1, <2>2, <2>4 DEF CheckOK
      <3>2. x \in DOMAIN entries' => x \in DOMAIN entries /\ entries'[x].expires = entries[x].expires
        BY <1>2, <1>4
      <3>3. x \in DOMAIN entries \ DOMAIN entries' => entries[x].expires <= now
        <4>1. x \in DOMAIN entries => entries[x].expires \in Nat
          BY <1>1 DEF EntriesInv, EntryOK
        <4>2. QED
          BY <1>2, <1>3, <4>1 DEF Unexpired
      <3>4. x \notin DOMAIN entries /\ Evicted(x) => Evicted(x)'
        BY <1>2, <1>6, <3>1 DEF Hit
      <3>5. QED
        BY <1>1, <1>3, <2>1, <2>2, <2>4, <3>2, <3>3, <3>4, TokenIsFollowed
    <2>5. QED
      BY <2>3, <2>4
  <1>9. QED
    BY <1>5, <1>7, <1>8 DEF CacheInv, KeptInv

(* Every step keeps the invariant of the cache.                            *)
LEMMA StepsKeepCache ==
    ASSUME IInv, [Next]_vars
    PROVE  CacheInv'
  <1>1. ChecksAdvance /\ ChecksInv
    BY StepsAdvanceChecks DEF IInv
  <1>2. ASSUME UNCHANGED <<entries, accesses, rivals>>, UNCHANGED check
        PROVE  CacheInv'
    BY <1>1, <1>2, CacheStays
  <1>3. ASSUME NEW r \in Requests, SendDirect(r) \/ \E t \in Tokens : PrepareToken(r, t)
        PROVE  CacheInv'
    <2>1. UNCHANGED <<entries, accesses, rivals>> /\ check[r] = Idle
      BY <1>3 DEF SendDirect, PrepareToken, cacheVars
    <2>2. \A s \in Requests : s # r => check'[s] = check[s]
      BY <1>1, <1>3 DEF SendDirect, PrepareToken, ChecksInv
    <2>3. \A s \in Requests : check[s].state = "storing" => check'[s].state # "answered"
      BY <2>1, <2>2 DEF Idle
    <2>4. QED
      BY <1>1, <2>1, <2>3, CacheStays
  <1>4. ASSUME NEW r \in Requests, SendToken(r) \/ StoreFails(r)
        PROVE  CacheInv'
    <2>1. /\ check[r].state = "storing" /\ now' = now
          /\ \A s \in Requests : s # r => check'[s] = check[s]
      BY <1>1, <1>4 DEF SendToken, StoreFails, ChecksInv
    <2>2. check[r] # Idle /\ CheckOK(r)
      BY <1>1, <2>1 DEF ChecksInv, Idle
    <2>3. check'[r].state # "storing" /\ (StoreFails(r) => check'[r].state = "refused")
      <3>1. CASE SendToken(r)
        <4>1. check'[r] = Answered(check[r].context, check[r].token)
          BY <1>1, <3>1 DEF SendToken, ChecksInv
        <4>2. ~StoreFails(r)
          <5>1. StoreFails(r) => check'[r] = [check[r] EXCEPT !.state = "refused"]
            BY <1>1 DEF StoreFails, ChecksInv
          <5>2. DOMAIN check[r] = CheckFields
            BY <2>2 DEF CheckOK
          <5>3. QED
            BY <4>1, <5>1, <5>2 DEF Answered, CheckFields
        <4>3. QED
          BY <4>1, <4>2 DEF Answered
      <3>2. CASE StoreFails(r)
        <4>1. check'[r] = [check[r] EXCEPT !.state = "refused"]
          BY <1>1, <3>2 DEF StoreFails, ChecksInv
        <4>2. DOMAIN check[r] = CheckFields
          BY <2>2 DEF CheckOK
        <4>3. QED
          BY <4>1, <4>2 DEF CheckFields
      <3>3. QED
        BY <1>4, <3>1, <3>2
    <2>4. CASE StoreScope(check[r].token, check[r].context, ScopeTokenTtl) /\ Touch(check[r].token)
      BY <1>1, <2>1, <2>3, <2>4, ScopeIsStored
    <2>5. CASE StoreFails(r) /\ UNCHANGED <<cacheVars, rivals>>
      <3>1. \A s \in Requests : check[s].state = "storing" => check'[s].state # "answered"
        BY <2>1, <2>3, <2>5
      <3>2. QED
        BY <1>1, <2>5, <3>1, CacheStays DEF cacheVars
    <2>6. QED
      BY <1>4, <2>4, <2>5 DEF SendToken, StoreFails
  <1>5. ASSUME NEW q \in Requests, LoadToken(q)
        PROVE  CacheInv'
    <2>1. UNCHANGED check /\ now' = now /\ call[q].state = "calling"
      BY <1>5 DEF LoadToken
    <2>2. PICK t : t = call[q].token
      OBVIOUS
    <2>3. t = Malformed \/ t \in Tokens
      BY <2>1, <2>2 DEF IInv, CallsInv, CallOK
    <2>4. CASE t = Malformed
      BY <1>2, <1>5, <2>1, <2>2, <2>4 DEF LoadToken, cacheVars
    <2>5. CASE t # Malformed
      <3>1. LoadScope(t) /\ IF Hit(t) THEN Touch(t) ELSE UNCHANGED rivals
        BY <1>5, <2>2, <2>5 DEF LoadToken
      <3>2. QED
        BY <1>1, <2>1, <2>3, <2>5, <3>1, ScopeIsLoaded
    <2>6. QED
      BY <2>4, <2>5
  <1>6. ASSUME NEW q \in Requests, AnswerScope(q) \/ Resolve(q) \/ CallFails(q) \/ \E h : Enter(q, h)
        PROVE  CacheInv'
    BY <1>2, <1>6 DEF AnswerScope, Resolve, CallFails, Enter, cacheVars
  <1>7. CASE Clock \/ UNCHANGED vars
    BY <1>2, <1>7 DEF Clock, vars, cacheVars
  <1>8. QED
    BY <1>3, <1>4, <1>5, <1>6, <1>7, Zenon DEF Next, Forward, Stray

-----------------------------------------------------------------------------
(* The calls.                                                              *)

(* What is new in the cache was being stored.                              *)
LEMMA OnlyStoresAdd ==
    ASSUME IInv, [Next]_vars, NEW t \in DOMAIN entries' \ DOMAIN entries
    PROVE  \E r \in Requests : check[r].state = "storing" /\ Holds(r, t)
  <1>1. ASSUME NEW x, NEW c, NEW ttl, StoreScope(x, c, ttl)
        PROVE  t = x
    BY <1>1 DEF StoreScope, Survivors, Unexpired
  <1>2. ASSUME NEW x, LoadScope(x)
        PROVE  FALSE
    BY <1>2 DEF LoadScope, Unexpired
  <1>3. ASSUME NEW r \in Requests, SendToken(r) \/ StoreFails(r)
        PROVE  check[r].state = "storing" /\ Holds(r, t)
    <2>1. check[r].state = "storing" /\ check[r] # Idle
      BY <1>3 DEF SendToken, StoreFails, Idle
    <2>2. StoreScope(check[r].token, check[r].context, ScopeTokenTtl)
      BY <1>3 DEF SendToken, StoreFails, cacheVars
    <2>3. QED
      BY <1>1, <2>1, <2>2 DEF Holds
  <1>4. ASSUME NEW q \in Requests, LoadToken(q)
        PROVE  FALSE
    BY <1>2, <1>4 DEF LoadToken, cacheVars
  <1>5. entries' # entries
    OBVIOUS
  <1>6. QED
    BY <1>3, <1>4, <1>5 DEF Next, Clock, SendDirect, PrepareToken, Forward, Stray, Enter,
       AnswerScope, Resolve, CallFails, vars, cacheVars

(* A token that is gone does not come back.                                *)
LEMMA GoneIsGone ==
    ASSUME IInv, [Next]_vars, NEW r \in Requests, check[r].state = "answered", check[r].token # None,
           check[r].token \notin DOMAIN entries
    PROVE  check[r].token \notin DOMAIN entries'
  <1> SUFFICES ASSUME check[r].token \in DOMAIN entries' PROVE FALSE
    OBVIOUS
  <1>1. check[r] # Idle /\ CheckOK(r)
    BY DEF IInv, ChecksInv, Idle
  <1>2. PICK s \in Requests : check[s].state = "storing" /\ Holds(s, check[r].token)
    BY OnlyStoresAdd
  <1>3. Holds(r, check[r].token) /\ check[r].token \in Tokens
    BY <1>1 DEF Holds, CheckOK
  <1>4. r = s
    BY <1>2, <1>3 DEF IInv, ChecksInv
  <1>5. QED
    BY <1>2, <1>4

(* What was issued to a call stays issued to it.                           *)
LEMMA IssuedStays ==
    ASSUME ChecksInv, ChecksAdvance, NEW q \in Requests, call[q] # Idle, NEW c, IssuedTo(q, c)
    PROVE  IssuedTo(q, c)'
  <1>1. PICK r \in Requests : /\ check[q] # Idle => r = q
                              /\ check[r].state = "answered" /\ check[r].context = c
    BY DEF IssuedTo
  <1>2. check[r] # Idle /\ check'[r] = check[r]
    BY <1>1 DEF ChecksAdvance, Advances, Idle
  <1>3. check'[q] # Idle => r = q
    BY <1>1 DEF ChecksAdvance, Advances
  <1>4. QED
    BY <1>1, <1>2, <1>3 DEF IssuedTo

(* Time only adds to the causes.                                           *)
LEMMA ExpiredStays ==
    ASSUME ChecksInv, workload \in Workloads, ChecksAdvance, NEW c \in Contexts, Expired(c)
    PROVE  Expired(c)'
  <1>1. workload.drift \in Int /\ c.expires \in Nat
    BY WorkloadAssumption DEF Contexts
  <1>2. now \in Nat /\ now' \in Nat /\ now <= now' /\ workload' = workload
    BY DEF ChecksInv, ChecksAdvance
  <1>3. QED
    BY <1>1, <1>2 DEF Expired, WorkloadClock

(* A call that does not move keeps what it has.                            *)
LEMMA CallStays ==
    ASSUME IInv, [Next]_vars, NEW q \in Requests, call'[q] = call[q]
    PROVE  CallOK(q)'
  <1>1. ChecksAdvance /\ ChecksInv /\ CallOK(q) /\ CheckOK(q) /\ Advances(q)
    BY StepsAdvanceChecks DEF IInv, CallsInv, ChecksInv, ChecksAdvance
  <1>2. workload \in Workloads /\ workload' = workload
    BY <1>1 DEF IInv, CallsInv, ChecksAdvance
  <1>3. CASE call[q] = Idle
    BY <1>3 DEF CallOK, Idle
  <1>4. CASE call[q] # Idle
    <2>1. check[q] # Idle => check[q].state = "answered" /\ check'[q] = check[q]
      BY <1>1, <1>4 DEF CallOK, Advances
    <2>2. check'[q] # Idle => check[q] # Idle
      BY <1>1, <1>4 DEF Advances
    <2>3. \A c : IssuedTo(q, c) => IssuedTo(q, c)'
      BY <1>1, <1>4, IssuedStays
    <2>4. call[q].state = "calling" /\ call[q].token \in Tokens =>
            \E r \in Requests : /\ check'[q] # Idle => r = q
                                /\ check'[r].state = "answered" /\ check'[r].token = call[q].token
      <3> SUFFICES ASSUME call[q].state = "calling", call[q].token \in Tokens
                   PROVE  \E r \in Requests : /\ check'[q] # Idle => r = q
                                              /\ check'[r].state = "answered"
                                              /\ check'[r].token = call[q].token
        OBVIOUS
      <3>1. Malformed \notin Tokens
        BY WorkloadAssumption
      <3>2. PICK r \in Requests : /\ check[q] # Idle => r = q
                                  /\ check[r].state = "answered"
                                  /\ check[r].token = call[q].token
        BY <1>1, <3>1 DEF CallOK
      <3>3. check'[r] = check[r]
        BY <1>1, <3>2 DEF ChecksAdvance, Advances, Idle
      <3>4. QED
        BY <2>2, <3>2, <3>3
    <2>5. call[q].state \in {"rejected", "anonymous"} /\ check'[q] # Idle => Cause(q)'
      <3> SUFFICES ASSUME call[q].state \in {"rejected", "anonymous"}, check'[q] # Idle
                   PROVE  Cause(q)'
        OBVIOUS
      <3>1. check[q] # Idle /\ check[q].state = "answered" /\ check'[q] = check[q] /\ Cause(q)
        BY <1>1, <2>1, <2>2 DEF CallOK
      <3>2. check[q].context \in Contexts
        BY <1>1, <3>1 DEF CheckOK
      <3>3. Expired(check[q].context) => Expired(check[q].context)'
        <4>1. PICK c : c = check[q].context
          OBVIOUS
        <4>2. Expired(c) => Expired(c)'
          BY <1>1, <1>2, <3>2, <4>1, ExpiredStays
        <4>3. QED
          BY <3>1, <4>1, <4>2
      <3>4. check[q].token # None /\ check[q].token \notin DOMAIN entries
              => check[q].token \notin DOMAIN entries'
        BY <3>1, GoneIsGone
      <3>5. QED
        BY <1>2, <3>1, <3>3, <3>4 DEF Cause
    <2>6. QED
      BY <1>1, <2>1, <2>2, <2>3, <2>4, <2>5 DEF CallOK
  <1>5. QED
    BY <1>3, <1>4

(* A context that does not validate has expired, or was issued in a future *)
(* the workload does not tolerate.                                         *)
LEMMA InvalidForCause ==
    ASSUME ChecksInv, workload \in Workloads, NEW c \in Contexts, c.issued <= now
    PROVE  /\ ~Validates(c, WorkloadClock) => Expired(c) \/ workload.drift + FutureTolerance < 0
           /\ ~Validates(c, now) => Expired(c)
           /\ Validates(c, WorkloadClock) => WorkloadClock < c.expires
  <1>1. workload.drift \in Int /\ FutureTolerance \in Nat /\ now \in Nat
    BY WorkloadAssumption DEF ChecksInv
  <1>2. c.expires \in Nat /\ c.issued \in Nat
    BY DEF Contexts
  <1>3. QED
    BY <1>1, <1>2 DEF Validates, Expired, WorkloadClock

(* A request that carries the headers of an answer: its own, or, past      *)
(* Envoy, any.                                                             *)
LEMMA EnterWithAnswer ==
    ASSUME IInv, NEW q \in Requests, NEW r \in Requests, check[q] # Idle => r = q,
           check[r].state = "answered", NEW h, Enter(q, h),
           h.direct = IF check[r].token = None THEN check[r].context ELSE None,
           h.token = IF check[r].token = None THEN None ELSE check[r].token
    PROVE  CallOK(q)'
  <1>1. ChecksInv /\ workload \in Workloads /\ CheckOK(r) /\ check[r] # Idle /\ DOMAIN call = Requests
    BY DEF IInv, CallsInv, ChecksInv, Idle
  <1>2. PICK c : c = check[r].context
    OBVIOUS
  <1>3. c \in Contexts /\ c.issued <= now /\ c # None /\ c # Malformed
    BY <1>1, <1>2, WorkloadAssumption DEF CheckOK
  <1>4. UNCHANGED <<check, workload, now, entries>>
    BY DEF Enter, cacheVars
  <1>5. check[q] # Idle => check[q].state = "answered"
    OBVIOUS
  <1>6. IssuedTo(q, c)'
    BY <1>2, <1>4 DEF IssuedTo
  <1>7. CASE check[r].token = None
    <2>1. h.direct = c /\ h.token = None
      BY <1>2, <1>7
    <2>2. CASE "header" \in workload.resolvers
      <3>1. call'[q] = DirectOutcome(c)
        BY <1>1, <1>3, <2>1, <2>2 DEF Enter, Reach
      <3>2. CASE workload.sameKey /\ Validates(c, WorkloadClock)
        <4>1. call'[q] = Entered(c)
          BY <1>3, <3>1, <3>2 DEF DirectOutcome
        <4>2. WorkloadClock < c.expires
          BY <1>1, <1>3, <3>2, InvalidForCause
        <4>3. QED
          BY <1>4, <1>5, <1>6, <4>1, <4>2 DEF CallOK, Entered
      <3>3. CASE ~(workload.sameKey /\ Validates(c, WorkloadClock))
        <4>1. call'[q] = Rejected("invalid_context")
          BY <3>1, <3>3 DEF DirectOutcome
        <4>2. ~workload.sameKey \/ Expired(c) \/ workload.drift + FutureTolerance < 0
          BY <1>1, <1>3, <3>3, InvalidForCause
        <4>3. Expired(c) => Expired(c)'
          BY <1>4 DEF Expired, WorkloadClock
        <4>4. check[q] # Idle => Cause(q)'
          BY <1>2, <1>4, <1>7, <4>2, <4>3 DEF Cause
        <4>5. QED
          BY <1>4, <1>5, <4>1, <4>4 DEF CallOK, Rejected
      <3>4. QED
        BY <3>2, <3>3
    <2>3. CASE "header" \notin workload.resolvers
      <3>1. call'[q] = Anonymous
        BY <1>1, <1>3, <2>1, <2>3 DEF Enter, Reach
      <3>2. check[q] # Idle => Cause(q)'
        BY <1>4, <1>7, <2>3 DEF Cause
      <3>3. QED
        BY <1>4, <1>5, <3>1, <3>2 DEF CallOK, Anonymous
    <2>4. QED
      BY <2>2, <2>3
  <1>8. CASE check[r].token # None
    <2>1. h.direct = None /\ h.token = check[r].token
      BY <1>8
    <2>2. check[r].token \in Tokens
      BY <1>1, <1>8 DEF CheckOK
    <2>3. CASE "grpc" \in workload.resolvers
      <3>1. call'[q] = [state |-> "calling", token |-> check[r].token]
        BY <1>1, <1>8, <2>1, <2>3 DEF Enter, Reach
      <3>2. QED
        BY <1>4, <1>5, <2>2, <3>1 DEF CallOK
    <2>4. CASE "grpc" \notin workload.resolvers
      <3>1. call'[q] = Rejected("no_resolver")
        BY <1>1, <1>8, <2>1, <2>4 DEF Enter, Reach
      <3>2. check[q] # Idle => Cause(q)'
        BY <1>4, <1>8, <2>4 DEF Cause
      <3>3. QED
        BY <1>4, <1>5, <3>1, <3>2 DEF CallOK, Rejected
    <2>5. QED
      BY <2>3, <2>4
  <1>9. QED
    BY <1>7, <1>8

(* A request past Envoy without access headers, or with nonsense in them.  *)
LEMMA EnterWithNonsense ==
    ASSUME IInv, NEW q \in Requests, check[q] = Idle, NEW h \in ClientHeaders, Enter(q, h)
    PROVE  CallOK(q)'
  <1>1. DOMAIN call = Requests /\ UNCHANGED check
    BY DEF IInv, CallsInv, Enter
  <1>2. h.direct \in {None, Malformed} /\ h.token \in {None, Malformed}
    BY DEF ClientHeaders
  <1>3. DirectOutcome(Malformed) = Rejected("invalid_context")
    BY DEF DirectOutcome
  <1>4. \/ call'[q] = Rejected("invalid_context") \/ call'[q] = Rejected("no_resolver")
        \/ call'[q] = Anonymous \/ call'[q] = [state |-> "calling", token |-> Malformed]
    BY <1>1, <1>2, <1>3 DEF Enter, Reach
  <1>5. QED
    BY <1>1, <1>4 DEF CallOK, Rejected, Anonymous

(* The headers of an answer are the ones of allowed_http_response,         *)
(* whatever the client sent.                                               *)
LEMMA HeadersOfAnswer ==
    ASSUME NEW a, NEW client, DOMAIN client = {"direct", "token"}
    PROVE  LET h == AllowedHttpResponse(a, client)
           IN  /\ h.direct = IF a.token = None THEN a.context ELSE None
               /\ h.token = IF a.token = None THEN None ELSE a.token
  BY DEF AllowedHttpResponse

(* load_scope is answered.                                                 *)
LEMMA LoadMovesOn ==
    ASSUME IInv, NEW q \in Requests, LoadToken(q)
    PROVE  CallOK(q)'
  <1>1. ChecksInv /\ EntriesInv /\ CallOK(q) /\ call[q].state = "calling" /\ DOMAIN call = Requests
    BY DEF IInv, CacheInv, ChecksInv, CallsInv, LoadToken
  <1>2. call[q] # Idle /\ UNCHANGED check
    BY <1>1 DEF Idle, LoadToken
  <1>3. check[q] # Idle => check[q].state = "answered"
    BY <1>1, <1>2 DEF CallOK
  <1>4. PICK t : t = call[q].token
    OBVIOUS
  <1>5. CASE t = Malformed
    <2>1. call'[q] = Rejected("status")
      BY <1>1, <1>4, <1>5 DEF LoadToken, Reach
    <2>2. check[q] = Idle
      BY <1>1, <1>4, <1>5, WorkloadAssumption DEF CallOK
    <2>3. QED
      BY <1>2, <2>1, <2>2 DEF CallOK, Rejected
  <1>6. CASE t # Malformed
    <2>1. PICK r \in Requests : /\ check[q] # Idle => r = q
                                /\ check[r].state = "answered" /\ check[r].token = t
      BY <1>1, <1>4, <1>6 DEF CallOK
    <2>2. Holds(r, t) /\ t \in Tokens /\ t # None
      BY <1>1, <1>4, <1>6, <2>1, WorkloadAssumption DEF CallOK, Holds, Idle
    <2>3. CASE Hit(t)
      <3>1. call'[q] = [state |-> "loaded", token |-> t, context |-> entries[t].context]
        BY <1>1, <1>4, <1>6, <2>3 DEF LoadToken, Reach
      <3>2. PICK s \in Requests : Holds(s, t) /\ check[s].context = entries[t].context
        BY <1>1, <2>3 DEF EntriesInv, EntryOK, Hit, Unexpired
      <3>3. s = r
        BY <1>1, <2>2, <3>2 DEF ChecksInv
      <3>4. IssuedTo(q, entries[t].context)
        BY <2>1, <3>2, <3>3 DEF IssuedTo
      <3>5. PICK c : c = entries[t].context
        OBVIOUS
      <3>6. IssuedTo(q, c)'
        BY <1>2, <3>4, <3>5 DEF IssuedTo
      <3>7. call'[q] = [state |-> "loaded", token |-> t, context |-> c]
        BY <3>1, <3>5
      <3>8. QED
        BY <1>2, <1>3, <3>6, <3>7 DEF CallOK, CheckFields
    <2>4. CASE ~Hit(t)
      <3>1. call'[q] = Rejected("status") /\ t \notin DOMAIN entries'
        BY <1>1, <1>4, <1>6, <2>4 DEF LoadToken, Reach, LoadScope, Hit
      <3>2. check[q] # Idle => Cause(q)'
        BY <1>2, <2>1, <2>2, <3>1 DEF Cause
      <3>3. QED
        BY <1>2, <1>3, <3>1, <3>2 DEF CallOK, Rejected
    <2>5. QED
      BY <2>3, <2>4
  <1>7. QED
    BY <1>5, <1>6

(* The handler decodes what it loaded, and the workload what it is sent.   *)
LEMMA ReplyMovesOn ==
    ASSUME IInv, NEW q \in Requests, AnswerScope(q) \/ Resolve(q) \/ CallFails(q)
    PROVE  CallOK(q)'
  <1>1. ChecksInv /\ CallOK(q) /\ DOMAIN call = Requests /\ workload \in Workloads
    BY DEF IInv, ChecksInv, CallsInv
  <1>2. call[q] # Idle /\ UNCHANGED <<check, workload, now, entries>>
    BY DEF Idle, AnswerScope, Resolve, CallFails, cacheVars
  <1>3. check[q] # Idle => check[q].state = "answered"
    BY <1>1, <1>2 DEF CallOK
  <1>4. CASE CallFails(q)
    <2>1. call'[q] = Rejected("unavailable")
      BY <1>1, <1>4 DEF CallFails, Reach
    <2>2. Cause(q)'
      BY <2>1 DEF Cause, Rejected
    <2>3. QED
      BY <1>2, <1>3, <2>1, <2>2 DEF CallOK, Rejected
  <1>5. CASE AnswerScope(q) \/ Resolve(q)
    <2>1. PICK c : c = call[q].context
      OBVIOUS
    <2>2. call[q].state \in {"loaded", "replied"}
      BY <1>5 DEF AnswerScope, Resolve
    <2>3. DOMAIN call[q] = CheckFields /\ IssuedTo(q, c)
      BY <1>1, <2>1, <2>2 DEF CallOK
    <2>4. IssuedTo(q, c)'
      BY <1>2, <2>3 DEF IssuedTo
    <2>5. PICK r \in Requests : /\ check[q] # Idle => r = q
                                /\ check[r].state = "answered" /\ check[r].context = c
      BY <2>3 DEF IssuedTo
    <2>6. c \in Contexts /\ c.issued <= now
      <3>1. CheckOK(r) /\ check[r] # Idle
        BY <1>1, <2>5 DEF ChecksInv, Idle
      <3>2. QED
        BY <2>5, <3>1 DEF CheckOK
    <2>7. ASSUME NEW why, call'[q] = Rejected(why),
                 Expired(c) \/ workload.drift + FutureTolerance < 0
          PROVE  CallOK(q)'
      <3>1. Expired(c) => Expired(c)'
        BY <1>2 DEF Expired, WorkloadClock
      <3>2. check[q] # Idle => Cause(q)'
        BY <1>2, <2>5, <2>7, <3>1 DEF Cause
      <3>3. QED
        BY <1>2, <1>3, <2>7, <3>2 DEF CallOK, Rejected
    <2>8. CASE AnswerScope(q)
      <3>1. CASE Validates(c, now)
        <4>1. call'[q] = [call[q] EXCEPT !.state = "replied"]
          BY <1>1, <2>1, <2>8, <3>1 DEF AnswerScope, Reach
        <4>2. DOMAIN call'[q] = CheckFields /\ call'[q].state = "replied" /\ call'[q].context = c
          BY <2>1, <2>3, <4>1 DEF CheckFields
        <4>3. QED
          BY <1>2, <1>3, <2>4, <4>2 DEF CallOK
      <3>2. CASE ~Validates(c, now)
        <4>1. call'[q] = Rejected("status")
          BY <1>1, <2>1, <2>8, <3>2 DEF AnswerScope, Reach
        <4>2. Expired(c)
          BY <1>1, <2>6, <3>2, InvalidForCause
        <4>3. QED
          BY <2>7, <4>1, <4>2
      <3>3. QED
        BY <3>1, <3>2
    <2>9. CASE Resolve(q)
      <3>1. CASE Validates(c, WorkloadClock)
        <4>1. call'[q] = Entered(c)
          BY <1>1, <2>1, <2>9, <3>1 DEF Resolve, Reach
        <4>2. WorkloadClock < c.expires
          BY <1>1, <2>6, <3>1, InvalidForCause
        <4>3. QED
          BY <1>2, <1>3, <2>4, <4>1, <4>2 DEF CallOK, Entered
      <3>2. CASE ~Validates(c, WorkloadClock)
        <4>1. call'[q] = Rejected("invalid_context")
          BY <1>1, <2>1, <2>9, <3>2 DEF Resolve, Reach
        <4>2. Expired(c) \/ workload.drift + FutureTolerance < 0
          BY <1>1, <2>6, <3>2, InvalidForCause
        <4>3. QED
          BY <2>7, <4>1, <4>2
      <3>3. QED
        BY <3>1, <3>2
    <2>10. QED
      BY <1>5, <2>8, <2>9
  <1>6. QED
    BY <1>4, <1>5

(* Every step keeps the invariant of the calls.                            *)
LEMMA StepsKeepCalls ==
    ASSUME IInv, [Next]_vars
    PROVE  CallsInv'
  <1>1. ChecksAdvance /\ workload \in Workloads /\ DOMAIN call = Requests
    BY StepsAdvanceChecks DEF IInv, CallsInv
  <1>2. workload' \in Workloads
    BY <1>1 DEF ChecksAdvance
  <1>3. ASSUME UNCHANGED call
        PROVE  CallsInv'
    BY <1>1, <1>2, <1>3, CallStays DEF CallsInv
  <1>4. ASSUME NEW q \in Requests, NEW o, Reach(q, o), CallOK(q)'
        PROVE  CallsInv'
    <2>1. DOMAIN call' = Requests /\ \A s \in Requests : s # q => call'[s] = call[s]
      BY <1>1, <1>4 DEF Reach
    <2>2. \A s \in Requests : CallOK(s)'
      BY <1>4, <2>1, CallStays
    <2>3. QED
      BY <1>2, <2>1, <2>2 DEF CallsInv
  <1>5. ASSUME NEW q \in Requests, NEW h, Enter(q, h), CallOK(q)'
        PROVE  CallsInv'
    BY <1>4, <1>5, Zenon DEF Enter
  <1>6. ASSUME NEW r \in Requests, NEW c \in ClientHeaders, Forward(r, c)
        PROVE  CallsInv'
    <2> DEFINE h == AllowedHttpResponse(check[r], c)
    <2>1. Enter(r, h) /\ check[r].state = "answered"
      BY <1>6 DEF Forward
    <2>2. /\ h.direct = IF check[r].token = None THEN check[r].context ELSE None
          /\ h.token = IF check[r].token = None THEN None ELSE check[r].token
      BY HeadersOfAnswer DEF ClientHeaders
    <2> HIDE DEF h
    <2>3. CallOK(r)'
      BY <2>1, <2>2, EnterWithAnswer
    <2>4. QED
      BY <1>5, <2>1, <2>3
  <1>7. ASSUME NEW q \in Requests, NEW h \in StrayHeaders, Stray(q, h)
        PROVE  CallsInv'
    <2>1. check[q] = Idle /\ Enter(q, h)
      BY <1>7 DEF Stray
    <2>2. CASE h \in ClientHeaders
      BY <1>5, <2>1, <2>2, EnterWithNonsense
    <2>3. CASE h \notin ClientHeaders
      <3>1. PICK r \in Requests : /\ check[r].state = "answered"
                                  /\ h = AllowedHttpResponse(check[r], [direct |-> None, token |-> None])
        BY <2>3 DEF StrayHeaders, Answers
      <3>2. /\ h.direct = IF check[r].token = None THEN check[r].context ELSE None
            /\ h.token = IF check[r].token = None THEN None ELSE check[r].token
        BY <3>1, HeadersOfAnswer
      <3>3. CallOK(q)'
        BY <2>1, <3>1, <3>2, EnterWithAnswer
      <3>4. QED
        BY <1>5, <2>1, <3>3
    <2>4. QED
      BY <2>2, <2>3
  <1>8. ASSUME NEW q \in Requests, LoadToken(q)
        PROVE  CallsInv'
    <2>1. CallOK(q)'
      BY <1>8, LoadMovesOn
    <2>2. \E o : Reach(q, o)
      BY <1>8 DEF LoadToken
    <2>3. QED
      BY <1>4, <2>1, <2>2
  <1>9. ASSUME NEW q \in Requests, AnswerScope(q) \/ Resolve(q) \/ CallFails(q)
        PROVE  CallsInv'
    <2>1. CallOK(q)'
      BY <1>9, ReplyMovesOn
    <2>2. \E o : Reach(q, o)
      BY <1>9, Zenon DEF AnswerScope, Resolve, CallFails
    <2>3. QED
      BY <1>4, <2>1, <2>2
  <1>10. ASSUME NEW r \in Requests,
                SendDirect(r) \/ SendToken(r) \/ StoreFails(r) \/ \E t \in Tokens : PrepareToken(r, t)
         PROVE  CallsInv'
    BY <1>3, <1>10 DEF SendDirect, SendToken, StoreFails, PrepareToken
  <1>11. CASE Clock \/ UNCHANGED vars
    BY <1>3, <1>11 DEF Clock, vars
  <1>12. QED
    BY <1>6, <1>7, <1>8, <1>9, <1>10, <1>11, Zenon DEF Next

-----------------------------------------------------------------------------
(* The invariant holds of every run of checks, caches and workloads.       *)
THEOREM InductiveInvariant == Spec => []IInv
  <1>1. Init => IInv
    <2> SUFFICES ASSUME Init PROVE IInv
      OBVIOUS
    <2>1. /\ provider \in CacheProviders /\ now = 0 /\ DOMAIN entries = {} /\ accesses = 0
          /\ check = [r \in Requests |-> Idle] /\ workload \in Workloads
          /\ call = [q \in Requests |-> Idle] /\ rivals = [t \in Tokens |-> {}]
      BY DEF Init, CacheInit
    <2>2. ChecksInv
      BY <2>1 DEF ChecksInv, CheckOK, Holds
    <2>3. EntriesInv /\ StampsInv
      BY <2>1, FS_EmptySet, CacheAssumption DEF EntriesInv, StampsInv
    <2>4. KeptInv
      BY <2>1 DEF KeptInv, KeptOK, Idle
    <2>5. CallsInv
      BY <2>1 DEF CallsInv, CallOK, Idle
    <2>6. QED
      BY <2>2, <2>3, <2>4, <2>5 DEF IInv, CacheInv
  <1>2. IInv /\ [Next]_vars => IInv'
    BY StepsAdvanceChecks, StepsKeepCache, StepsKeepCalls DEF IInv, ChecksAdvance
  <1>3. QED
    BY <1>1, <1>2, PTL DEF Spec

(* What a workload enters with was decided, for that very request when it  *)
(* came through Envoy, and had not expired on its clock.                   *)
THEOREM EnteredWasAlwaysIssued == Spec => []EnteredWasIssued
  <1>1. IInv => EnteredWasIssued
    BY DEF IInv, CallsInv, CallOK, IssuedTo, EnteredWasIssued
  <1>2. QED
    BY <1>1, InductiveInvariant, PTL

(* An allowed request is refused only for a cause an operator can name; in *)
(* particular the cache drops no token before max_capacity others were     *)
(* used after it.                                                          *)
THEOREM AlwaysRefusedForCause == Spec => []RefusedForCause
  <1>1. IInv => RefusedForCause
    <2> SUFFICES ASSUME IInv, NEW r \in Requests, check[r] # Idle,
                        call[r].state \in {"rejected", "anonymous"}
                 PROVE  LET a == check[r]
                            resolver == IF a.token = None THEN "header" ELSE "grpc"
                        IN  \/ resolver \notin workload.resolvers
                            \/ a.token = None /\ ~workload.sameKey
                            \/ workload.drift + FutureTolerance < 0
                            \/ Expired(a.context)
                            \/ call[r].state = "rejected" /\ call[r].reason = "unavailable"
                            \/ a.token # None /\ Evicted(a.token)
                            \/ a.token # None /\ a.context.issued + CacheLifetime <= now
      BY DEF RefusedForCause
    <2>1. CallOK(r) /\ KeptOK(r) /\ call[r] # Idle
      BY DEF IInv, CacheInv, KeptInv, CallsInv, Idle
    <2>2. check[r].state = "answered" /\ Cause(r)
      BY <2>1 DEF CallOK
    <2>3. QED
      BY <2>1, <2>2 DEF Cause, KeptOK
  <1>2. QED
    BY <1>1, InductiveInvariant, PTL
=============================================================================
