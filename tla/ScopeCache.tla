----------------------------- MODULE ScopeCache -----------------------------
(***************************************************************************)
(* The cache behind opaque scope tokens (IAuthorizationCache): a check     *)
(* that cannot send its access context in a header stores it here under a  *)
(* random token, and the workload redeems the token until it expires.      *)
(*                                                                         *)
(* The memory provider holds at most MaxCapacity contexts and makes room   *)
(* by dropping the least recently used one.  The Redis provider has no     *)
(* bound of its own and leaves expiry to the server.  Each call is one     *)
(* critical section of the mutex, or one Redis command.                    *)
(*                                                                         *)
(* Every access is stamped with the next number of a u64 counter, far too  *)
(* wide to saturate.                                                       *)
(***************************************************************************)
EXTENDS Naturals, FiniteSets

CONSTANTS
    CacheProviders, \* cache.provider of the deployments: "memory", "redis"
    Tokens,         \* scope tokens
    MaxCapacity,    \* cache.memory.max_capacity
    DefaultTtl,     \* cache.memory.ttl, in seconds
    MaxTime         \* bound: seconds the clock may reach

ASSUME CacheAssumption ==
    /\ CacheProviders \subseteq {"memory", "redis"}
    /\ MaxCapacity \in Nat \ {0}
    /\ DefaultTtl \in Nat
    /\ MaxTime \in Nat

VARIABLES
    provider,   \* cache.provider; it never changes
    now,        \* epoch_seconds()
    entries,    \* the stored scopes, by token
    accesses    \* next_access_sequence of the memory provider

cacheVars == <<provider, entries, accesses>>

CacheInit ==
    /\ provider \in CacheProviders
    /\ now = 0
    /\ entries = [t \in {} |-> 0]
    /\ accesses = 0

Tick == now < MaxTime /\ now' = now + 1

-----------------------------------------------------------------------------
Smaller(a, b) == IF a <= b THEN a ELSE b
Larger(a, b) == IF a >= b THEN a ELSE b

(* expires_at: the entry never outlives the configured default, and a      *)
(* lifetime below one second is rounded up.                                *)
ExpiresAt(ttl) ==
    IF provider = "memory" THEN now + Larger(1, Smaller(ttl, DefaultTtl))
    ELSE now + ttl

(* retain: every call first forgets what has expired, as Redis does.       *)
Unexpired == {t \in DOMAIN entries : entries[t].expires > now}

IsFull(token) ==
    /\ provider = "memory"
    /\ token \notin Unexpired
    /\ Cardinality(Unexpired) >= MaxCapacity

LeastRecentlyUsed_Newest ==
    CHOOSE t \in Unexpired : \A u \in Unexpired : entries[t].accessed >= entries[u].accessed

LeastRecentlyUsed ==
    CHOOSE t \in Unexpired : \A u \in Unexpired : entries[t].accessed <= entries[u].accessed

(* What a store of token leaves of the other entries.                      *)
Survivors(token) ==
    Unexpired \ IF IsFull(token) THEN {token, LeastRecentlyUsed} ELSE {token}

Stamp == IF provider = "memory" THEN accesses + 1 ELSE accesses

(* store_scope of either provider; Redis refuses a lifetime of zero.       *)
StoreScope(token, context, ttl) ==
    /\ provider = "redis" => ttl > 0
    /\ entries' = [t \in Survivors(token) \cup {token} |->
                      IF t = token
                      THEN [context |-> context, expires |-> ExpiresAt(ttl), accessed |-> Stamp]
                      ELSE entries[t]]
    /\ accesses' = Stamp
    /\ UNCHANGED provider

(* load_scope: an entry it finds becomes the most recently used one.       *)
Hit(token) == token \in Unexpired

LoadScope(token) ==
    /\ entries' = [t \in Unexpired |->
                      IF t = token THEN [entries[t] EXCEPT !.accessed = Stamp] ELSE entries[t]]
    /\ accesses' = Stamp
    /\ UNCHANGED provider
=============================================================================
