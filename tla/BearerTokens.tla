---------------------------- MODULE BearerTokens ----------------------------
(***************************************************************************)
(* ClientCredentialsBearerTokenProvider: the service-account token for     *)
(* Keycloak's admin interface, cached until shortly before it expires.     *)
(* One mutex guards the cache and is held while a token is fetched;        *)
(* whoever waits for it is served in the order of arrival.                 *)
(***************************************************************************)
EXTENDS Naturals, Sequences

CONSTANTS
    Callers,        \* the calls that may need a token
    Lifetimes,      \* values of expires_in an answer may carry
    Slack,          \* seconds a token is given up before its end (30)
    LongestUse,     \* the most that is believed of a lifetime (24 hours)
    RequestTimeout, \* seconds after which a fetch is given up
    MaxClock,       \* bound: the seconds that pass
    None            \* no token, nobody

VARIABLES
    clock,      \* Instant::now(), in seconds
    cached,     \* the token in the cache
    waiting,    \* who waits for the mutex
    fetch,      \* the fetch of the mutex's holder
    used        \* history: the token handed out last

tokenVars == <<clock, cached, waiting, fetch, used>>

ASSUME TokenAssumption ==
    /\ Lifetimes \subseteq Nat
    /\ {Slack, LongestUse, RequestTimeout, MaxClock} \subseteq Nat
    /\ RequestTimeout <= Slack
    /\ None \notin Callers

Smaller(a, b) == IF a < b THEN a ELSE b
Larger(a, b) == IF a > b THEN a ELSE b

UseFor_WholeLife(expiresIn) == Larger(1, Smaller(expiresIn, LongestUse))

(* How long a fetched token is handed out: its life without the slack, but *)
(* a second at least.                                                      *)
UseFor(expiresIn) ==
    LET expiry == Smaller(expiresIn, LongestUse)
    IN Larger(1, expiry - Smaller(expiry, Slack))

Fresh == cached # None /\ clock < cached.refreshAt

HandOut(token) == used' = [token |-> token, at |-> clock]

Locks_WithoutLooking(c) ==
    /\ waiting # <<>> /\ Head(waiting) = c
    /\ fetch = None
    /\ waiting' = Tail(waiting)
    /\ fetch' = [by |-> c, since |-> clock, answer |-> None]
    /\ UNCHANGED <<clock, cached, used>>

(* The mutex is free: a fresh token is handed out at once, otherwise the   *)
(* lock is kept and a token asked for.                                     *)
Locks(c) ==
    /\ waiting # <<>> /\ Head(waiting) = c
    /\ fetch = None
    /\ ~Fresh
    /\ waiting' = Tail(waiting)
    /\ fetch' = [by |-> c, since |-> clock, answer |-> None]
    /\ UNCHANGED <<clock, cached, used>>

TakesCached(c) ==
    /\ waiting # <<>> /\ Head(waiting) = c
    /\ fetch = None
    /\ Fresh
    /\ waiting' = Tail(waiting)
    /\ HandOut(cached.token)
    /\ UNCHANGED <<clock, cached, fetch>>

(* Keycloak issues a token; its answer is on the way.                      *)
Issues(lifetime) ==
    /\ fetch # None /\ fetch.answer = None
    /\ fetch' = [fetch EXCEPT !.answer = [expiresAt |-> clock + lifetime, expiresIn |-> lifetime]]
    /\ UNCHANGED <<clock, cached, waiting, used>>

(* cache_token: an answer that is already over is refused.                 *)
Usable(answer) == answer # None /\ answer.expiresIn # 0

Receives(c) ==
    /\ fetch # None /\ fetch.by = c /\ Usable(fetch.answer)
    /\ cached' = [token |-> fetch.answer, refreshAt |-> clock + UseFor(fetch.answer.expiresIn)]
    /\ HandOut(fetch.answer)
    /\ fetch' = None
    /\ UNCHANGED <<clock, waiting>>

(* A failed, refused, late or dropped fetch releases the mutex and leaves  *)
(* the cache as it was; whoever still waited leaves the queue.             *)
Withdrawn(dropped) ==
    /\ waiting' = SelectSeq(waiting, LAMBDA c : c \notin dropped)
    /\ fetch' = IF fetch # None /\ fetch.by \in dropped THEN None ELSE fetch

(* A fetch does not outlive the timeout of the HTTP client.                *)
Tick ==
    /\ clock < MaxClock
    /\ fetch # None => clock - fetch.since < RequestTimeout
    /\ clock' = clock + 1
    /\ UNCHANGED <<cached, waiting, fetch, used>>

TokenInit ==
    /\ clock = 0
    /\ cached = None
    /\ waiting = <<>>
    /\ fetch = None
    /\ used = None

-----------------------------------------------------------------------------
(* A token that outlives the slack is alive whenever it is handed out,     *)
(* whatever the time its answer took (UseFor against `expires_in').        *)
HandedOutAlive ==
    used # None /\ used.token.expiresIn > Slack => used.at < used.token.expiresAt

(* Nobody asks Keycloak for a token while the cache holds a fresh one: the *)
(* calls that waited for the mutex use what the one before them fetched.   *)
NoNeedlessFetch == fetch # None => ~Fresh
=============================================================================
