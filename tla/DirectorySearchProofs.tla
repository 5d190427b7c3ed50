----------------------- MODULE DirectorySearchProofs -----------------------
(***************************************************************************)
(* Federated search and the token it shares, for every set of directories, *)
(* whatever they hold, any number of clients, and every limit, lifetime    *)
(* and timeout.                                                            *)
(***************************************************************************)
EXTENDS DirectorySearch, TLAPS, WellFoundedInduction, FiniteSetTheorems

(* A set of naturals that is not empty has a least member.                 *)
LEMMA LeastNatural ==
    ASSUME NEW T \in SUBSET Nat, T # {}
    PROVE  \E n \in T : \A m \in T : n <= m
  <1> DEFINE L == OpToRel(<, Nat)
  <1>1. IsWellFoundedOn(L, Nat)
    BY NatLessThanWellFounded
  <1>2. \A x \in Nat : \A y \in Nat : ~ (<<x, y>> \in L) => ~ (x < y)
    BY DEF OpToRel
  <1> HIDE DEF L
  <1>3. PICK n \in T : \A m \in T : ~ (<<m, n>> \in L)
    BY WFMin, <1>1
  <1>4. \A m \in T : ~ (m < n)
    BY <1>2, <1>3, Zenon
  <1>5. QED
    BY <1>4

-----------------------------------------------------------------------------
(* The token cache.  A token that outlives the slack is due for refresh    *)
(* before it ends, since its answer took no longer than the slack.         *)

Lasts(token) == token.expiresIn \in Nat /\ token.expiresAt \in Nat

CacheOK ==
    cached # None =>
        /\ cached.refreshAt \in Nat
        /\ Lasts(cached.token)
        /\ cached.token.expiresIn > Slack => cached.refreshAt <= cached.token.expiresAt

FetchOK ==
    fetch # None =>
        /\ DOMAIN fetch = {"by", "since", "answer"}
        /\ fetch.since \in Nat /\ fetch.since <= clock /\ clock <= fetch.since + RequestTimeout
        /\ fetch.answer # None =>
              Lasts(fetch.answer) /\ fetch.since + fetch.answer.expiresIn <= fetch.answer.expiresAt

TokenInv == clock \in Nat /\ CacheOK /\ FetchOK /\ HandedOutAlive /\ NoNeedlessFetch

(* What the steps of the token cache do, whoever takes them.               *)
TokenStep ==
    \/ UNCHANGED <<clock, cached, fetch, used>>
    \/ \E c : Locks(c) \/ TakesCached(c) \/ Receives(c)
    \/ \E l \in Lifetimes : Issues(l)
    \/ fetch' = None /\ UNCHANGED <<clock, cached, used>>
    \/ Tick

(* How long a token is used.                                               *)
LEMMA UseForIs ==
    ASSUME NEW e \in Nat
    PROVE  /\ UseFor(e) \in Nat
           /\ e > Slack => UseFor(e) <= e - Slack
  <1>1. Slack \in Nat /\ LongestUse \in Nat
    BY TokenAssumption
  <1> DEFINE expiry == Smaller(e, LongestUse)
             cut == Smaller(expiry, Slack)
  <1>2. expiry \in Nat /\ expiry <= e /\ UseFor(e) = Larger(1, expiry - cut)
    BY <1>1 DEF Smaller, UseFor
  <1> HIDE DEF expiry
  <1>3. cut \in Nat /\ (cut = expiry \/ (cut = Slack /\ Slack <= expiry))
    BY <1>1, <1>2 DEF Smaller
  <1> HIDE DEF cut
  <1>4. QED
    BY <1>1, <1>2, <1>3 DEF Larger

(* The token cache stays in order.                                         *)
LEMMA TokenKeeps == TokenInv /\ TokenStep => TokenInv'
  <1> SUFFICES ASSUME TokenInv, TokenStep PROVE TokenInv'
    OBVIOUS
  <1>1. CASE UNCHANGED <<clock, cached, fetch, used>>
    BY <1>1 DEF TokenInv, CacheOK, FetchOK, HandedOutAlive, NoNeedlessFetch, Fresh
  <1>2. ASSUME NEW c, Locks(c) PROVE TokenInv'
    <2> DEFINE f == [by |-> c, since |-> clock, answer |-> None]
    <2>1. /\ ~Fresh /\ fetch' = f /\ UNCHANGED <<clock, cached, used>>
      BY <1>2 DEF Locks
    <2>2. /\ DOMAIN f = {"by", "since", "answer"} /\ f.since = clock /\ f.answer = None
      OBVIOUS
    <2> HIDE DEF f
    <2>3. FetchOK'
      BY <2>1, <2>2, TokenAssumption DEF FetchOK, TokenInv
    <2>4. QED
      BY <2>1, <2>3 DEF TokenInv, CacheOK, HandedOutAlive, NoNeedlessFetch, Fresh
  <1>3. ASSUME NEW c, TakesCached(c) PROVE TokenInv'
    <2> DEFINE u == [token |-> cached.token, at |-> clock]
    <2>1. /\ fetch = None /\ Fresh /\ used' = u /\ UNCHANGED <<clock, cached, fetch>>
      BY <1>3 DEF TakesCached, HandOut
    <2>2. u.token = cached.token /\ u.at = clock
      OBVIOUS
    <2> HIDE DEF u
    <2>3. HandedOutAlive'
      BY <2>1, <2>2, TokenAssumption DEF HandedOutAlive, Fresh, TokenInv, CacheOK, Lasts
    <2>4. QED
      BY <2>1, <2>3 DEF TokenInv, CacheOK, FetchOK, NoNeedlessFetch, Fresh
  <1>4. ASSUME NEW c, Receives(c) PROVE TokenInv'
    <2> DEFINE answer == fetch.answer
               until == clock + UseFor(answer.expiresIn)
               u == [token |-> answer, at |-> clock]
               h == [token |-> answer, refreshAt |-> until]
    <2>1. /\ fetch # None /\ answer # None
          /\ cached' = h /\ used' = u /\ fetch' = None /\ clock' = clock
      BY <1>4 DEF Receives, HandOut, Usable
    <2>2. /\ u.token = answer /\ u.at = clock /\ h.token = answer /\ h.refreshAt = until
      OBVIOUS
    <2>3. /\ clock \in Nat /\ Lasts(answer) /\ fetch.since \in Nat
          /\ clock <= fetch.since + Slack
          /\ fetch.since + answer.expiresIn <= answer.expiresAt
      BY <2>1, TokenAssumption DEF TokenInv, FetchOK
    <2>4. /\ UseFor(answer.expiresIn) \in Nat
          /\ answer.expiresIn > Slack => UseFor(answer.expiresIn) <= answer.expiresIn - Slack
      BY <2>3, UseForIs DEF Lasts
    <2> HIDE DEF u, h, answer
    <2>5. until \in Nat /\ (answer.expiresIn > Slack =>
                              until <= answer.expiresAt /\ clock < answer.expiresAt)
      BY <2>3, <2>4, TokenAssumption DEF Lasts
    <2> HIDE DEF until
    <2>6. CacheOK' /\ HandedOutAlive'
      BY <2>1, <2>2, <2>3, <2>5 DEF CacheOK, HandedOutAlive
    <2>7. QED
      BY <2>1, <2>3, <2>6 DEF TokenInv, FetchOK, NoNeedlessFetch
  <1>5. ASSUME NEW l \in Lifetimes, Issues(l) PROVE TokenInv'
    <2> DEFINE answer == [expiresAt |-> clock + l, expiresIn |-> l]
               f == [fetch EXCEPT !.answer = answer]
    <2>1. /\ fetch # None /\ fetch' = f /\ UNCHANGED <<clock, cached, used>>
      BY <1>5 DEF Issues
    <2>2. l \in Nat /\ clock \in Nat
      BY TokenAssumption DEF TokenInv
    <2>3. answer.expiresAt = clock + l /\ answer.expiresIn = l
      OBVIOUS
    <2> HIDE DEF answer
    <2>4. DOMAIN f = {"by", "since", "answer"} /\ f.since = fetch.since /\ f.answer = answer
      BY <2>1 DEF TokenInv, FetchOK
    <2> HIDE DEF f
    <2>5. FetchOK'
      BY <2>1, <2>2, <2>3, <2>4 DEF TokenInv, FetchOK, Lasts
    <2>6. QED
      BY <2>1, <2>5 DEF TokenInv, CacheOK, HandedOutAlive, NoNeedlessFetch, Fresh
  <1>6. CASE fetch' = None /\ UNCHANGED <<clock, cached, used>>
    BY <1>6 DEF TokenInv, CacheOK, FetchOK, HandedOutAlive, NoNeedlessFetch
  <1>7. CASE Tick
    <2>1. /\ clock' = clock + 1 /\ UNCHANGED <<cached, fetch, used>>
          /\ fetch # None => clock - fetch.since < RequestTimeout
      BY <1>7 DEF Tick
    <2>2. FetchOK'
      BY <2>1, TokenAssumption DEF TokenInv, FetchOK
    <2>3. NoNeedlessFetch'
      BY <2>1 DEF TokenInv, NoNeedlessFetch, Fresh, CacheOK
    <2>4. QED
      BY <2>1, <2>2, <2>3 DEF TokenInv, CacheOK, HandedOutAlive
  <1>8. QED
    BY <1>1, <1>2, <1>3, <1>4, <1>5, <1>6, <1>7 DEF TokenStep

(* Every step of a search is one of them.                                  *)
LEMMA SearchTakesTokenSteps == [Next]_vars => TokenStep
  <1> SUFFICES ASSUME [Next]_vars PROVE TokenStep
    OBVIOUS
  <1>1. CASE UNCHANGED vars
    BY <1>1 DEF TokenStep, vars, tokenVars
  <1>2. ASSUME NEW c \in Clients, Search(c) \/ Refuse(c) \/ Merge(c) PROVE TokenStep
    BY <1>2 DEF TokenStep, Search, Refuse, Merge, tokenVars
  <1>3. ASSUME NEW c \in Clients, NEW k \in CallKeys, GetsToken(c, k) \/ Answers(c, k)
        PROVE  TokenStep
    BY <1>3 DEF TokenStep, GetsToken, Answers, tokenVars
  <1>4. ASSUME NEW c \in Clients, NEW k \in CallKeys, TokenRefused(c, k) \/ Fails(c, k)
        PROVE  TokenStep
    <2>1. UNCHANGED <<clock, cached, used>> /\ (fetch' = None \/ fetch' = fetch)
      BY <1>4 DEF TokenRefused, Fails, SearchFails, Withdrawn
    <2>2. QED
      BY <2>1 DEF TokenStep
  <1>5. CASE KeycloakIssues
    BY <1>5 DEF TokenStep, KeycloakIssues
  <1>6. CASE Tick
    BY <1>6 DEF TokenStep
  <1>7. QED
    BY <1>1, <1>2, <1>3, <1>4, <1>5, <1>6 DEF Next, Proceeds

(* The token cache is in order whatever the searches do.                   *)
LEMMA TokenAlwaysOK == Spec => []TokenInv
  <1>1. Init => TokenInv
    BY DEF Init, TokenInit, TokenInv, CacheOK, FetchOK, HandedOutAlive, NoNeedlessFetch
  <1>2. TokenInv /\ [Next]_vars => TokenInv'
    BY TokenKeeps, SearchTakesTokenSteps
  <1>3. QED
    BY <1>1, <1>2, PTL DEF Spec

(* A token with more life than the slack is handed out alive, however long *)
(* the answer that brought it took (cache_token's refresh_at).             *)
THEOREM TokensAreHandedOutAlive == Spec => []HandedOutAlive
  <1>1. TokenInv => HandedOutAlive
    BY DEF TokenInv
  <1>2. QED
    BY <1>1, TokenAlwaysOK, PTL

(* bearer_token fetches no token while the cache holds a fresh one, for    *)
(* any number of callers at the mutex.                                     *)
THEOREM FetchesAreNeverNeedless == Spec => []NoNeedlessFetch
  <1>1. TokenInv => NoNeedlessFetch
    BY DEF TokenInv
  <1>2. QED
    BY <1>1, TokenAlwaysOK, PTL

-----------------------------------------------------------------------------
(* Merging: what is left of the places of a page.                          *)

(* Of directories with one id, one is left.                                *)
OnePerId(calls) == \A j, k \in DOMAIN calls : j[1].id = k[1].id => j[1] = k[1]

(* Of the places with one identity, one precedes all others.               *)
LEMMA FirstPlace ==
    ASSUME NEW calls, DOMAIN calls \subseteq CallKeys, OnePerId(calls),
           \A k \in DOMAIN calls : DOMAIN calls[k].principals \subseteq Nat,
           NEW x \in Places(calls)
    PROVE  \E r \in Deduplicated(calls) : Identity(r) = Identity(Placed(calls, x))
  <1> DEFINE S == {y \in Places(calls) : Identity(Placed(calls, y)) = Identity(Placed(calls, x))}
             Ids == {y[1][1].id : y \in S}
  <1>1. \A y \in Places(calls) : /\ y[1] \in DOMAIN calls /\ y[2] \in Nat
                                 /\ y = <<y[1], y[2]>>
                                 /\ y[2] \in DOMAIN calls[y[1]].principals
    BY DEF Places
  <1>2. \A y \in Places(calls) : /\ y[1][1].id \in Nat /\ y[1][2] \in Streams
                                 /\ y[1] = <<y[1][1], y[1][2]>>
    <2>1. \A k \in CallKeys : k[1].id \in Nat /\ k[2] \in Streams /\ k = <<k[1], k[2]>>
      BY DirectoryAssumption DEF CallKeys
    <2>2. QED
      BY <1>1, <2>1
  <1>3. PICK m \in Ids : \A i \in Ids : m <= i
    <2>1. Ids \in SUBSET Nat /\ Ids # {}
      BY <1>2
    <2> HIDE DEF Ids
    <2>2. QED
      BY <2>1, LeastNatural
  <1>4. PICK h \in S : h[1][1].id = m
    BY <1>3
  <1> DEFINE stream == IF \E y \in S : y[1] = <<h[1][1], "users">> THEN "users" ELSE "groups"
             k == <<h[1][1], stream>>
             Numbers == {y[2] : y \in {z \in S : z[1] = k}}
  <1>5. \A y \in S : y[1][1].id = m => y[1][1] = h[1][1]
    BY <1>1, <1>4 DEF OnePerId
  <1>6. \A y \in S : y[1][1].id = m => y[1] = k \/ (stream = "users" /\ y[1][2] = "groups")
    BY <1>2, <1>5 DEF Streams
  <1>7. PICK n \in Numbers : \A i \in Numbers : n <= i
    <2>1. \E y \in S : y[1] = k
      BY <1>2, <1>4, <1>6
    <2>2. Numbers \in SUBSET Nat /\ Numbers # {}
      BY <1>1, <2>1
    <2> HIDE DEF Numbers
    <2>3. QED
      BY <2>2, LeastNatural
  <1>8. PICK y \in S : y[1] = k /\ y[2] = n
    BY <1>7
  <1>9. ASSUME NEW z \in S, Precedes(z, y) PROVE FALSE
    <2>1. z[1][1].id \in Nat /\ m \in Nat /\ m <= z[1][1].id /\ y[1][1].id = m
      BY <1>2, <1>3, <1>4, <1>8
    <2>2. CASE z[1][1].id < y[1][1].id
      BY <2>1, <2>2
    <2>3. CASE z[1][1].id = y[1][1].id /\ z[1][2] = "users" /\ y[1][2] = "groups"
      <3>1. z[1] = <<h[1][1], "users">>
        BY <1>2, <1>5, <2>1, <2>3
      <3>2. QED
        BY <1>8, <2>3, <3>1
    <2>4. CASE z[1] = y[1] /\ z[2] < y[2]
      <3>1. z[2] \in Numbers
        BY <1>8, <2>4
      <3>2. n <= z[2] /\ z[2] \in Nat /\ n \in Nat
        BY <1>1, <1>7, <1>8, <3>1
      <3>3. QED
        BY <1>8, <2>4, <3>2
    <2>5. QED
      BY <1>9, <2>2, <2>3, <2>4 DEF Precedes
  <1>10. Placed(calls, y) \in Deduplicated(calls)
    BY <1>9 DEF Deduplicated
  <1>11. QED
    BY <1>10

(* No two of what is left have the same identity.                          *)
LEMMA DeduplicatedIs ==
    ASSUME NEW calls, DOMAIN calls \subseteq CallKeys, OnePerId(calls),
           \A k \in DOMAIN calls : DOMAIN calls[k].principals \subseteq Nat,
           NEW p \in Deduplicated(calls), NEW r \in Deduplicated(calls),
           Identity(p) = Identity(r)
    PROVE  p = r
  <1>1. \A y \in Places(calls) : y[1] \in DOMAIN calls /\ y[2] \in Nat /\ y = <<y[1], y[2]>>
    BY DEF Places
  <1>2. \A k \in CallKeys : k[1].id \in Nat /\ k[2] \in Streams /\ k = <<k[1], k[2]>>
    BY DirectoryAssumption DEF CallKeys
  <1>3. PICK x \in Places(calls), y \in Places(calls) :
           /\ p = Placed(calls, x) /\ r = Placed(calls, y)
           /\ ~Precedes(x, y) /\ ~Precedes(y, x)
    BY DEF Deduplicated
  <1>4. /\ x[1][1].id \in Nat /\ x[1][2] \in Streams /\ x[2] \in Nat
        /\ y[1][1].id \in Nat /\ y[1][2] \in Streams /\ y[2] \in Nat
    BY <1>1, <1>2
  <1>5. x[1][1].id = y[1][1].id
    BY <1>3, <1>4 DEF Precedes
  <1>6. x[1][2] = y[1][2]
    BY <1>3, <1>4, <1>5 DEF Precedes, Streams
  <1>7. x[1] = y[1]
    BY <1>1, <1>2, <1>5, <1>6 DEF OnePerId
  <1>8. x[2] = y[2]
    BY <1>3, <1>4, <1>7 DEF Precedes
  <1>9. x = y
    BY <1>1, <1>7, <1>8
  <1>10. QED
    BY <1>3, <1>9

-----------------------------------------------------------------------------
(* Pages: what a call answers is a stretch of what the directory holds.    *)

Key(k) == <<k[1].id, k[2]>>
Entries(q, k) == k[1].found[AskedKind(k[1], q, k[2])]
Everyone(q, k) == Candidates(k[1], q, k[2], Entries(q, k))

CursorsOK(q) == \A key \in DOMAIN q.cursors : q.cursors[key].at \in Nat

(* The directory of a call and what it answers.                            *)
LEMMA CallIs ==
    ASSUME NEW k \in CallKeys, NEW q
    PROVE  /\ k[1] \in Directories /\ k[2] \in Streams /\ k = <<k[1], k[2]>>
           /\ AskedKind(k[1], q, k[2]) \in AllKinds
           /\ Entries(q, k) \in Seq(Range(Entries(q, k)))
  <1>1. k[1] \in Directories /\ k[2] \in Streams /\ k = <<k[1], k[2]>>
    BY DEF CallKeys
  <1>2. AskedKind(k[1], q, k[2]) \in AllKinds
    BY DEF AskedKind, AllKinds
  <1>3. QED
    BY <1>1, <1>2, DirectoryAssumption DEF Entries

LimitOK(q) == q.limit \in 1 .. MaxLimit

(* What a page holds, and when it is the last.                             *)
LEMMA PageIs ==
    ASSUME NEW k \in CallKeys, NEW q, LimitOK(q), CursorsOK(q)
    PROVE  LET d == k[1]
               off == Offset(q, Key(k))
               lim == Limit(d, q)
               page == PageOf(d, q, k[2])
           IN  /\ off \in Nat /\ lim \in Nat /\ lim > 0
               /\ NextOffset(d, q, k[2]) = off + lim
               /\ DOMAIN page \subseteq Nat
               /\ \A n \in DOMAIN page : off + n \in DOMAIN Entries(q, k) /\ page[n] = Entries(q, k)[off + n]
               /\ \A i \in DOMAIN Entries(q, k) : off < i /\ i <= off + lim => i - off \in DOMAIN page
               /\ ~HasNext(d, q, k[2]) => off + lim >= Len(Entries(q, k))
  <1> DEFINE d == k[1]
             off == Offset(q, Key(k))
             lim == Limit(d, q)
             all == Entries(q, k)
             page == PageOf(d, q, k[2])
             len == Len(all)
             last == Smaller(off + lim, len)
  <1>1. /\ d \in Directories /\ Key(k) = <<d.id, k[2]>> /\ all \in Seq(Range(all))
    BY CallIs DEF Key
  <1>2. off \in Nat
    BY DEF Offset, CursorsOK
  <1>3. lim \in Nat /\ lim > 0
    <2>1. q.limit \in 1 .. MaxLimit /\ d.maxPage \in 1 .. MaxLimit /\ MaxLimit \in Nat
      BY <1>1, DirectoryAssumption DEF LimitOK
    <2>2. QED
      BY <2>1 DEF Limit, Smaller
  <1>4. page = SubSeq(all, off + 1, last) /\ NextOffset(d, q, k[2]) = off + lim
    BY <1>1, Zenon DEF PageOf, Entries, NextOffset
  <1>5. ~HasNext(d, q, k[2]) => ~(off + lim < len) \/ Len(page) # lim
    BY <1>1, Zenon DEF HasNext, Entries
  <1> HIDE DEF d, off, lim, all, page
  <1>6. len \in Nat /\ DOMAIN all = 1 .. len
    BY <1>1
  <1>7. \A n \in Int : Len(SubSeq(all, off + 1, n)) = IF off + 1 <= n THEN n - off ELSE 0
    BY <1>2
  <1>8. ASSUME NEW n \in Int, n <= len, NEW i \in 1 .. n - off
        PROVE  SubSeq(all, off + 1, n)[i] = all[off + i]
    BY <1>1, <1>2, <1>8
  <1> HIDE DEF len
  <1>9. /\ last \in Nat /\ last <= len /\ last <= off + lim
        /\ last = off + lim \/ last = len
    BY <1>2, <1>3, <1>6 DEF Smaller
  <1> HIDE DEF last
  <1>10. /\ DOMAIN page = 1 .. Len(page)
         /\ Len(page) = IF off + 1 <= last THEN last - off ELSE 0
         /\ \A n \in 1 .. Len(page) : page[n] = all[off + n]
    <2>1. page = SubSeq(all, off + 1, last) /\ last \in Int /\ last <= len
      BY <1>4, <1>9
    <2>2. Len(page) = IF off + 1 <= last THEN last - off ELSE 0
      BY <1>7, <2>1
    <2>3. DOMAIN page = 1 .. Len(page)
      BY <1>1, <1>2, <2>1
    <2>4. \A n \in 1 .. Len(page) : n \in 1 .. last - off
      BY <1>2, <1>9, <2>2
    <2>5. \A n \in 1 .. Len(page) : page[n] = all[off + n]
      BY <1>8, <2>1, <2>4
    <2>6. QED
      BY <2>2, <2>3, <2>5
  <1>11. DOMAIN page \subseteq Nat
    BY <1>2, <1>9, <1>10
  <1>12. \A n \in DOMAIN page : off + n \in DOMAIN all /\ page[n] = all[off + n]
    BY <1>2, <1>6, <1>9, <1>10
  <1>13. \A i \in DOMAIN all : off < i /\ i <= off + lim => i - off \in DOMAIN page
    BY <1>2, <1>3, <1>6, <1>9, <1>10
  <1>14. ~HasNext(d, q, k[2]) => off + lim >= len
    BY <1>2, <1>3, <1>5, <1>6, <1>9, <1>10
  <1>15. QED
    BY <1>2, <1>3, <1>4, <1>11, <1>12, <1>13, <1>14 DEF d, off, lim, all, page, len

(* The candidates of a page are those of its entries.                      *)
LEMMA CandidatesAre ==
    ASSUME NEW k \in CallKeys, NEW q, LimitOK(q), CursorsOK(q)
    PROVE  LET d == k[1]
               off == Offset(q, Key(k))
               lim == Limit(d, q)
               found == SearchKind(d, q, k[2]).principals
               all == Everyone(q, k)
           IN  /\ DOMAIN found \subseteq Nat
               /\ DOMAIN all \subseteq DOMAIN Entries(q, k)
               /\ \A n \in DOMAIN found : off + n \in DOMAIN all /\ found[n] = all[off + n]
               /\ \A i \in DOMAIN all : off < i /\ i <= off + lim =>
                     i - off \in DOMAIN found /\ found[i - off] = all[i]
  <1> DEFINE d == k[1]
             off == Offset(q, Key(k))
             lim == Limit(d, q)
             page == PageOf(d, q, k[2])
             ent == Entries(q, k)
             map(e) == MapEntry(d, AskedKind(d, q, k[2]), e)
             fits(e) == d.protocol = "LDAP" \/ SupportsKind(q, map(e).kind)
             found == SearchKind(d, q, k[2]).principals
             all == Everyone(q, k)
  <1>1. /\ found = [n \in {m \in DOMAIN page : fits(page[m])} |-> map(page[n])]
        /\ all = [n \in {m \in DOMAIN ent : fits(ent[m])} |-> map(ent[n])]
    BY DEF SearchKind, Candidates, Everyone
  <1>2. /\ off \in Nat /\ lim \in Nat
        /\ DOMAIN page \subseteq Nat
        /\ \A n \in DOMAIN page : off + n \in DOMAIN ent /\ page[n] = ent[off + n]
        /\ \A i \in DOMAIN ent : off < i /\ i <= off + lim => i - off \in DOMAIN page
    BY PageIs
  <1>3. DOMAIN ent \subseteq Nat
    <2>1. ent \in Seq(Range(ent))
      BY CallIs
    <2> HIDE DEF ent
    <2>2. QED
      BY <2>1
  <1> HIDE DEF d, off, lim, page, ent, found, all, fits, map
  <1>4. /\ DOMAIN found = {m \in DOMAIN page : fits(page[m])}
        /\ \A n \in DOMAIN found : found[n] = map(page[n])
        /\ DOMAIN all = {m \in DOMAIN ent : fits(ent[m])}
        /\ \A n \in DOMAIN all : all[n] = map(ent[n])
    BY <1>1
  <1>5. \A n \in DOMAIN found : off + n \in DOMAIN all /\ found[n] = all[off + n]
    BY <1>2, <1>4
  <1>6. ASSUME NEW i \in DOMAIN all, off < i, i <= off + lim
        PROVE  i - off \in DOMAIN found /\ found[i - off] = all[i]
    <2>1. i \in DOMAIN ent /\ i \in Nat
      BY <1>3, <1>4
    <2>2. i - off \in DOMAIN page /\ off + (i - off) = i
      BY <1>2, <1>6, <2>1
    <2>3. page[i - off] = ent[i]
      BY <1>2, <2>2
    <2>4. QED
      BY <1>4, <2>2, <2>3
  <1>7. QED
    BY <1>2, <1>4, <1>5, <1>6 DEF d, off, lim, ent, found, all

-----------------------------------------------------------------------------
(* The inductive invariant of the walks.  A stream without a cursor has    *)
(* not begun or has ended, and what lies before a cursor has been shown.   *)

WalkFields == {"pc", "query", "calls", "page", "shown"}
QueryFields == {"kinds", "providers", "limit", "cursors"}

ShownOf(w, p) == \E r \in w.shown : Identity(r) = Identity(p)

SeenUpTo(w, k, n) ==
    \A i \in DOMAIN Everyone(w.query, k) : i <= n => ShownOf(w, Everyone(w.query, k)[i])

(* The calls to directories with ids of their own.                         *)
OwnCalls(F, q) == {k \in Calls(F, q) : HasOwnId(F, k[1])}

(* Somebody the directories of the calls find.                             *)
FoundBy(F, q, p) ==
    \E k \in Calls(F, q) : \E i \in DOMAIN Everyone(q, k) : p = Everyone(q, k)[i]

(* The calls under way, and what those that are back have answered.        *)
CallsOK(F, w) ==
    /\ LimitOK(w.query)
    /\ DOMAIN w.calls = Calls(F, w.query)
    /\ \A k \in DOMAIN w.calls : w.calls[k].state = "answered" =>
          w.calls[k] = SearchKind(k[1], w.query, k[2])

WalkOK(F, w) ==
    w.pc # "none" =>
        /\ DOMAIN w = WalkFields /\ DOMAIN w.query = QueryFields /\ CursorsOK(w.query)
        /\ w.pc = "searching" => CallsOK(F, w)
        /\ \A k \in OwnCalls(F, w.query) : SeenUpTo(w, k, Offset(w.query, Key(k)))
        /\ w.pc = "done" => \A k \in OwnCalls(F, w.query) : SeenUpTo(w, k, Len(Entries(w.query, k)))
        /\ \A p, r \in w.page : Identity(p) = Identity(r) => p = r
        /\ \A p \in w.shown : FoundBy(F, w.query, p)

WalkInv ==
    /\ federated \subseteq Directories
    /\ DOMAIN walk = Clients /\ \A c \in Clients : WalkOK(federated, walk[c])

(* A walk that has shown nothing new stays in order.                       *)
LEMMA SameWalkOK ==
    ASSUME NEW F, NEW w, WalkOK(F, w), w.pc # "none",
           NEW v, DOMAIN v = WalkFields, v.query = w.query, v.page = w.page, v.shown = w.shown,
           v.pc # "done", v.pc = "searching" => CallsOK(F, v)
    PROVE  WalkOK(F, v)
  BY DEF WalkOK, SeenUpTo, ShownOf

(* Calls go to configured directories.                                     *)
LEMMA CallsAre ==
    ASSUME NEW F, F \subseteq Directories, NEW q
    PROVE  /\ Calls(F, q) \subseteq CallKeys
           /\ \A k \in Calls(F, q) : k[1] \in Selected(F, q) /\ k[1] \in F
  BY DEF Calls, Selected, CallKeys

(* Cursors are all that a walk changes in its query.                       *)
LEMMA SameQuery ==
    ASSUME NEW F, NEW q, NEW p, p.kinds = q.kinds, p.providers = q.providers
    PROVE  /\ Calls(F, p) = Calls(F, q) /\ OwnCalls(F, p) = OwnCalls(F, q)
           /\ \A k : Everyone(p, k) = Everyone(q, k) /\ Entries(p, k) = Entries(q, k)
           /\ \A x : FoundBy(F, p, x) <=> FoundBy(F, q, x)
  <1>1. \A kind : SupportsKind(p, kind) = SupportsKind(q, kind)
    BY DEF SupportsKind
  <1>2. Calls(F, p) = Calls(F, q)
    BY <1>1 DEF Calls, Selected, Searches
  <1>3. \A d, stream : AskedKind(d, p, stream) = AskedKind(d, q, stream)
    BY <1>1 DEF AskedKind
  <1>4. \A k : Everyone(p, k) = Everyone(q, k) /\ Entries(p, k) = Entries(q, k)
    BY <1>1, <1>3 DEF Everyone, Entries, Candidates
  <1>5. \A x : FoundBy(F, p, x) <=> FoundBy(F, q, x)
    BY <1>2, <1>4 DEF FoundBy
  <1>6. QED
    BY <1>2, <1>4, <1>5 DEF OwnCalls

(* A page that was kept belongs to its directory, and that of a directory  *)
(* with an id of its own is kept.                                          *)
LEMMA KeptIs ==
    ASSUME NEW F, NEW q, NEW last \in Kept(Selected(F, q))
    PROVE  /\ \A d, e \in last : d.id = e.id => d = e
           /\ \A k \in OwnCalls(F, q) : k[1] \in last
  <1>1. /\ last \subseteq Selected(F, q) /\ Selected(F, q) \subseteq F
        /\ \A d, e \in last : d.id = e.id => d = e
        /\ \A d \in Selected(F, q) : \E e \in last : e.id = d.id
    BY DEF Kept, Selected
  <1>2. ASSUME NEW k \in OwnCalls(F, q) PROVE k[1] \in last
    <2>1. k[1] \in Selected(F, q) /\ HasOwnId(F, k[1])
      BY DEF OwnCalls, Calls
    <2>2. PICK e \in last : e.id = k[1].id
      BY <1>1, <2>1
    <2>3. QED
      BY <1>1, <2>1, <2>2 DEF HasOwnId
  <1>3. QED
    BY <1>1, <1>2

(* The page that is merged from the answers takes the walk on.             *)
LEMMA MergeKeeps ==
    ASSUME NEW c \in Clients, WalkOK(federated, walk[c]), Merge(c), DOMAIN walk = Clients,
           federated \subseteq Directories
    PROVE  \E v : WalkOK(federated, v) /\ v.pc # "none" /\ walk' = [walk EXCEPT ![c] = v]
  <1> DEFINE F == federated
             w == walk[c]
             q == w.query
  <1>0. PICK last \in Kept(Selected(F, q)) :
          LET calls == [k \in {j \in DOMAIN w.calls : j[1] \in last} |-> w.calls[k]]
              page == Deduplicated(calls)
              next == UNION {calls[k].next : k \in DOMAIN calls}
              cursors == [key \in {n[1] : n \in next} |-> (CHOOSE n \in next : n[1] = key)[2]]
          IN walk' = [walk EXCEPT ![c] =
                         [pc |-> IF next = {} THEN "done" ELSE "ready",
                          query |-> [w.query EXCEPT !.cursors = cursors],
                          calls |-> <<>>, page |-> page,
                          shown |-> w.shown \cup page]]
    BY DEF Merge
  <1> DEFINE calls == [k \in {j \in DOMAIN w.calls : j[1] \in last} |-> w.calls[k]]
             page == Deduplicated(calls)
             next == UNION {calls[k].next : k \in DOMAIN calls}
             cursors == [key \in {n[1] : n \in next} |-> (CHOOSE n \in next : n[1] = key)[2]]
             p == [q EXCEPT !.cursors = cursors]
             v == [pc |-> IF next = {} THEN "done" ELSE "ready", query |-> p, calls |-> <<>>,
                   page |-> page, shown |-> w.shown \cup page]
  <1>1. /\ w.pc = "searching" /\ \A k \in DOMAIN w.calls : w.calls[k].state = "answered"
        /\ walk' = [walk EXCEPT ![c] = v]
    BY <1>0 DEF Merge
  <1>2. /\ CallsOK(F, w) /\ LimitOK(q) /\ CursorsOK(q) /\ DOMAIN q = QueryFields
        /\ DOMAIN w.calls = Calls(F, q) /\ Calls(F, q) \subseteq CallKeys
        /\ \A k \in OwnCalls(F, q) : SeenUpTo(w, k, Offset(q, Key(k)))
        /\ \A x \in w.shown : FoundBy(F, q, x)
    BY <1>1, CallsAre DEF WalkOK, CallsOK
  <1>3. /\ DOMAIN calls \subseteq Calls(F, q) /\ \A k \in DOMAIN calls : k[1] \in last
        /\ \A k \in DOMAIN calls : calls[k] = SearchKind(k[1], q, k[2])
    BY <1>1, <1>2 DEF CallsOK
  <1>4. /\ DOMAIN p = QueryFields /\ p.cursors = cursors
        /\ p.kinds = q.kinds /\ p.providers = q.providers /\ p.limit = q.limit
    BY <1>2 DEF QueryFields
  <1>5. /\ DOMAIN v = WalkFields /\ v.query = p /\ v.page = page /\ v.shown = w.shown \cup page
        /\ v.pc = IF next = {} THEN "done" ELSE "ready"
    BY DEF WalkFields
  <1>6. /\ OnePerId(calls)
        /\ OwnCalls(F, q) \subseteq DOMAIN calls /\ OwnCalls(F, q) \subseteq Calls(F, q)
    <2>1. \A d, e \in last : d.id = e.id => d = e
      BY KeptIs
    <2>2. \A k \in OwnCalls(F, q) : k[1] \in last
      BY KeptIs
    <2>3. QED
      BY <1>2, <1>3, <2>1, <2>2 DEF OnePerId, OwnCalls
  <1> HIDE DEF F, w, q, calls, page, next, cursors, p, v
  <1>7. /\ Calls(F, p) = Calls(F, q) /\ OwnCalls(F, p) = OwnCalls(F, q)
        /\ \A k : Everyone(p, k) = Everyone(q, k) /\ Entries(p, k) = Entries(q, k)
        /\ \A x : FoundBy(F, p, x) <=> FoundBy(F, q, x)
    BY <1>4, SameQuery
  <1>8. \A k \in DOMAIN calls :
           /\ calls[k].principals = SearchKind(k[1], q, k[2]).principals
           /\ calls[k].next = IF HasNext(k[1], q, k[2])
                              THEN {<<Key(k), Cursor(k[1], Offset(q, Key(k)) + Limit(k[1], q))>>} ELSE {}
    <2> SUFFICES ASSUME NEW k \in DOMAIN calls
                 PROVE  calls[k].next = IF HasNext(k[1], q, k[2])
                           THEN {<<Key(k), Cursor(k[1], Offset(q, Key(k)) + Limit(k[1], q))>>} ELSE {}
      BY <1>3
    <2> DEFINE d == k[1]
               found == Candidates(d, q, k[2], PageOf(d, q, k[2]))
               more == IF HasNext(d, q, k[2])
                       THEN {<<<<d.id, k[2]>>, Cursor(d, NextOffset(d, q, k[2]))>>} ELSE {}
    <2>1. calls[k] = [state |-> "answered", principals |-> found, next |-> more]
      BY <1>3 DEF SearchKind
    <2> HIDE DEF found, more
    <2>2. calls[k].next = more
      BY <2>1
    <2>3. NextOffset(d, q, k[2]) = Offset(q, Key(k)) + Limit(d, q) /\ Key(k) = <<d.id, k[2]>>
      BY Zenon DEF NextOffset, Key
    <2>4. QED
      BY <2>2, <2>3, Zenon DEF more
  <1>9. \A k \in DOMAIN calls :
           /\ Offset(q, Key(k)) \in Nat /\ Limit(k[1], q) \in Nat
           /\ ~HasNext(k[1], q, k[2]) =>
                 Offset(q, Key(k)) + Limit(k[1], q) >= Len(Entries(q, k))
    BY <1>2, <1>3, PageIs
  <1>10. \A k \in DOMAIN calls :
           /\ DOMAIN calls[k].principals \subseteq Nat
           /\ DOMAIN Everyone(q, k) \subseteq DOMAIN Entries(q, k)
           /\ \A n \in DOMAIN calls[k].principals :
                 /\ Offset(q, Key(k)) + n \in DOMAIN Everyone(q, k)
                 /\ calls[k].principals[n] = Everyone(q, k)[Offset(q, Key(k)) + n]
           /\ \A i \in DOMAIN Everyone(q, k) :
                 Offset(q, Key(k)) < i /\ i <= Offset(q, Key(k)) + Limit(k[1], q) =>
                    /\ i - Offset(q, Key(k)) \in DOMAIN calls[k].principals
                    /\ calls[k].principals[i - Offset(q, Key(k))] = Everyone(q, k)[i]
    <2> SUFFICES ASSUME NEW k \in DOMAIN calls
                 PROVE  /\ DOMAIN calls[k].principals \subseteq Nat
                        /\ DOMAIN Everyone(q, k) \subseteq DOMAIN Entries(q, k)
                        /\ \A n \in DOMAIN calls[k].principals :
                              /\ Offset(q, Key(k)) + n \in DOMAIN Everyone(q, k)
                              /\ calls[k].principals[n] = Everyone(q, k)[Offset(q, Key(k)) + n]
                        /\ \A i \in DOMAIN Everyone(q, k) :
                              Offset(q, Key(k)) < i /\ i <= Offset(q, Key(k)) + Limit(k[1], q) =>
                                 /\ i - Offset(q, Key(k)) \in DOMAIN calls[k].principals
                                 /\ calls[k].principals[i - Offset(q, Key(k))] = Everyone(q, k)[i]
      OBVIOUS
    <2>1. calls[k].principals = SearchKind(k[1], q, k[2]).principals /\ k \in CallKeys
      BY <1>2, <1>3, <1>8
    <2>2. QED
      BY <1>2, <2>1, CandidatesAre
  <1>11. ASSUME NEW k \in DOMAIN calls, NEW n \in DOMAIN calls[k].principals
         PROVE  ShownOf(v, calls[k].principals[n])
    <2>1. <<k, n>> \in Places(calls) /\ Placed(calls, <<k, n>>) = calls[k].principals[n]
      BY DEF Places, Placed
    <2>2. DOMAIN calls \subseteq CallKeys
      BY <1>2, <1>3
    <2>3. \E r \in page : Identity(r) = Identity(calls[k].principals[n])
      BY <1>6, <1>10, <2>1, <2>2, FirstPlace DEF page
    <2>4. QED
      BY <1>5, <2>3 DEF ShownOf
  <1>12. ASSUME NEW k \in OwnCalls(F, q)
         PROVE  SeenUpTo(v, k, Offset(q, Key(k)) + Limit(k[1], q))
    <2> DEFINE off == Offset(q, Key(k))
               lim == Limit(k[1], q)
    <2> SUFFICES ASSUME NEW i \in DOMAIN Everyone(q, k), i <= off + lim
                 PROVE  ShownOf(v, Everyone(q, k)[i])
      BY <1>5, <1>7 DEF SeenUpTo
    <2>0. k \in DOMAIN calls /\ k \in CallKeys
      BY <1>2, <1>6
    <2>1. off \in Nat /\ lim \in Nat /\ i \in Nat
      <3>1. Entries(q, k) \in Seq(Range(Entries(q, k)))
        BY <2>0, CallIs
      <3>2. DOMAIN Entries(q, k) \subseteq Nat
        BY <3>1
      <3>3. QED
        BY <1>9, <1>10, <2>0, <3>2
    <2>2. CASE i <= off
      <3>1. ShownOf(w, Everyone(q, k)[i])
        BY <1>2, <2>2 DEF SeenUpTo, q
      <3>2. QED
        BY <1>5, <3>1 DEF ShownOf
    <2>3. CASE off < i
      <3>1. /\ i - off \in DOMAIN calls[k].principals
            /\ calls[k].principals[i - off] = Everyone(q, k)[i]
        BY <1>10, <2>0, <2>3
      <3>2. QED
        BY <1>11, <2>0, <3>1
    <2>4. QED
      BY <2>1, <2>2, <2>3
  <1>13. \A x \in next : \E k \in DOMAIN calls :
            /\ HasNext(k[1], q, k[2])
            /\ x = <<Key(k), Cursor(k[1], Offset(q, Key(k)) + Limit(k[1], q))>>
    <2> SUFFICES ASSUME NEW x \in next
                 PROVE  \E k \in DOMAIN calls :
                           /\ HasNext(k[1], q, k[2])
                           /\ x = <<Key(k), Cursor(k[1], Offset(q, Key(k)) + Limit(k[1], q))>>
      OBVIOUS
    <2>1. PICK k \in DOMAIN calls : x \in calls[k].next
      BY DEF next
    <2>2. /\ HasNext(k[1], q, k[2])
          /\ x = <<Key(k), Cursor(k[1], Offset(q, Key(k)) + Limit(k[1], q))>>
      BY <1>8, <2>1, Zenon
    <2>3. QED
      BY <2>2
  <1>14. \A key \in DOMAIN cursors : \E k \in DOMAIN calls :
            key = Key(k) /\ cursors[key].at = Offset(q, Key(k)) + Limit(k[1], q)
    <2> SUFFICES ASSUME NEW key \in DOMAIN cursors
                 PROVE  \E k \in DOMAIN calls :
                           key = Key(k) /\ cursors[key].at = Offset(q, Key(k)) + Limit(k[1], q)
      OBVIOUS
    <2>1. \E x \in next : x[1] = key
      BY DEF cursors
    <2>2. PICK x \in next : x[1] = key /\ cursors[key] = x[2]
      BY <2>1 DEF cursors
    <2>3. PICK k \in DOMAIN calls :
             x = <<Key(k), Cursor(k[1], Offset(q, Key(k)) + Limit(k[1], q))>>
      BY <1>13
    <2>4. Cursor(k[1], Offset(q, Key(k)) + Limit(k[1], q)).at = Offset(q, Key(k)) + Limit(k[1], q)
      BY DEF Cursor
    <2>5. QED
      BY <2>2, <2>3, <2>4
  <1>15. CursorsOK(p) /\ \A k \in OwnCalls(F, q) : SeenUpTo(v, k, Offset(p, Key(k)))
    <2>1. CursorsOK(p)
      <3> SUFFICES ASSUME NEW key \in DOMAIN cursors PROVE cursors[key].at \in Nat
        BY <1>4 DEF CursorsOK
      <3>1. PICK k \in DOMAIN calls : cursors[key].at = Offset(q, Key(k)) + Limit(k[1], q)
        BY <1>14
      <3>2. QED
        BY <1>9, <3>1
    <2>2. ASSUME NEW k \in OwnCalls(F, q) PROVE SeenUpTo(v, k, Offset(p, Key(k)))
      <3>0. k \in DOMAIN calls /\ k \in CallKeys
        BY <1>2, <1>6
      <3>1. CASE Key(k) \in DOMAIN cursors
        <4>1. PICK j \in DOMAIN calls :
                 Key(k) = Key(j) /\ cursors[Key(k)].at = Offset(q, Key(j)) + Limit(j[1], q)
          BY <1>14, <3>1
        <4>2. k[1].id = j[1].id
          BY <4>1 DEF Key
        <4>3. k[1] = j[1]
          BY <1>6, <3>0, <4>2 DEF OnePerId
        <4>4. Offset(p, Key(k)) = Offset(q, Key(k)) + Limit(k[1], q)
          BY <1>4, <3>1, <4>1, <4>3 DEF Offset
        <4>5. QED
          BY <1>12, <4>4
      <3>2. CASE Key(k) \notin DOMAIN cursors
        <4>1. Offset(p, Key(k)) = 0
          BY <1>4, <3>2 DEF Offset
        <4>2. \A i \in DOMAIN Everyone(q, k) : ~(i <= 0)
          <5>1. Entries(q, k) \in Seq(Range(Entries(q, k)))
            BY <3>0, CallIs
          <5>2. \A i \in DOMAIN Entries(q, k) : ~(i <= 0)
            BY <5>1
          <5>3. QED
            BY <1>10, <3>0, <5>2
        <4>3. QED
          BY <1>5, <1>7, <4>1, <4>2 DEF SeenUpTo
      <3>3. QED
        BY <3>1, <3>2
    <2>3. QED
      BY <2>1, <2>2
  <1>16. ASSUME next = {}, NEW k \in OwnCalls(F, q) PROVE SeenUpTo(v, k, Len(Entries(p, k)))
    <2>0. k \in DOMAIN calls /\ k \in CallKeys /\ Entries(p, k) = Entries(q, k)
      BY <1>2, <1>6, <1>7
    <2>1. ~HasNext(k[1], q, k[2])
      <3>1. calls[k].next = {}
        BY <1>16, <2>0 DEF next
      <3>2. HasNext(k[1], q, k[2]) =>
               <<Key(k), Cursor(k[1], Offset(q, Key(k)) + Limit(k[1], q))>> \in calls[k].next
        BY <1>8, <2>0, Zenon
      <3>3. QED
        BY <3>1, <3>2
    <2>2. /\ Offset(q, Key(k)) \in Nat /\ Limit(k[1], q) \in Nat
          /\ Offset(q, Key(k)) + Limit(k[1], q) >= Len(Entries(q, k))
      BY <1>9, <2>0, <2>1
    <2>3. Len(Entries(q, k)) \in Nat /\ DOMAIN Entries(q, k) \subseteq Nat
      <3>1. Entries(q, k) \in Seq(Range(Entries(q, k)))
        BY <2>0, CallIs
      <3>2. QED
        BY <3>1
    <2> SUFFICES ASSUME NEW i \in DOMAIN Everyone(q, k), i <= Len(Entries(q, k))
                 PROVE  ShownOf(v, Everyone(q, k)[i])
      BY <1>5, <1>7, <2>0 DEF SeenUpTo
    <2>4. i \in Nat
      BY <1>10, <2>0, <2>3
    <2>5. i <= Offset(q, Key(k)) + Limit(k[1], q)
      BY <2>2, <2>3, <2>4
    <2>6. QED
      BY <1>5, <1>7, <1>12, <2>5 DEF SeenUpTo
  <1>17. \A x, y \in page : Identity(x) = Identity(y) => x = y
    <2>1. DOMAIN calls \subseteq CallKeys
      BY <1>2, <1>3
    <2>2. QED
      BY <1>6, <1>10, <2>1, DeduplicatedIs DEF page
  <1>18. \A x \in page : FoundBy(F, q, x)
    <2> SUFFICES ASSUME NEW x \in page PROVE FoundBy(F, q, x)
      OBVIOUS
    <2>1. PICK y \in Places(calls) : x = Placed(calls, y)
      BY DEF page, Deduplicated
    <2>2. PICK k \in DOMAIN calls : \E n \in DOMAIN calls[k].principals : x = calls[k].principals[n]
      BY <2>1 DEF Places, Placed
    <2>3. QED
      BY <1>3, <1>10, <2>2 DEF FoundBy
  <1>19. WalkOK(F, v)
    <2>1. \A x \in v.shown : FoundBy(F, p, x)
      BY <1>2, <1>5, <1>7, <1>18
    <2>2. v.pc \in {"done", "ready"} /\ (v.pc = "done" => next = {})
      BY <1>5
    <2>3. QED
      BY <1>4, <1>5, <1>7, <1>15, <1>16, <1>17, <2>1, <2>2 DEF WalkOK
  <1>20. v.pc # "none"
    BY <1>5
  <1>21. QED
    BY <1>1, <1>19, <1>20 DEF F, w

(* A client whose call fetches the token has begun its walk, and no walk   *)
(* is unmade.                                                              *)
FetcherWalks ==
    fetch # None => \A c \in Clients : \A k : fetch.by = <<c, k>> => walk[c].pc # "none"

GoesOn == WalkInv' /\ \A c \in Clients : walk[c].pc # "none" => walk'[c].pc # "none"

(* Every step keeps the walks in order.                                    *)
LEMMA WalkKeeps == WalkInv /\ FetcherWalks /\ [Next]_vars => GoesOn
  <1> SUFFICES ASSUME WalkInv, FetcherWalks, [Next]_vars PROVE GoesOn
    OBVIOUS
  <1>0. federated' = federated
    BY DEF Next, Proceeds, Search, Refuse, Merge, GetsToken, Answers, TokenRefused, Fails,
           SearchFails, KeycloakIssues, vars
  <1>1. ASSUME NEW c \in Clients, NEW v, WalkOK(federated, v), v.pc # "none", walk' = [walk EXCEPT ![c] = v]
        PROVE  GoesOn
    BY <1>0, <1>1 DEF WalkInv, GoesOn
  <1>2. CASE walk' = walk
    BY <1>0, <1>2 DEF WalkInv, GoesOn
  <1>3. \A c \in Clients : WalkOK(federated, walk[c]) /\ (walk[c].pc # "none" => DOMAIN walk[c] = WalkFields)
    BY DEF WalkInv, WalkOK
  <1>4. ASSUME NEW c \in Clients, Search(c) PROVE GoesOn
    <2> DEFINE w == walk[c]
               keys == Calls(federated, w.query)
               calls == [k \in keys |-> Call(IF NeedsToken(k) THEN "token" ELSE "sent")]
               v == [w EXCEPT !.pc = "searching", !.calls = calls]
    <2>1. w.pc = "ready" /\ LimitOK(w.query) /\ walk' = [walk EXCEPT ![c] = v]
      BY <1>4 DEF Search, Valid, LimitOK
    <2>2. DOMAIN calls = keys /\ \A k \in keys : calls[k].state # "answered"
      BY DEF Call
    <2> HIDE DEF calls
    <2>3. /\ DOMAIN v = WalkFields /\ v.query = w.query /\ v.page = w.page /\ v.shown = w.shown
          /\ v.pc = "searching" /\ v.calls = calls
      BY <1>3, <2>1 DEF WalkFields
    <2> HIDE DEF v, w
    <2>4. CallsOK(federated, v)
      BY <2>1, <2>2, <2>3 DEF CallsOK
    <2>5. WalkOK(federated, v)
      BY <1>3, <2>1, <2>3, <2>4, SameWalkOK DEF w
    <2>6. QED
      BY <1>1, <2>1, <2>3, <2>5
  <1>5. ASSUME NEW c \in Clients, Refuse(c) PROVE GoesOn
    <2> DEFINE w == walk[c]
               v == [w EXCEPT !.pc = "refused"]
    <2>1. w.pc = "ready" /\ walk' = [walk EXCEPT ![c] = v]
      BY <1>5 DEF Refuse
    <2>2. /\ DOMAIN v = WalkFields /\ v.query = w.query /\ v.page = w.page /\ v.shown = w.shown
          /\ v.pc = "refused"
      BY <1>3, <2>1 DEF WalkFields
    <2> HIDE DEF v, w
    <2>3. WalkOK(federated, v)
      BY <1>3, <2>1, <2>2, SameWalkOK DEF w
    <2>4. QED
      BY <1>1, <2>1, <2>2, <2>3
  <1>6. ASSUME NEW c \in Clients, SearchFails(c), walk[c].pc # "none" PROVE GoesOn
    <2> DEFINE w == walk[c]
               v == [w EXCEPT !.pc = "ready", !.calls = <<>>]
    <2>1. walk' = [walk EXCEPT ![c] = v]
      BY <1>6 DEF SearchFails
    <2>2. /\ DOMAIN v = WalkFields /\ v.query = w.query /\ v.page = w.page /\ v.shown = w.shown
          /\ v.pc = "ready"
      BY <1>3, <1>6 DEF WalkFields
    <2> HIDE DEF v, w
    <2>3. WalkOK(federated, v)
      BY <1>3, <1>6, <2>2, SameWalkOK DEF w
    <2>4. QED
      BY <1>1, <2>1, <2>2, <2>3
  <1>7. ASSUME NEW c \in Clients, NEW k, NEW a, walk[c].pc = "searching",
               walk' = [walk EXCEPT ![c].calls[k] = a],
               a.state = "answered" => a = SearchKind(k[1], walk[c].query, k[2])
        PROVE  GoesOn
    <2> DEFINE w == walk[c]
               calls == [w.calls EXCEPT ![k] = a]
               v == [w EXCEPT !.calls = calls]
    <2>1. w.pc = "searching" /\ walk' = [walk EXCEPT ![c] = v]
      BY <1>7
    <2>2. DOMAIN calls = DOMAIN w.calls /\ \A j \in DOMAIN w.calls : calls[j] = IF j = k THEN a ELSE w.calls[j]
      OBVIOUS
    <2>3. CallsOK(federated, w)
      BY <1>3, <2>1 DEF WalkOK
    <2> HIDE DEF calls
    <2>4. /\ DOMAIN v = WalkFields /\ v.query = w.query /\ v.page = w.page /\ v.shown = w.shown
          /\ v.pc = "searching" /\ v.calls = calls
      BY <1>3, <2>1 DEF WalkFields
    <2>5. a.state = "answered" => a = SearchKind(k[1], w.query, k[2])
      BY <1>7
    <2> HIDE DEF v, w
    <2>6. CallsOK(federated, v)
      BY <2>2, <2>3, <2>4, <2>5 DEF CallsOK
    <2>7. WalkOK(federated, v)
      BY <1>3, <2>1, <2>4, <2>6, SameWalkOK DEF w
    <2>8. QED
      BY <1>1, <2>1, <2>4, <2>7
  <1>8. ASSUME NEW c \in Clients, NEW k \in CallKeys, GetsToken(c, k) PROVE GoesOn
    <2>1. CASE UNCHANGED walk
      BY <1>2, <2>1
    <2>2. CASE walk' = Sent(c, k)
      <3>1. Call("sent").state # "answered"
        BY DEF Call
      <3> HIDE DEF Call
      <3>2. QED
        BY <1>7, <1>8, <2>2, <3>1 DEF Sent, GetsToken
    <2>3. QED
      BY <1>8, <2>1, <2>2 DEF GetsToken
  <1>9. ASSUME NEW c \in Clients, NEW k \in CallKeys, Answers(c, k) PROVE GoesOn
    BY <1>7, <1>9 DEF Answers
  <1>10. ASSUME NEW c \in Clients, NEW k \in CallKeys, Fails(c, k) PROVE GoesOn
    BY <1>6, <1>10 DEF Fails
  <1>11. ASSUME NEW c \in Clients, NEW k \in CallKeys, TokenRefused(c, k) PROVE GoesOn
    BY <1>6, <1>11 DEF TokenRefused, Fetching, FetcherWalks
  <1>12. ASSUME NEW c \in Clients, Merge(c) PROVE GoesOn
    BY <1>1, <1>3, <1>12, MergeKeeps DEF WalkInv
  <1>13. CASE KeycloakIssues
    BY <1>2, <1>13 DEF KeycloakIssues
  <1>14. QED
    BY <1>2, <1>4, <1>5, <1>8, <1>9, <1>10, <1>11, <1>12, <1>13 DEF Next, Proceeds, vars

(* Who fetches the token still has a walk.                                 *)
LEMMA FetcherKeeps == TokenInv /\ WalkInv /\ FetcherWalks /\ [Next]_vars => FetcherWalks'
  <1> SUFFICES ASSUME TokenInv, WalkInv, FetcherWalks, [Next]_vars PROVE FetcherWalks'
    OBVIOUS
  <1>1. \A c \in Clients : walk[c].pc # "none" => walk'[c].pc # "none"
    BY WalkKeeps DEF GoesOn
  <1>2. CASE fetch' = None \/ fetch' = fetch \/ (fetch # None /\ fetch'.by = fetch.by)
    BY <1>1, <1>2 DEF FetcherWalks
  <1>3. ASSUME NEW c \in Clients, NEW k \in CallKeys, GetsToken(c, k) PROVE FetcherWalks'
    <2>1. CASE Locks(<<c, k>>)
      <3>1. (fetch'.by = <<c, k>> /\ walk' = walk) \/ fetch' = fetch \/ fetch' = None
        BY <1>3, <2>1 DEF GetsToken, Locks, TakesCached, Receives
      <3>2. walk[c].pc = "searching"
        BY <1>3 DEF GetsToken
      <3>3. CASE fetch'.by = <<c, k>>
        BY <1>1, <3>2, <3>3 DEF FetcherWalks
      <3>4. QED
        BY <1>2, <3>1, <3>3
    <2>2. CASE TakesCached(<<c, k>>) \/ Receives(<<c, k>>)
      BY <1>2, <2>2 DEF TakesCached, Receives
    <2>3. QED
      BY <1>3, <2>1, <2>2 DEF GetsToken
  <1>4. CASE KeycloakIssues
    <2>1. PICK l \in Lifetimes : Issues(l)
      BY <1>4 DEF KeycloakIssues
    <2> DEFINE answer == [expiresAt |-> clock + l, expiresIn |-> l]
    <2>2. fetch # None /\ fetch' = [fetch EXCEPT !.answer = answer]
      BY <2>1 DEF Issues
    <2>3. DOMAIN fetch = {"by", "since", "answer"}
      BY <2>2 DEF TokenInv, FetchOK
    <2> HIDE DEF answer
    <2>4. fetch'.by = fetch.by
      BY <2>2, <2>3
    <2>5. QED
      BY <1>2, <2>2, <2>4
  <1>5. ASSUME NEW c \in Clients, Search(c) \/ Refuse(c) \/ Merge(c) PROVE FetcherWalks'
    BY <1>2, <1>5 DEF Search, Refuse, Merge, tokenVars
  <1>6. ASSUME NEW c \in Clients, NEW k \in CallKeys,
               Answers(c, k) \/ TokenRefused(c, k) \/ Fails(c, k)
        PROVE  FetcherWalks'
    BY <1>2, <1>6 DEF Answers, TokenRefused, Fails, SearchFails, Withdrawn, tokenVars
  <1>7. CASE Tick \/ UNCHANGED vars
    BY <1>2, <1>7 DEF Tick, vars, tokenVars
  <1>8. QED
    BY <1>3, <1>4, <1>5, <1>6, <1>7 DEF Next, Proceeds

-----------------------------------------------------------------------------
(* The walks in every reachable state.                                     *)

IInv == TokenInv /\ WalkInv /\ FetcherWalks

(* Walks begin in order.                                                   *)
LEMMA InitIInv == Init => IInv
  <1> SUFFICES ASSUME Init PROVE IInv
    OBVIOUS
  <1>1. TokenInv /\ FetcherWalks
    BY DEF Init, TokenInit, TokenInv, CacheOK, FetchOK, HandedOutAlive, NoNeedlessFetch, FetcherWalks
  <1>2. PICK scenario \in Scenarios :
           /\ federated = scenario.federated
           /\ walk = [c \in Clients |->
                     IF scenario.search[c] = None THEN Idle
                     ELSE [pc |-> "ready", query |-> scenario.search[c], calls |-> <<>>,
                           page |-> {}, shown |-> {}]]
    BY DEF Init
  <1>3. federated \subseteq Directories
    BY <1>2, ScenarioAssumption
  <1>4. ASSUME NEW c \in Clients PROVE WalkOK(federated, walk[c])
    <2> DEFINE w == walk[c]
    <2>1. CASE scenario.search[c] = None
      BY <1>2, <2>1 DEF WalkOK, Idle
    <2>2. CASE scenario.search[c] # None
      <3> DEFINE q == scenario.search[c]
      <3>1. DOMAIN q = QueryFields /\ DOMAIN q.cursors = {}
        BY <2>2, ScenarioAssumption DEF QueryFields
      <3>2. /\ DOMAIN w = WalkFields /\ w.pc = "ready" /\ w.query = q
            /\ w.page = {} /\ w.shown = {}
        BY <1>2, <2>2 DEF WalkFields
      <3> HIDE DEF w, q
      <3>3. ASSUME NEW k \in OwnCalls(federated, q) PROVE SeenUpTo(w, k, Offset(q, Key(k)))
        <4>1. k \in CallKeys /\ Offset(q, Key(k)) = 0
          BY <1>3, <3>1, CallsAre DEF OwnCalls, Offset
        <4>2. Entries(q, k) \in Seq(Range(Entries(q, k)))
          BY <4>1, CallIs
        <4>3. \A i \in DOMAIN Entries(q, k) : ~(i <= 0)
          BY <4>2
        <4>4. DOMAIN Everyone(q, k) \subseteq DOMAIN Entries(q, k)
          BY DEF Everyone, Candidates
        <4>5. QED
          BY <3>2, <4>1, <4>3, <4>4 DEF SeenUpTo
      <3>4. QED
        BY <3>1, <3>2, <3>3 DEF WalkOK, CursorsOK, w
    <2>3. QED
      BY <2>1, <2>2
  <1>5. QED
    BY <1>1, <1>2, <1>3, <1>4 DEF IInv, WalkInv

(* The token and the walks are in order in every reachable state.          *)
THEOREM InductiveInvariant == Spec => []IInv
  <1>1. IInv /\ [Next]_vars => IInv'
    BY TokenKeeps, SearchTakesTokenSteps, WalkKeeps, FetcherKeeps DEF IInv, GoesOn
  <1>2. QED
    BY <1>1, InitIInv, PTL DEF Spec

(* A walk that ends has shown everybody the selected directories find when *)
(* they are asked as it asks, whatever their page sizes, however pages     *)
(* overlap, streams restart, calls fail and other directories share an id: *)
(* for any number of directories and entries.                              *)
THEOREM WalksAreAlwaysComplete == Spec => []WalkIsComplete
  <1>1. IInv => WalkIsComplete
    <2> SUFFICES ASSUME IInv, NEW c \in Clients, walk[c].pc = "done",
                        NEW p \in Expected(federated, walk[c].query)
                 PROVE  \E r \in walk[c].shown : Identity(r) = Identity(p)
      BY DEF WalkIsComplete, Walking
    <2> DEFINE w == walk[c]
               q == w.query
    <2>1. WalkOK(federated, w) /\ w.pc = "done" /\ federated \subseteq Directories
      BY DEF IInv, WalkInv
    <2>2. PICK k \in OwnCalls(federated, q) : \E i \in DOMAIN Everyone(q, k) : p = Everyone(q, k)[i]
      BY DEF Expected, OwnCalls, Everyone, Entries, Range
    <2>3. SeenUpTo(w, k, Len(Entries(q, k)))
      BY <2>1 DEF WalkOK
    <2>4. \A i \in DOMAIN Everyone(q, k) : i <= Len(Entries(q, k))
      <3>1. k \in CallKeys
        BY <2>1, CallsAre DEF OwnCalls
      <3>2. Entries(q, k) \in Seq(Range(Entries(q, k)))
        BY <3>1, CallIs
      <3>3. \A i \in DOMAIN Entries(q, k) : i <= Len(Entries(q, k))
        BY <3>2
      <3>4. DOMAIN Everyone(q, k) \subseteq DOMAIN Entries(q, k)
        BY DEF Everyone, Candidates
      <3>5. QED
        BY <3>3, <3>4
    <2> HIDE DEF w, q
    <2>5. ShownOf(w, p)
      BY <2>2, <2>3, <2>4 DEF SeenUpTo, q
    <2>6. QED
      BY <2>5 DEF ShownOf, w
  <1>2. QED
    BY <1>1, InductiveInvariant, PTL

(* deduplicate_principals leaves one of each external identity, in         *)
(* whatever order the answers came.                                        *)
THEOREM PagesNeverHaveDuplicates == Spec => []PageHasNoDuplicates
  <1>1. IInv => PageHasNoDuplicates
    BY DEF IInv, WalkInv, WalkOK, PageHasNoDuplicates, Walking
  <1>2. QED
    BY <1>1, InductiveInvariant, PTL

(* What a lookup answers has the reference that was asked for.             *)
LEMMA ResolvedIs ==
    ASSUME NEW d, NEW p, p.issuer = d.issuer,
           NEW r, r = Resolve(d, p.issuer, p.externalId), r # None
    PROVE  Identity(r) = Identity(p)
  <1> DEFINE asked == LookupKind(p.externalId)
  <1>1. r = MapEntry(d, asked, d.held[asked][Min(Hits(d, p.externalId))]) /\ r.externalId = p.externalId
    BY DEF Resolve
  <1>2. r.issuer = d.issuer
    BY <1>1 DEF MapEntry
  <1>3. QED
    BY <1>1, <1>2 DEF Identity

(* What one entry is shown as is resolved to the same principal, unless a  *)
(* custom directory found it as another kind.                              *)
LEMMA EntryIsResolved ==
    ASSUME NEW d \in Directories, NEW asked \in AllKinds, d.protocol = "LDAP" => asked # "WORKLOAD",
           NEW e \in Range(d.found[asked]), NEW p, p = MapEntry(d, asked, e),
           d.protocol # "CUSTOM" \/ asked = LookupKind(p.externalId)
    PROVE  \/ Resolve(d, p.issuer, p.externalId) = p
           \/ Resolve(d, p.issuer, p.externalId) = None /\ Ambiguous(d, p.externalId)
  <1> DEFINE kind == KindOf(d, asked, e)
             ext == p.externalId
             look == LookupKind(ext)
             held == d.held[look]
             hits == Hits(d, ext)
  <1>1. p.issuer = d.issuer /\ ext.group = (kind = "GROUP") /\ ext.id = e.id
    BY DEF MapEntry
  <1>2. hits = {n \in DOMAIN held : held[n].id = e.id}
    BY <1>1 DEF Hits
  <1>3. look = IF kind = "GROUP" THEN "GROUP" ELSE "USER"
    BY <1>1 DEF LookupKind
  <1>4. /\ d.protocol = "KEYCLOAK" /\ asked # "GROUP" => e.kind # "GROUP"
        /\ held \in Seq(Range(held)) /\ e \in Range(held)
        /\ \A f \in Range(held) : e.id = f.id => e = f
    <2> DEFINE it == LookupKind([group |-> KindOf(d, asked, e) = "GROUP", id |-> e.id])
    <2>1. /\ d.protocol = "KEYCLOAK" /\ asked # "GROUP" => e.kind # "GROUP"
          /\ d.protocol # "CUSTOM" \/ asked = it =>
                /\ d.held[it] \in Seq(Range(d.held[it]))
                /\ e \in Range(d.held[it])
                /\ \A f \in Range(d.held[it]) : e.id = f.id => e = f
      BY AnswerAssumption, Zenon
    <2>2. it = look
      BY DEF MapEntry
    <2> HIDE DEF it
    <2>3. d.protocol # "CUSTOM" \/ asked = it
      BY <2>2
    <2>4. QED
      BY <2>1, <2>2, <2>3
  <1>5. MapEntry(d, look, e) = p
    <2>1. d.protocol \in {"KEYCLOAK", "LDAP", "CUSTOM"}
      BY DirectoryAssumption
    <2>2. asked \in {"USER", "WORKLOAD", "GROUP"}
      BY DEF AllKinds
    <2> HIDE DEF look, ext
    <2>3. CASE d.protocol = "CUSTOM"
      BY <2>3 DEF look, ext
    <2>4. CASE d.protocol = "LDAP"
      <3>1. kind = asked /\ look = asked
        BY <1>3, <2>2, <2>4 DEF KindOf
      <3>2. QED
        BY <3>1
    <2>5. CASE d.protocol = "KEYCLOAK" /\ asked = "GROUP"
      <3>1. kind = "GROUP" /\ look = asked
        BY <1>3, <2>5 DEF KindOf
      <3>2. QED
        BY <3>1
    <2>6. CASE d.protocol = "KEYCLOAK" /\ asked # "GROUP"
      <3>1. kind = e.kind /\ look = "USER"
        BY <1>4, <1>3, <2>6 DEF KindOf
      <3>2. KindOf(d, look, e) = KindOf(d, asked, e)
        BY <2>6, <3>1 DEF KindOf
      <3>3. QED
        BY <3>2 DEF MapEntry
    <2>7. QED
      BY <2>1, <2>3, <2>4, <2>5, <2>6
  <1> HIDE DEF held
  <1>6. hits \in SUBSET Nat /\ hits # {}
    BY <1>4, <1>2 DEF Range
  <1>7. Min(hits) \in hits
    <2>1. \E n \in hits : \A m \in hits : n <= m
      BY <1>6, LeastNatural
    <2>2. QED
      BY <2>1 DEF Min
  <1>8. held[Min(hits)] = e
    BY <1>4, <1>2, <1>7 DEF Range
  <1> DEFINE hit == MapEntry(d, look, held[Min(hits)])
  <1>9. Resolve(d, d.issuer, ext) =
           IF d.issuer # d.issuer \/ hits = {} \/ Ambiguous(d, ext) THEN None
           ELSE IF hit.externalId = ext THEN hit ELSE None
    BY DEF Resolve, held
  <1>10. hit = p
    BY <1>5, <1>8
  <1> HIDE DEF hit, hits
  <1>11. QED
    BY <1>1, <1>6, <1>9, <1>10

(* What an administrator is shown and picks is what materialize finds      *)
(* again, whatever the directories hold; but a custom directory looks up   *)
(* among its users whom it found among its workloads.                      *)
THEOREM ShownIsAlwaysResolved == Spec => []ShownIsResolved
  <1>1. IInv => ShownIsResolved
    <2> SUFFICES ASSUME IInv, NEW c \in Clients, walk[c].pc # "none", NEW p \in walk[c].shown,
                        NEW d \in federated, d.id = p.provider, HasOwnId(federated, d),
                        NEW r, r = Resolve(d, p.issuer, p.externalId)
                 PROVE  \/ r = p
                        \/ r = None /\ Ambiguous(d, p.externalId)
                        \/ /\ d.protocol = "CUSTOM" /\ FoundAsOther(d, walk[c].query, p)
                           /\ r # None => Identity(r) = Identity(p)
      BY DEF ShownIsResolved, Walking
    <2> DEFINE q == walk[c].query
    <2>1. PICK k \in Calls(federated, q) : \E i \in DOMAIN Everyone(q, k) : p = Everyone(q, k)[i]
      BY DEF IInv, WalkInv, WalkOK, FoundBy
    <2>2. k \in CallKeys /\ k[1] \in federated /\ d \in Directories
      BY CallsAre DEF IInv, WalkInv
    <2> DEFINE asked == AskedKind(k[1], q, k[2])
    <2>3. PICK e \in Range(k[1].found[asked]) : p = MapEntry(k[1], asked, e)
      BY <2>1 DEF Everyone, Candidates, Entries, Range
    <2>4. k[1] = d
      <3>1. p.provider = k[1].id
        BY <2>3 DEF MapEntry
      <3>2. QED
        BY <2>2, <3>1 DEF HasOwnId
    <2>5. k[2] \in Streams /\ asked \in AllKinds
      BY <2>2, CallIs
    <2>6. d.protocol = "LDAP" => asked # "WORKLOAD"
      BY <2>4 DEF AskedKind
    <2>7. p.issuer = d.issuer
      BY <2>3, <2>4 DEF MapEntry
    <2>8. CASE d.protocol # "CUSTOM" \/ asked = LookupKind(p.externalId)
      <3> HIDE DEF asked
      <3>1. QED
        BY <2>2, <2>3, <2>4, <2>5, <2>6, <2>8, EntryIsResolved
    <2>9. CASE d.protocol = "CUSTOM" /\ asked # LookupKind(p.externalId)
      <3>1. FoundAsOther(d, q, p)
        BY <2>3, <2>4, <2>5, <2>9 DEF FoundAsOther
      <3>2. r # None => Identity(r) = Identity(p)
        BY <2>7, ResolvedIs
      <3>3. QED
        BY <2>9, <3>1, <3>2
    <2>10. QED
      BY <2>8, <2>9
  <1>2. QED
    BY <1>1, InductiveInvariant, PTL
=============================================================================
