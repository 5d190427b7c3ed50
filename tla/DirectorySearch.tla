-------------------------- MODULE DirectorySearch --------------------------
(***************************************************************************)
(* Federated principal search: PrincipalHandler::search asks every         *)
(* selected directory for a page of users and a page of groups at the same *)
(* time, merges the pages and hands out one cursor per stream; a client    *)
(* walks through the result by sending the cursors back until there are    *)
(* none.  One directory that fails fails the search, and the client asks   *)
(* for the same page again.                                                *)
(*                                                                         *)
(* A directory is a record [id, protocol, issuer, maxPage, kindAttr,       *)
(* found, held]: found[kind] is the sequence of entries [id, kind] it      *)
(* answers to the text of the search when it is asked for a kind, held the *)
(* entries it looks up by id when it is asked for a user or for a group.   *)
(***************************************************************************)
EXTENDS BearerTokens, FiniteSets, SequencesExt, Functions

CONSTANTS
    Clients,
    Directories,    \* the directories that may be configured
    Scenarios,      \* which of them are, and what the clients search for
    MaxFailures,    \* bound: calls to directories that fail
    MaxLimit        \* PrincipalSearchQuery::MAX_PAGE_SIZE

VARIABLES
    federated,  \* the directories the handler was made with
    walk,       \* what a client does
    failures

vars == <<tokenVars, federated, walk, failures>>

Streams == {"users", "groups"}
AllKinds == {"USER", "WORKLOAD", "GROUP"}
CallKeys == Directories \X Streams

(* Ids are ordered; nothing keeps two directories from having one id.      *)
ASSUME DirectoryAssumption ==
    /\ Callers = Clients \X CallKeys
    /\ \A d \in Directories :
          /\ d.id \in Nat
          /\ d.protocol \in {"KEYCLOAK", "LDAP", "CUSTOM"}
          /\ d.kindAttr \in BOOLEAN
          /\ d.maxPage \in 1 .. MaxLimit
          /\ \A kind \in AllKinds : d.found[kind] \in Seq(Range(d.found[kind]))
    /\ {MaxFailures, MaxLimit} \subseteq Nat

(* add_search_provider takes one directory of a protocol.  A walk begins   *)
(* without cursors.                                                        *)
ASSUME ScenarioAssumption ==
    \A scenario \in Scenarios :
        /\ scenario.federated \subseteq Directories
        /\ \A d, e \in scenario.federated : d.protocol = e.protocol => d = e
        /\ \A c \in Clients : scenario.search[c] # None =>
              /\ DOMAIN scenario.search[c] = {"kinds", "providers", "limit", "cursors"}
              /\ scenario.search[c].cursors = <<>>

-----------------------------------------------------------------------------
(* What a directory is asked, and what is made of its entries.             *)

(* No kinds means all of them.                                             *)
SupportsKind(q, kind) == q.kinds = {} \/ kind \in q.kinds

Searches(d, q, stream) ==
    IF stream = "groups" THEN SupportsKind(q, "GROUP")
    ELSE SupportsKind(q, "USER") \/ (d.protocol # "LDAP" /\ SupportsKind(q, "WORKLOAD"))

(* The kind a directory is asked for.  A custom directory is asked for     *)
(* workloads and not for users as soon as workloads are searched; Keycloak *)
(* gets its exact search for service accounts only when users are not.     *)
AskedKind(d, q, stream) ==
    IF stream = "groups" THEN "GROUP"
    ELSE IF /\ SupportsKind(q, "WORKLOAD")
            /\ d.protocol = "CUSTOM" \/ (d.protocol = "KEYCLOAK" /\ ~SupportsKind(q, "USER"))
         THEN "WORKLOAD"
         ELSE "USER"

(* The directory says what an entry is, or it is what was asked for.       *)
KindOf(d, asked, e) ==
    IF \/ d.protocol = "CUSTOM" /\ d.kindAttr
       \/ d.protocol = "KEYCLOAK" /\ asked # "GROUP"
    THEN e.kind ELSE asked

MapEntry_NoPrefix(d, asked, e) ==
    [provider |-> d.id, issuer |-> d.issuer, kind |-> KindOf(d, asked, e),
     externalId |-> [group |-> FALSE, id |-> e.id]]

MapEntry(d, asked, e) ==
    LET kind == KindOf(d, asked, e)
    IN [provider |-> d.id, issuer |-> d.issuer, kind |-> kind,
        externalId |-> [group |-> kind = "GROUP", id |-> e.id]]

(* A user stream that holds other kinds than asked for is filtered; what   *)
(* is left keeps its place in the page.                                    *)
Candidates(d, q, stream, entries) ==
    LET principal(n) == MapEntry(d, AskedKind(d, q, stream), entries[n])
    IN [n \in {m \in DOMAIN entries : d.protocol = "LDAP" \/ SupportsKind(q, principal(m).kind)}
          |-> principal(n)]

-----------------------------------------------------------------------------
(* Pages.  The HTTP directories are asked with an offset, LDAP with the    *)
(* cookie of the page before, which stands for the entries already sent.   *)
(* A cursor is named by the directory's id.                                *)

Cursor(d, n) == [cookie |-> d.protocol = "LDAP", at |-> n]
Offset(q, key) == IF key \in DOMAIN q.cursors THEN q.cursors[key].at ELSE 0
Limit(d, q) == Smaller(q.limit, d.maxPage)

(* The cursor of another directory with the same id may be of the other    *)
(* sort: an offset is no cookie, a cookie no number.                       *)
Readable(d, q, stream) ==
    <<d.id, stream>> \in DOMAIN q.cursors =>
        q.cursors[<<d.id, stream>>].cookie = (d.protocol = "LDAP")

PageOf(d, q, stream) ==
    LET offset == Offset(q, <<d.id, stream>>)
        all == d.found[AskedKind(d, q, stream)]
    IN SubSeq(all, offset + 1, Smaller(offset + Limit(d, q), Len(all)))

(* A full page may have a successor; an LDAP server knows.                 *)
HasNext(d, q, stream) ==
    IF d.protocol = "LDAP"
      THEN Offset(q, <<d.id, stream>>) + Limit(d, q) < Len(d.found[AskedKind(d, q, stream)])
      ELSE Len(PageOf(d, q, stream)) = Limit(d, q)

NextOffset_AsAsked(d, q, stream) == Offset(q, <<d.id, stream>>) + q.limit
NextOffset_FromStart(d, q, stream) == Limit(d, q)
NextOffset(d, q, stream) == Offset(q, <<d.id, stream>>) + Limit(d, q)

SearchKind(d, q, stream) ==
    [state |-> "answered", principals |-> Candidates(d, q, stream, PageOf(d, q, stream)),
     next |-> IF HasNext(d, q, stream)
              THEN {<<<<d.id, stream>>, Cursor(d, NextOffset(d, q, stream))>>} ELSE {}]

-----------------------------------------------------------------------------
(* resolve_principal: the entry a candidate was made from, looked up by    *)
(* its external id when it is materialized.  Whatever was searched, a      *)
(* directory is now asked for a group or for a user.                       *)
LookupKind(externalId) == IF externalId.group THEN "GROUP" ELSE "USER"

Hits(d, externalId) ==
    LET held == d.held[LookupKind(externalId)]
    IN {n \in DOMAIN held : held[n].id = externalId.id}

Ambiguous(d, externalId) == d.protocol = "LDAP" /\ Cardinality(Hits(d, externalId)) > 1

Resolve(d, issuer, externalId) ==
    LET asked == LookupKind(externalId)
        hits == Hits(d, externalId)
    IN IF d.issuer # issuer \/ hits = {} \/ Ambiguous(d, externalId)
       THEN None
       ELSE LET p == MapEntry(d, asked, d.held[asked][Min(hits)])
            IN IF p.externalId = externalId THEN p ELSE None

(* What directories are taken to be: an entry that a search shows is       *)
(* looked up by its id where the search asks for the same kind, or where   *)
(* one endpoint serves both (Keycloak, LDAP), and no other has its id.     *)
ASSUME AnswerAssumption ==
    \A d \in Directories : \A kind \in AllKinds : \A e \in Range(d.found[kind]) :
        LET asked == LookupKind([group |-> KindOf(d, kind, e) = "GROUP", id |-> e.id])
        IN  /\ d.protocol = "KEYCLOAK" /\ kind # "GROUP" => e.kind # "GROUP"
            /\ d.protocol # "CUSTOM" \/ kind = asked =>
                  /\ d.held[asked] \in Seq(Range(d.held[asked]))
                  /\ e \in Range(d.held[asked])
                  /\ \A f \in Range(d.held[asked]) : e.id = f.id => e = f

-----------------------------------------------------------------------------
(* The handler.                                                            *)

Idle == [pc |-> "none"]

Selected(federation, q) == {d \in federation : q.providers = {} \/ d.id \in q.providers}
Calls(federation, q) ==
    {k \in Selected(federation, q) \X Streams : Searches(k[1], q, k[2])}

(* validate_search_query; there is a directory, and each of those named is *)
(* configured once; every cursor is one for its directory.                 *)
Valid(federation, q) ==
    /\ q.limit \in 1 .. MaxLimit
    /\ federation # {}
    /\ \A id \in q.providers : Cardinality({d \in federation : d.id = id}) = 1
    /\ \A k \in Calls(federation, q) : Readable(k[1], q, k[2])

Call(state) == [state |-> state, principals |-> <<>>, next |-> {}]
NeedsToken(k) == k[1].protocol = "KEYCLOAK"

(* Every call starts at once; those to Keycloak queue for a token, users   *)
(* before groups.                                                          *)
Search(c) ==
    LET q == walk[c].query
        keys == Calls(federated, q)
        queued == SelectSeq(<<"users", "groups">>,
                        LAMBDA s : \E k \in keys : NeedsToken(k) /\ k[2] = s)
        keycloak == CHOOSE k \in keys : NeedsToken(k)
    IN  /\ walk[c].pc = "ready"
        /\ Valid(federated, q)
        /\ walk' = [walk EXCEPT ![c].pc = "searching",
                        ![c].calls = [k \in keys |-> Call(IF NeedsToken(k) THEN "token" ELSE "sent")]]
        /\ waiting' = waiting \o [n \in DOMAIN queued |-> <<c, <<keycloak[1], queued[n]>>>>]
        /\ UNCHANGED <<clock, cached, fetch, used, federated, failures>>

Refuse(c) ==
    /\ walk[c].pc = "ready"
    /\ ~Valid(federated, walk[c].query)
    /\ walk' = [walk EXCEPT ![c].pc = "refused"]
    /\ UNCHANGED <<tokenVars, federated, failures>>

Sent(c, k) == [walk EXCEPT ![c].calls[k] = Call("sent")]

GetsToken(c, k) ==
    /\ walk[c].pc = "searching"
    /\ \/ Locks(<<c, k>>) /\ UNCHANGED walk
       \/ TakesCached(<<c, k>>) /\ walk' = Sent(c, k)
       \/ Receives(<<c, k>>) /\ walk' = Sent(c, k)
    /\ UNCHANGED <<federated, failures>>

(* An answer without a lifetime counts as a failure.                       *)
KeycloakIssues ==
    \E l \in Lifetimes :
        /\ Issues(l)
        /\ failures' = IF l = 0 THEN failures + 1 ELSE failures
        /\ failures' <= MaxFailures
        /\ UNCHANGED <<federated, walk>>

Answers(c, k) ==
    /\ walk[c].pc = "searching" /\ k \in DOMAIN walk[c].calls
    /\ walk[c].calls[k].state = "sent"
    /\ walk' = [walk EXCEPT ![c].calls[k] = SearchKind(k[1], walk[c].query, k[2])]
    /\ UNCHANGED <<tokenVars, federated, failures>>

(* One call fails, or its token: the search ends and every other call of   *)
(* it is dropped.                                                          *)
SearchFails(c) ==
    /\ Withdrawn({c} \X CallKeys)
    /\ walk' = [walk EXCEPT ![c].pc = "ready", ![c].calls = <<>>]
    /\ UNCHANGED <<clock, cached, used, federated>>

Fetching(c, k) == fetch # None /\ fetch.by = <<c, k>>

Fails(c, k) ==
    /\ walk[c].pc = "searching" /\ k \in DOMAIN walk[c].calls
    /\ walk[c].calls[k].state = "sent" \/ Fetching(c, k)
    /\ failures < MaxFailures
    /\ failures' = failures + 1
    /\ SearchFails(c)

TokenRefused(c, k) ==
    /\ Fetching(c, k) /\ fetch.answer # None /\ ~Usable(fetch.answer)
    /\ SearchFails(c)
    /\ UNCHANGED failures

(* deduplicate_principals: the first of the pages, taken in the order of   *)
(* the directories' ids, users before groups.                              *)
Identity(p) == <<p.issuer, p.externalId>>

Places(calls) == UNION {{<<k, n>> : n \in DOMAIN calls[k].principals} : k \in DOMAIN calls}
Placed(calls, x) == calls[x[1]].principals[x[2]]

Precedes(x, y) ==
    LET j == x[1]
        k == y[1]
    IN  \/ j[1].id < k[1].id
        \/ j[1].id = k[1].id /\ j[2] = "users" /\ k[2] = "groups"
        \/ j = k /\ x[2] < y[2]

Deduplicated_KeepsAll(calls) == {Placed(calls, x) : x \in Places(calls)}

Deduplicated(calls) ==
    {Placed(calls, x) : x \in {y \in Places(calls) :
        \A z \in Places(calls) :
            Precedes(z, y) => Identity(Placed(calls, z)) # Identity(Placed(calls, y))}}

(* The pages are kept by the directories' ids: of directories with one id, *)
(* an empty page among them, the one that ends last replaces the others.   *)
Kept(selected) ==
    {last \in SUBSET selected :
        /\ \A d, e \in last : d.id = e.id => d = e
        /\ \A d \in selected : \E e \in last : e.id = d.id}

Merge(c) ==
    LET w == walk[c]
    IN  /\ w.pc = "searching"
        /\ \A k \in DOMAIN w.calls : w.calls[k].state = "answered"
        /\ \E last \in Kept(Selected(federated, w.query)) :
              LET calls == [k \in {j \in DOMAIN w.calls : j[1] \in last} |-> w.calls[k]]
                  page == Deduplicated(calls)
                  next == UNION {calls[k].next : k \in DOMAIN calls}
                  cursors == [key \in {n[1] : n \in next} |-> (CHOOSE n \in next : n[1] = key)[2]]
              IN walk' = [walk EXCEPT ![c] =
                             [pc |-> IF next = {} THEN "done" ELSE "ready",
                              query |-> [w.query EXCEPT !.cursors = cursors],
                              calls |-> <<>>, page |-> page,
                              shown |-> w.shown \cup page]]
        /\ UNCHANGED <<tokenVars, federated, failures>>
-----------------------------------------------------------------------------
Init ==
    /\ TokenInit
    /\ failures = 0
    /\ \E scenario \in Scenarios :
        /\ federated = scenario.federated
        /\ walk = [c \in Clients |->
                    IF scenario.search[c] = None THEN Idle
                    ELSE [pc |-> "ready", query |-> scenario.search[c], calls |-> <<>>,
                          page |-> {}, shown |-> {}]]

(* What the tasks of a client's search do, failures aside.                 *)
Proceeds(c) ==
    \/ Search(c) \/ Refuse(c) \/ Merge(c)
    \/ \E k \in CallKeys : GetsToken(c, k) \/ Answers(c, k) \/ TokenRefused(c, k)

Next ==
    \/ \E c \in Clients : Proceeds(c) \/ \E k \in CallKeys : Fails(c, k)
    \/ KeycloakIssues
    \/ Tick /\ UNCHANGED <<federated, walk, failures>>

(* Every task is polled, and every call to a directory is answered or ends *)
(* with the timeouts of its client: failures are bounded, answers come.    *)
Fairness == WF_vars(KeycloakIssues) /\ \A c \in Clients : WF_vars(Proceeds(c))

Spec == Init /\ [][Next]_vars /\ Fairness

-----------------------------------------------------------------------------
Walking == {c \in Clients : walk[c].pc # "none"}

HasOwnId(federation, d) == \A e \in federation : e.id = d.id => e = d

Expected(federation, q) ==
    UNION {Range(Candidates(k[1], q, k[2], k[1].found[AskedKind(k[1], q, k[2])])) :
             k \in {j \in Calls(federation, q) : HasOwnId(federation, j[1])}}

(* A walk that ends has shown everybody that the selected directories find *)
(* when they are asked as this query asks them, however their pages,       *)
(* limits and failures fell together.  A directory whose id another has    *)
(* too is not covered: its page may be replaced by the other's.  Nor is    *)
(* whom a directory finds only when it is asked for another kind.          *)
WalkIsComplete ==
    \A c \in Walking : walk[c].pc = "done" =>
        \A p \in Expected(federated, walk[c].query) :
            \E r \in walk[c].shown : Identity(r) = Identity(p)

(* A page shows an external identity once, although directories with the   *)
(* same issuer may both hold it.                                           *)
PageHasNoDuplicates ==
    \A c \in Walking : \A p, r \in walk[c].page : Identity(p) = Identity(r) => p = r

(* Found by a search for another kind than it is looked up with.           *)
FoundAsOther(d, q, p) ==
    \E s \in Streams :
        LET asked == AskedKind(d, q, s)
        IN  /\ asked # LookupKind(p.externalId)
            /\ \E e \in Range(d.found[asked]) : p = MapEntry(d, asked, e)

(* Whoever is shown is found again by the reference shown, and is of the   *)
(* same kind: what an administrator picks is what materialize stores.      *)
(* What a custom directory found among workloads is looked up among its    *)
(* users: it may not be found there, and may be of another kind, but it is *)
(* nobody with another reference.  An LDAP id that two entries have is     *)
(* refused.  Directories that share an id answer for each other and are    *)
(* not covered.                                                            *)
ShownIsResolved ==
    \A c \in Walking : \A p \in walk[c].shown :
        \A d \in federated : d.id = p.provider /\ HasOwnId(federated, d) =>
            LET r == Resolve(d, p.issuer, p.externalId)
            IN  \/ r = p
                \/ r = None /\ Ambiguous(d, p.externalId)
                \/ /\ d.protocol = "CUSTOM" /\ FoundAsOther(d, walk[c].query, p)
                   /\ r # None => Identity(r) = Identity(p)

(* A walk over directories with ids of their own ends: the streams restart *)
(* when they are exhausted, but some page is the last one of all of them,  *)
(* and no call waits for the token for ever.                               *)
WalksEnd ==
    \A c \in Clients :
        /\ walk[c].pc = "ready"
        /\ \A d \in Selected(federated, walk[c].query) : HasOwnId(federated, d)
        ~> walk[c].pc \in {"done", "refused"}
=============================================================================
