------------------------- MODULE PrincipalRegistry -------------------------
(***************************************************************************)
(* PrincipalHandler on the principal tables: SCIM create, replace, PATCH,  *)
(* delete, read and list, materialization of a directory entry, and the    *)
(* administrator's status change, deletion and listing, beside the logins  *)
(* with which AuthN creates principals.                                    *)
(*                                                                         *)
(* Every repository call is one step: a statement, or the transaction of   *)
(* upsert_with_identity.  A handler holds what it read across the awaits   *)
(* between its calls, and any other request may run there.  A slot of      *)
(* `req' is a request being handled; a finished slot is used again.        *)
(***************************************************************************)
EXTENDS ScimResources, FiniteSets, Functions

CONSTANTS
    Ids,            \* principal ids, ordered as the id column is; no cursor is 0
    Referenced,     \* the ids some role binding names
    Slots,          \* requests handled at the same time
    Seeds,          \* tables the requests may find
    Inputs,         \* resources a client may send
    PatchInputs,    \* PATCH operations a client may send
    Directory,      \* entries of a pull directory: subject to [kind, enabled]
    Operations,     \* the requests clients make
    PageLimit,      \* rows of a page of the table (100 in the code)
    MaxRequests     \* bound: requests that are ever made

VARIABLES
    principal,  \* iam_principal, by id
    identity,   \* iam_principal_identity, by <<provider, subject>>
    req,        \* the requests being handled, by slot
    made,       \* the number of requests so far
    removed,    \* history: ids an administrator deleted
    live,       \* history: SCIM identities stored and not deleted since
    revived,    \* history: principals enabled by a request that did not ask for it
    duplicated, \* history: identities stored twice by creation
    listed      \* the answer of the last finished listing

tables == <<principal, identity>>
history == <<removed, live, revived, duplicated>>
vars == <<tables, req, made, history, listed>>

ASSUME RegistryAssumption ==
    /\ Ids \subseteq Nat \ {0}
    /\ Referenced \subseteq Ids
    /\ Inputs \subseteq Resources
    /\ PatchInputs \subseteq Patches
    /\ PageLimit \in Nat \ {0} /\ MaxCount \in Nat \ {0}
    /\ MaxRequests \in Nat
    /\ Nil \notin Ids /\ Nil \notin ScimKinds /\ Nil \notin Slots
    /\ \A e \in DOMAIN Directory : Directory[e].enabled \in BOOLEAN

Providers == {"scim", "directory"}
Keys == Providers \X Externals

(* A row of iam_principal; the kinds of a directory are its own.           *)
PrincipalRow ==
    [kind : ScimKinds \cup {Directory[e].kind : e \in DOMAIN Directory},
     active : BOOLEAN, scimDeleted : BOOLEAN]

With(f, k, v) == [x \in DOMAIN f \cup {k} |-> IF x = k THEN v ELSE f[x]]

(* The tables requests find hold whole principals: each has an identity,   *)
(* each identity a principal, and a login was the first thing that named   *)
(* its external identity and its principal.                                *)
ASSUME SeedsAssumption ==
    \A seed \in Seeds :
        /\ DOMAIN seed.principal \subseteq Ids /\ IsFiniteSet(DOMAIN seed.principal)
        /\ \A id \in DOMAIN seed.principal :
              /\ seed.principal[id] \in PrincipalRow
              /\ \E k \in DOMAIN seed.identity : seed.identity[k].owner = id
        /\ DOMAIN seed.identity \subseteq Keys
        /\ \A k \in DOMAIN seed.identity :
              /\ seed.identity[k].owner \in DOMAIN seed.principal
              /\ k[1] = "directory" => seed.identity[k].claims = LoginClaims
              /\ Managed(seed.identity[k].claims) \/ seed.identity[k].claims = LoginClaims
        /\ \A j, k \in DOMAIN seed.identity :
              /\ j[1] = "scim" /\ k[1] = "scim" /\ j # k
              /\ seed.identity[j].owner = seed.identity[k].owner
              => Managed(seed.identity[j].claims)

IdentitiesOf(id) == {k \in DOMAIN identity : identity[k].owner = id}
ScimIdentitiesOf(id) == {k \in IdentitiesOf(id) : k[1] = "scim"}

-----------------------------------------------------------------------------
(* A request begins.  `seen' is the row it read last, `clean' says that no *)
(* other request wrote to its principal since it began, and `taken' that   *)
(* its identity was provisioned and stayed so.  The other fields are what  *)
(* one operation or another carries: the resource, PATCH or entry it was   *)
(* sent; the cursor, the rows still to show, the ids shown, the ids that   *)
(* stayed, and whether the page was the last.                              *)

Request(op, pc, id, kind) ==
    [op |-> op, pc |-> pc, id |-> id, kind |-> kind, seen |-> Nil, clean |-> TRUE,
     resource |-> Nil, taken |-> FALSE, patch |-> Nil, entry |-> Nil, after |-> 0,
     queue |-> {}, found |-> <<>>, stable |-> {}, last |-> FALSE]

Idle == Request("none", "idle", Nil, Nil)

Begin(s, r) ==
    /\ req[s] = Idle
    /\ made < MaxRequests
    /\ r.op \in Operations
    /\ req' = [req EXCEPT ![s] = r]
    /\ made' = made + 1
    /\ UNCHANGED <<tables, history, listed>>

Key(r) == <<"scim", IdentitySubject(r)>>

(* New ids are random: nobody has them and nobody else names them.         *)
Fresh ==
    Ids \ (DOMAIN principal \cup removed
                \cup {req[s].id : s \in {o \in Slots : req[o] # Idle}})

(* POST /Users, /Groups: without an external id the identity key fails.    *)
CreateBegins(s) ==
    \E r \in Inputs :
        /\ r.externalId # Nil
        /\ Begin(s, [Request("create", "lookup", Nil, r.kind)
                        EXCEPT !.resource = r, !.taken = Key(r) \in live])

(* PUT, PATCH and DELETE first read the resource they name; an id without  *)
(* a row is answered at once.                                              *)
ReplaceBegins(s) ==
    \E id \in DOMAIN principal, r \in Inputs :
        Begin(s, [Request("replace", "row", id, r.kind) EXCEPT !.resource = r])
PatchBegins(s) ==
    \E id \in DOMAIN principal, kind \in ScimKinds, p \in PatchInputs :
        Begin(s, [Request("patch", "row", id, kind) EXCEPT !.patch = p])
DeleteBegins(s) ==
    \E id \in DOMAIN principal, kind \in ScimKinds : Begin(s, Request("delete", "row", id, kind))

(* A listing of the SCIM resources of one kind, or of every principal.     *)
(* `stable' are the resources that no request touched since it began.      *)
Visible(id, kind) ==
    /\ id \in DOMAIN principal
    /\ principal[id].kind = kind
    /\ ~principal[id].scimDeleted
    /\ ScimIdentitiesOf(id) # {}
ListBegins(s) ==
    \/ \E kind \in ScimKinds :
        Begin(s, [Request("list", "page", Nil, kind)
                    EXCEPT !.stable = {id \in Ids : Visible(id, kind)}])
    \/ Begin(s, [Request("walk", "page", Nil, "USER") EXCEPT !.stable = DOMAIN principal])

(* POST /principal-discovery/materialize names an entry and a principal:   *)
(* one that is there, was deleted, or is new, and not the random id that a *)
(* creation has not stored yet.                                            *)
Unknown ==
    {req[s].id : s \in {o \in Slots : req[o].op = "create"}} \ (DOMAIN principal \cup removed)
MaterializeBegins(s) ==
    \E id \in Ids \ Unknown, e \in DOMAIN Directory :
        Begin(s, [Request("materialize", "resolve", id, Directory[e].kind) EXCEPT !.entry = e])

-----------------------------------------------------------------------------
(* Answers, and the effect of a write on the requests that run beside it.  *)

Answered(s) == [req EXCEPT ![s] = Idle]

Disturb(f, s, id, key) ==
    [o \in Slots |->
        IF o = s \/ f[o] = Idle THEN f[o]
        ELSE LET r == f[o]
                 mine == r.id = id \/ (r.op = "create" /\ Key(r.resource) = key)
                 r1 == IF mine THEN [r EXCEPT !.clean = FALSE] ELSE r
             IN IF r.op \in {"list", "walk"} THEN [r1 EXCEPT !.stable = @ \ {id}] ELSE r1]

(* discover: a resource that is not acceptable ends the request.           *)
Discover(r, resource) ==
    IF Acceptable(resource) THEN [r EXCEPT !.pc = "write", !.resource = resource] ELSE Idle

-----------------------------------------------------------------------------
(* get_scim: the row first, then its identity.                             *)

(* A listing passes over what it does not find.                            *)
NextOfList(r) == [r EXCEPT !.pc = IF r.queue = {} THEN "turn" ELSE "row"]
NotFound(s) ==
    IF req[s].op = "list" THEN [req EXCEPT ![s] = NextOfList(@)] ELSE Answered(s)

Target(r) == IF r.op = "list" THEN Min(r.queue) ELSE r.id

GetPrincipal(s) ==
    LET r == req[s]
        id == Target(r)
        found == id \in DOMAIN principal
        fits == found /\ ~principal[id].scimDeleted /\ principal[id].kind = r.kind
        read == IF r.op = "list" THEN [r EXCEPT !.queue = @ \ {id}, !.id = id] ELSE r
    IN  /\ r.pc = "row"
        /\ req' = IF fits
                    THEN [req EXCEPT ![s] = [read EXCEPT !.pc = "claims", !.seen = principal[id]]]
                    ELSE IF r.op = "list" THEN [req EXCEPT ![s] = NextOfList(read)] ELSE Answered(s)
        /\ UNCHANGED <<tables, made, history, listed>>

(* What follows the read: the write that replaces or PATCHes the resource, *)
(* the deletion, or the answer.  Claims of a login do not parse: the       *)
(* request fails, and so does a whole listing.                             *)
AfterRead(r, resource) ==
    CASE r.op = "replace" -> Discover(r, r.resource)
      [] r.op = "patch" ->
            IF PatchApplies(r.patch) THEN Discover(r, ApplyPatch(resource, r.patch)) ELSE Idle
      [] r.op = "delete" -> [r EXCEPT !.pc = "fetch"]
      [] r.op = "list" -> [NextOfList(r) EXCEPT !.found = Append(@, r.id)]

GetIdentity(s) ==
    LET r == req[s]
    IN  /\ r.pc = "claims"
        /\ \/ /\ ScimIdentitiesOf(r.id) = {}
              /\ req' = NotFound(s)
           \/ \E k \in ScimIdentitiesOf(r.id) :
                LET claims == identity[k].claims
                IN req' = [req EXCEPT ![s] =
                            IF Parses(r.seen, claims) THEN AfterRead(r, RestoreResource(r.seen, claims))
                            ELSE Idle]
        /\ UNCHANGED <<tables, made, history, listed>>

-----------------------------------------------------------------------------
(* provision_scim for a creation: whose is the external identity?          *)

FindByIdentity(s) ==
    LET r == req[s]
        key == Key(r.resource)
    IN  /\ r.pc = "lookup"
        /\ \/ /\ key \notin DOMAIN identity
              /\ \E id \in Fresh :
                    req' = [req EXCEPT ![s] = Discover([r EXCEPT !.id = id], r.resource)]
           \/ /\ key \in DOMAIN identity
              /\ LET owner == identity[key].owner
                 IN req' = [req EXCEPT ![s].pc = "managed", ![s].id = owner,
                                       ![s].seen = principal[owner]]
        /\ UNCHANGED <<tables, made, history, listed>>

Conflicts_IgnoresDeleted(managed, row) == FALSE
Conflicts(managed, row) == managed /\ ~row.scimDeleted

(* A principal AuthN created, or a deleted resource, is adopted; a living  *)
(* resource is a conflict.                                                 *)
CheckManaged(s) ==
    LET r == req[s]
    IN  /\ r.pc = "managed"
        /\ \E managed \in
                IF ScimIdentitiesOf(r.id) = {} THEN {FALSE}
                ELSE {Managed(identity[k].claims) : k \in ScimIdentitiesOf(r.id)} :
            req' = [req EXCEPT ![s] =
                        IF Conflicts(managed, r.seen) THEN Idle ELSE Discover(r, r.resource)]
        /\ UNCHANGED <<tables, made, history, listed>>

-----------------------------------------------------------------------------
(* upsert_external: what a resource or a directory entry is stored as.     *)

Stored(r) ==
    IF r.op = "materialize"
      THEN [key |-> <<"directory", r.entry>>, row |-> [kind |-> r.seen.kind, active |-> r.seen.enabled,
                scimDeleted |-> FALSE], claims |-> LoginClaims]
      ELSE LET p == Projection(r.resource)
           IN [key |-> <<"scim", p.subject>>,
               row |-> [kind |-> p.kind, active |-> p.enabled, scimDeleted |-> FALSE],
               claims |-> p.claims]

BindsTo_AnyOwner(key, id) == TRUE

(* ON CONFLICT ... WHERE the identity already belongs to this principal.   *)
BindsTo(key, id) == key \in DOMAIN identity => identity[key].owner = id

(* Does the request ask for the principal to be enabled?                   *)
AsksToEnable(r) == r.op = "patch" => r.patch.path = "active" /\ r.kind = "USER"

(* upsert_with_identity is one transaction: either both rows or none.      *)
UpsertWithIdentity(s) ==
    LET r == req[s]
        w == Stored(r)
        revives == /\ r.id \in DOMAIN principal
                   /\ ~principal[r.id].active
                   /\ w.row.active
                   /\ ~AsksToEnable(r)
    IN  /\ r.pc = "write"
        /\ principal' = With(principal, r.id, w.row)
        /\ identity' = With(identity, w.key, [owner |-> r.id, claims |-> w.claims])
        /\ live' = IF w.key[1] = "scim" THEN live \cup {w.key} ELSE live
        /\ revived' = IF revives THEN revived \cup {[kind |-> r.kind, clean |-> r.clean]} ELSE revived
        /\ duplicated' = IF r.op = "create" /\ r.taken THEN duplicated \cup {w.key} ELSE duplicated
        /\ UNCHANGED <<made, removed, listed>>

Upsert_NoRollback(s) ==
    /\ req[s].pc = "write"
    /\ IF BindsTo(Stored(req[s]).key, req[s].id)
         THEN /\ UpsertWithIdentity(s)
              /\ req' = Disturb(Answered(s), s, req[s].id, Stored(req[s]).key)
         ELSE /\ principal' = With(principal, req[s].id, Stored(req[s]).row)
              /\ req' = Answered(s)
              /\ UNCHANGED <<identity, made, history, listed>>

(* The reads that build the answer change nothing.                         *)
Upsert(s) ==
    /\ req[s].pc = "write"
    /\ \/ /\ BindsTo(Stored(req[s]).key, req[s].id)
          /\ UpsertWithIdentity(s)
          /\ req' = Disturb(Answered(s), s, req[s].id, Stored(req[s]).key)
       \/ /\ ~BindsTo(Stored(req[s]).key, req[s].id)
          /\ req' = Answered(s)
          /\ UNCHANGED <<tables, made, history, listed>>

-----------------------------------------------------------------------------
(* delete_scim: the principal is read once more, and the whole row is      *)
(* written back disabled.                                                  *)

FetchForDeletion(s) ==
    /\ req[s].pc = "fetch"
    /\ req' = IF req[s].id \in DOMAIN principal
                THEN [req EXCEPT ![s].pc = "tombstone", ![s].seen = principal[req[s].id]]
                ELSE Answered(s)
    /\ UNCHANGED <<tables, made, history, listed>>

Tombstone(row) == [row EXCEPT !.active = FALSE, !.scimDeleted = TRUE]

Ended(f, keys) ==
    [o \in Slots |->
        IF f[o] # Idle /\ f[o].op = "create" /\ Key(f[o].resource) \in keys
          THEN [f[o] EXCEPT !.taken = FALSE] ELSE f[o]]

StoreTombstone(s) ==
    LET id == req[s].id
    IN  /\ req[s].pc = "tombstone"
        /\ principal' = With(principal, id, Tombstone(req[s].seen))
        /\ live' = live \ IdentitiesOf(id)
        /\ req' = Ended(Disturb(Answered(s), s, id, Nil), IdentitiesOf(id))
        /\ UNCHANGED <<identity, made, removed, revived, duplicated, listed>>

-----------------------------------------------------------------------------
(* materialize: the provider is asked for the entry, and the projection    *)
(* stored later.                                                           *)
Resolve(s) ==
    /\ req[s].pc = "resolve"
    /\ \/ req' = [req EXCEPT ![s].pc = "write", ![s].seen = Directory[req[s].entry]]
       \/ req' = Answered(s)
    /\ UNCHANGED <<tables, made, history, listed>>

-----------------------------------------------------------------------------
(* Listings: the rows after the cursor, a page at a time.  The n-th row of *)
(* a page has n - 1 rows before it in the order of the id column.          *)

PageAfter_Inclusive(after) == {id \in DOMAIN principal : id >= after}

PageAfter(after) == {id \in DOMAIN principal : id > after}
Page(after) ==
    LET rows == PageAfter(after)
        before(id) == Cardinality({j \in rows : j < id})
        size == IF Cardinality(rows) < PageLimit THEN Cardinality(rows) ELSE PageLimit
    IN [n \in 1 .. size |-> CHOOSE id \in rows : before(id) = n - 1]

ListEnds(s, r) ==
    /\ listed' = [op |-> r.op, found |-> r.found, stable |-> r.stable]
    /\ req' = Answered(s)

ReadPage(s) ==
    LET r == req[s]
        page == Page(r.after)
        next == [r EXCEPT !.after = IF page = <<>> THEN @ ELSE Last(page), !.queue =
                    {id \in Range(page) : principal[id].kind = r.kind}]
    IN  /\ r.pc = "page"
        /\ IF r.op = "walk"
             THEN LET seen == [r EXCEPT !.found = @ \o page]
                  IN IF Len(page) = PageLimit
                       THEN /\ req' = [req EXCEPT ![s] = [seen EXCEPT !.after = Last(page)]]
                            /\ UNCHANGED listed
                       ELSE ListEnds(s, seen)
             ELSE IF page = <<>> THEN ListEnds(s, r)
             ELSE /\ req' = [req EXCEPT ![s] = NextOfList([next EXCEPT !.last = Len(page) < PageLimit])]
                  /\ UNCHANGED listed
        /\ UNCHANGED <<tables, made, history>>

(* After the last row of a page: a short page was the last one.            *)
TurnPage(s) ==
    LET r == req[s]
    IN  /\ r.pc = "turn"
        /\ IF r.last THEN ListEnds(s, r)
           ELSE /\ req' = [req EXCEPT ![s].pc = "page"]
                /\ UNCHANGED listed
        /\ UNCHANGED <<tables, made, history>>

-----------------------------------------------------------------------------
(* One-statement requests of administrators, and AuthN's logins.           *)

UpdateStatus(id, active) ==
    /\ "status" \in Operations
    /\ made < MaxRequests
    /\ id \in DOMAIN principal
    /\ principal' = [principal EXCEPT ![id].active = active]
    /\ req' = Disturb(req, Nil, id, Nil)
    /\ made' = made + 1
    /\ UNCHANGED <<identity, history, listed>>

DeletePrincipal(id) ==
    /\ "remove" \in Operations
    /\ made < MaxRequests
    /\ id \in DOMAIN principal \ Referenced
    /\ principal' = Restrict(principal, DOMAIN principal \ {id})
    /\ identity' = Restrict(identity, DOMAIN identity \ IdentitiesOf(id))
    /\ removed' = removed \cup {id}
    /\ live' = live \ IdentitiesOf(id)
    /\ req' = Ended(Disturb(req, Nil, id, Nil), IdentitiesOf(id))
    /\ made' = made + 1
    /\ UNCHANGED <<revived, duplicated, listed>>

(* JIT: the first login through an external identity creates its principal *)
(* (the unique index decides between two of them).  Later ones only read   *)
(* the binding, and leave the tables as they are.                          *)
Login(id, e) ==
    /\ "login" \in Operations
    /\ made < MaxRequests
    /\ id \in Fresh
    /\ <<"scim", e>> \notin DOMAIN identity
    /\ principal' = With(principal, id, [kind |-> "USER", active |-> TRUE, scimDeleted |-> FALSE])
    /\ identity' = With(identity, <<"scim", e>>, [owner |-> id, claims |-> LoginClaims])
    /\ req' = Disturb(req, Nil, id, <<"scim", e>>)
    /\ made' = made + 1
    /\ UNCHANGED <<history, listed>>

-----------------------------------------------------------------------------
NoListing == [op |-> "none", found |-> <<>>, stable |-> {}]

Init ==
    /\ \E seed \in Seeds :
        /\ principal = seed.principal
        /\ identity = seed.identity
        /\ live = {k \in DOMAIN seed.identity :
                    Managed(seed.identity[k].claims) /\ ~seed.principal[seed.identity[k].owner].scimDeleted}
    /\ req = [s \in Slots |-> Idle]
    /\ made = 0
    /\ removed = {}
    /\ revived = {}
    /\ duplicated = {}
    /\ listed = NoListing

Next ==
    \/ \E s \in Slots :
        \/ CreateBegins(s) \/ ReplaceBegins(s) \/ PatchBegins(s) \/ DeleteBegins(s)
        \/ ListBegins(s) \/ MaterializeBegins(s) \/ GetPrincipal(s) \/ GetIdentity(s)
        \/ FindByIdentity(s) \/ CheckManaged(s) \/ Upsert(s)
        \/ FetchForDeletion(s) \/ StoreTombstone(s) \/ Resolve(s)
        \/ ReadPage(s) \/ TurnPage(s)
    \/ \E id \in Ids :
        \/ \E active \in BOOLEAN : UpdateStatus(id, active)
        \/ DeletePrincipal(id)
        \/ \E e \in Externals : Login(id, e)

Spec == Init /\ [][Next]_vars

-----------------------------------------------------------------------------
(* An external identity keeps its principal as long as that principal      *)
(* exists: no creation, replacement or materialization that overlaps       *)
(* another one moves it (the WHERE of the upsert's ON CONFLICT).           *)
IdentityOwnersAreStable ==
    [][\A k \in DOMAIN identity \cap DOMAIN identity' :
        identity[k].owner \in DOMAIN principal' => identity'[k].owner = identity[k].owner]_vars

(* A request that fails half way leaves no principal without an identity:  *)
(* such a row exists only where a deletion overtook an administrator's.    *)
NoStrayPrincipals ==
    \A id \in DOMAIN principal : IdentitiesOf(id) = {} => id \in removed

(* The same external id is not provisioned a second time while it is       *)
(* provisioned: two creations may only both succeed when they overlap.     *)
NoDuplicateCreation == duplicated = {}

(* A PATCH of a User that no other request interferes with, and that does  *)
(* not name `active', leaves a disabled principal disabled: the status     *)
(* survives the way out to the resource and back.                          *)
UndisturbedPatchKeepsStatus == \A e \in revived : e.kind = "GROUP" \/ ~e.clean

(* A listing shows every resource that was there all along, each once, in  *)
(* whatever order rows come and go between its pages, and the pages a      *)
(* client asks for with startIndex add up to it, for every count it asks   *)
(* for, one beyond the largest the code honours included.                  *)
ListingsAreComplete ==
    /\ listed.stable \subseteq Range(listed.found)
    /\ IsInjective(listed.found)
    /\ \A count \in 1 .. MaxCount + 1 : AllPages(listed.found, count) = listed.found

(* "Disable and delete operations take effect": no request enables a       *)
(* principal it was not asked to enable.                                   *)
DisableTakesEffect == revived = {}
=============================================================================
