--------------------------- MODULE ScimResources ---------------------------
(***************************************************************************)
(* What ScimPrincipalDiscovery does to SCIM Users and Groups on their way  *)
(* into and out of the principal tables: the identity key, the projection  *)
(* a resource is stored as, the resource restored from it, PATCH, and the  *)
(* page of a listing.                                                      *)
(*                                                                         *)
(* A resource keeps the fields the handlers look at.  `wellFormed' says    *)
(* that its schemas list the schema of its kind and its names are          *)
(* canonical; displayName stands for every other attribute.                *)
(***************************************************************************)
EXTENDS Naturals, Sequences, SequencesExt

CONSTANTS
    ExternalIds,    \* what an external id names, without the group: prefix
    Names,          \* values of displayName
    MaxCount,       \* resources a page of a listing holds at most (100 in the code)
    Nil             \* an attribute that is absent

ScimKinds == {"USER", "GROUP"}

(* An externalId, and a subject: some text that may start with group:.     *)
Externals == [group : BOOLEAN, id : ExternalIds]

Resources ==
    [kind : ScimKinds, externalId : Externals \cup {Nil}, displayName : Names \cup {Nil},
     active : BOOLEAN \cup {Nil}, wellFormed : BOOLEAN]

(* The claims column of an identity: the resource that was stored, or what *)
(* a provider said at a login, which is no resource and has kind Nil.      *)
LoginClaims == [kind |-> Nil, externalId |-> Nil, displayName |-> Nil]

(* Only a stored resource has `schemas' among its claims.                  *)
Managed(claims) == claims.kind # Nil

(* upsert_identity_key: groups live under group:, users under the text     *)
(* they were given.                                                        *)
IdentitySubject(r) ==
    IF r.kind = "GROUP" THEN [r.externalId EXCEPT !.group = TRUE] ELSE r.externalId

(* discover refuses a resource without its schema, its names or its        *)
(* external id; a Group has no name to fall back on.                       *)
Acceptable(r) ==
    /\ r.wellFormed
    /\ r.externalId # Nil
    /\ r.kind = "GROUP" => r.displayName # Nil

ToClaims(r) ==
    [kind |-> r.kind, externalId |-> r.externalId, displayName |-> r.displayName]

(* A User is enabled unless it says otherwise, a Group always is.          *)
Enabled(r) == r.kind = "USER" => r.active # FALSE

Projection(r) ==
    [subject |-> IdentitySubject(r), kind |-> r.kind, enabled |-> Enabled(r), claims |-> ToClaims(r)]

(* Claims that parse: a User needs its userName, a Group a displayName.    *)
Parses(row, claims) ==
    \/ row.kind = "USER" /\ claims.kind = "USER"
    \/ row.kind = "GROUP" /\ claims.displayName # Nil

RestoreResource_FromClaims(row, claims) ==
    [kind |-> row.kind, externalId |-> claims.externalId, displayName |-> claims.displayName,
     active |-> Nil, wellFormed |-> TRUE]

(* restore_resource: `active' of a User is the status of its principal.    *)
RestoreResource(row, claims) ==
    [kind |-> row.kind, externalId |-> claims.externalId, displayName |-> claims.displayName,
     active |-> IF row.kind = "USER" THEN row.active ELSE Nil, wellFormed |-> TRUE]

(* PATCH: one top-level attribute is replaced, or removed with Nil.  A     *)
(* Group keeps `active' among its other attributes, where nothing reads    *)
(* it.  Any other path and a request without the PatchOp schema fail.      *)
PatchPaths == {"displayName", "active", "externalId"}
Patches ==
    [path : {"displayName"}, value : Names \cup {Nil}]
        \cup [path : {"active"}, value : BOOLEAN \cup {Nil}]
        \cup [path : {"externalId"}, value : Externals \cup {Nil}]
        \cup [path : {"members[0].value"}, value : {Nil}]

PatchApplies(p) == p.path \in PatchPaths

ApplyPatch(r, p) ==
    CASE p.path = "displayName" -> [r EXCEPT !.displayName = p.value]
      [] p.path = "externalId" -> [r EXCEPT !.externalId = p.value]
      [] OTHER -> IF r.kind = "USER" THEN [r EXCEPT !.active = p.value] ELSE r

(* list_page: skip and take; startIndex counts from one, zero means one.   *)
Take(items, first, count) ==
    SubSeq(items, first, IF first + count - 1 < Len(items) THEN first + count - 1 ELSE Len(items))

PageSize(count) == IF count < MaxCount THEN count ELSE MaxCount
ListPage(items, start, count) == Take(items, IF start = 0 THEN 1 ELSE start, PageSize(count))

(* What a client collects that asks for page after page of a listing, each *)
(* beginning behind the itemsPerPage of the one before.                    *)
AllPages(items, count) ==
    FlattenSeq([n \in 1 .. Len(items) |-> ListPage(items, (n - 1) * PageSize(count) + 1, count)])
=============================================================================
