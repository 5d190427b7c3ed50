---------------------- MODULE PrincipalRegistryProofs ----------------------
(***************************************************************************)
(* What the requests on the principal tables keep true, for any number of  *)
(* requests at a time and every set of resources, patches and directory    *)
(* entries.                                                                *)
(***************************************************************************)
EXTENDS PrincipalRegistry, TLAPS, WellFoundedInduction, FiniteSetTheorems

-----------------------------------------------------------------------------
(* The inductive invariant: the tables, then each request.                 *)

Unmanaged(id) == {k \in ScimIdentitiesOf(id) : ~Managed(identity[k].claims)}

(* Rows have their shape, identities have a principal, and what a login    *)
(* left behind is the only SCIM identity of its principal.                 *)
TablesOK ==
    /\ \A id \in DOMAIN principal : principal[id] \in PrincipalRow
    /\ \A k \in DOMAIN identity :
          /\ identity[k].owner \in DOMAIN principal
          /\ Managed(identity[k].claims) \/ identity[k].claims = LoginClaims
    /\ \A id : \A j \in Unmanaged(id) : \A k \in ScimIdentitiesOf(id) : j = k

(* A live SCIM identity is stored, as a resource, with a principal that is *)
(* not deleted.                                                            *)
LiveIsStored ==
    \A k \in live :
        /\ k \in DOMAIN identity /\ k[1] = "scim"
        /\ Managed(identity[k].claims)
        /\ ~principal[identity[k].owner].scimDeleted

Fields == {"op", "pc", "id", "kind", "seen", "clean", "resource", "taken", "patch", "entry",
           "after", "queue", "found", "stable", "last"}

(* The phases of each operation, and what a request has in hand in them.   *)
RequestOK(r) ==
    /\ DOMAIN r = Fields
    /\ r.pc \in {"row", "claims"} => r.op \in {"replace", "patch", "delete", "list"}
    /\ r.pc \in {"lookup", "managed"} => r.op = "create"
    /\ r.pc = "write" => r.op \in {"create", "replace", "patch", "materialize"}
    /\ r.pc \in {"fetch", "tombstone"} => r.op = "delete"
    /\ r.pc = "resolve" => r.op = "materialize"
    /\ r.pc \in {"page", "turn"} => r.op \in {"list", "walk"}
    /\ r.op \in {"create", "replace", "patch", "delete", "list"} => r.kind \in ScimKinds
    /\ r.op \in {"create", "replace"} \/ (r.op = "patch" /\ r.pc = "write") =>
          r.resource.kind \in ScimKinds
    /\ r.pc \in {"claims", "managed", "tombstone"} => r.seen \in PrincipalRow
    /\ r.pc = "claims" => r.seen.kind = r.kind
    /\ r.op = "materialize" => r.entry \in DOMAIN Directory
    /\ r.op = "materialize" /\ r.pc = "write" => r.seen = Directory[r.entry]

(* A tombstone is written to a row that is there or was removed.           *)
TombstoneOK(r) == r.pc = "tombstone" => r.id \in DOMAIN principal \cup removed

(* A request that is about to write a resource adds no second identity to  *)
(* a principal that a login left: it replaces that one or there is none.   *)
AdoptsOK(r) ==
    /\ r.op \in {"create", "replace", "patch"}
    /\ r.pc = "write" \/ (r.op = "create" /\ r.pc = "managed")
    => \A k \in Unmanaged(r.id) : k = Key(r.resource)

(* A creation of what is provisioned does not get to its write.            *)
TakenOK(r) ==
    r.op = "create" /\ r.taken =>
        /\ Key(r.resource) \in live
        /\ r.pc \in {"lookup", "managed"}
        /\ r.pc = "managed" =>
              identity[Key(r.resource)].owner = r.id /\ ~r.seen.scimDeleted

(* What an undisturbed PATCH has in hand is what the table holds.          *)
PatchOK(r) ==
    /\ r.op = "patch" /\ r.clean /\ r.pc = "claims" =>
          r.id \in DOMAIN principal /\ r.seen = principal[r.id]
    /\ r.op = "patch" /\ r.clean /\ r.pc = "write" =>
          /\ r.id \in DOMAIN principal
          /\ r.resource.kind = r.kind
          /\ r.kind = "USER" /\ r.patch.path # "active" =>
                r.resource.active = principal[r.id].active

SlotOK(r) == RequestOK(r) /\ TombstoneOK(r) /\ AdoptsOK(r) /\ TakenOK(r) /\ PatchOK(r)

IInv ==
    /\ TablesOK
    /\ LiveIsStored
    /\ NoStrayPrincipals
    /\ NoDuplicateCreation
    /\ UndisturbedPatchKeepsStatus
    /\ DOMAIN req = Slots
    /\ \A s \in Slots : SlotOK(req[s])

-----------------------------------------------------------------------------
(* Steps that only move a request.                                         *)

(* A free slot is in order.                                                *)
LEMMA IdleOK == SlotOK(Idle)
  BY DEF Idle, Request, SlotOK, RequestOK, TombstoneOK, AdoptsOK, TakenOK, PatchOK, Fields,
     ScimKinds

Moves(s) ==
    /\ UNCHANGED <<tables, history>>
    /\ \E q : SlotOK(q) /\ req' = [req EXCEPT ![s] = q]

(* They preserve the invariant.                                            *)
LEMMA MovesKeep ==
    ASSUME IInv, NEW s \in Slots, Moves(s)
    PROVE  IInv'
  <1>1. /\ UNCHANGED <<principal, identity, removed, live, revived, duplicated>>
        /\ \E q : SlotOK(q) /\ req' = [req EXCEPT ![s] = q]
    BY DEF Moves, tables, history
  <1>2. \A o \in Slots : SlotOK(req'[o])
    BY <1>1 DEF IInv
  <1>3. \A id : IdentitiesOf(id)' = IdentitiesOf(id) /\ ScimIdentitiesOf(id)' = ScimIdentitiesOf(id)
    BY <1>1 DEF IdentitiesOf, ScimIdentitiesOf
  <1>4. \A id : Unmanaged(id)' = Unmanaged(id)
    BY <1>1, <1>3 DEF Unmanaged
  <1>5. \A o \in Slots : SlotOK(req[o])'
    <2> SUFFICES ASSUME NEW o \in Slots, SlotOK(req'[o])
                 PROVE  SlotOK(req[o])'
      BY <1>2
    <2>1. Unmanaged(req[o].id)' = Unmanaged(req'[o].id)
      BY <1>1, <1>3 DEF Unmanaged, ScimIdentitiesOf, IdentitiesOf
    <2>2. QED
      BY <1>1, <2>1 DEF SlotOK, RequestOK, TombstoneOK, AdoptsOK, TakenOK, PatchOK
  <1>6. DOMAIN req' = Slots
    BY <1>1 DEF IInv
  <1>7. TablesOK' /\ LiveIsStored' /\ NoStrayPrincipals'
    BY <1>1, <1>3, <1>4 DEF IInv, TablesOK, LiveIsStored, NoStrayPrincipals
  <1>8. NoDuplicateCreation' /\ UndisturbedPatchKeepsStatus'
    BY <1>1 DEF IInv, NoDuplicateCreation, UndisturbedPatchKeepsStatus
  <1>9. QED
    BY <1>5, <1>6, <1>7, <1>8 DEF IInv

(* A request that ends moves to a free slot.                               *)
LEMMA AnswerMoves ==
    ASSUME NEW s \in Slots, req' = Answered(s), UNCHANGED <<tables, history>>
    PROVE  Moves(s)
  <1> HIDE DEF Idle
  <1>1. QED
    BY IdleOK DEF Moves, Answered

(* Requests begin in order.                                                *)
LEMMA BeginMoves ==
    ASSUME IInv, NEW s \in Slots,
           \/ CreateBegins(s) \/ ReplaceBegins(s) \/ PatchBegins(s) \/ DeleteBegins(s)
           \/ ListBegins(s) \/ MaterializeBegins(s)
    PROVE  Moves(s)
  <1>1. ASSUME NEW q, Begin(s, q), SlotOK(q)
        PROVE  Moves(s)
    BY <1>1 DEF Begin, Moves
  <1>2. \A r \in Inputs : r.kind \in ScimKinds
    BY RegistryAssumption DEF Resources
  <1> USE DEF SlotOK, RequestOK, TombstoneOK, AdoptsOK, TakenOK, PatchOK, Fields, Request
  <1>3. CASE CreateBegins(s)
    <2>1. PICK r \in Inputs :
             Begin(s, [Request("create", "lookup", Nil, r.kind)
                         EXCEPT !.resource = r, !.taken = Key(r) \in live])
      BY <1>3, Zenon DEF CreateBegins
    <2> DEFINE q == [Request("create", "lookup", Nil, r.kind)
                       EXCEPT !.resource = r, !.taken = Key(r) \in live]
    <2>2. SlotOK(q)
      BY <1>2
    <2> HIDE DEF q
    <2>3. QED
      BY <1>1, <2>1, <2>2 DEF q
  <1>4. CASE ReplaceBegins(s)
    <2>1. PICK id \in DOMAIN principal, r \in Inputs :
             Begin(s, [Request("replace", "row", id, r.kind) EXCEPT !.resource = r])
      BY <1>4, Zenon DEF ReplaceBegins
    <2> DEFINE q == [Request("replace", "row", id, r.kind) EXCEPT !.resource = r]
    <2>2. SlotOK(q)
      BY <1>2
    <2> HIDE DEF q
    <2>3. QED
      BY <1>1, <2>1, <2>2 DEF q
  <1>5. CASE PatchBegins(s)
    <2>1. PICK id \in DOMAIN principal, kind \in ScimKinds, p \in PatchInputs :
             Begin(s, [Request("patch", "row", id, kind) EXCEPT !.patch = p])
      BY <1>5, Zenon DEF PatchBegins
    <2> DEFINE q == [Request("patch", "row", id, kind) EXCEPT !.patch = p]
    <2>2. SlotOK(q)
      OBVIOUS
    <2> HIDE DEF q
    <2>3. QED
      BY <1>1, <2>1, <2>2 DEF q
  <1>6. CASE DeleteBegins(s)
    <2>1. PICK id \in DOMAIN principal, kind \in ScimKinds :
             Begin(s, Request("delete", "row", id, kind))
      BY <1>6, Zenon DEF DeleteBegins
    <2> DEFINE q == Request("delete", "row", id, kind)
    <2>2. SlotOK(q)
      OBVIOUS
    <2> HIDE DEF q
    <2>3. QED
      BY <1>1, <2>1, <2>2 DEF q
  <1>7. CASE ListBegins(s)
    <2>0. PICK op \in {"list", "walk"}, kind \in ScimKinds :
             \E stable : Begin(s, [Request(op, "page", Nil, kind) EXCEPT !.stable = stable])
      BY <1>7, Zenon DEF ListBegins, ScimKinds
    <2>1. PICK stable : Begin(s, [Request(op, "page", Nil, kind) EXCEPT !.stable = stable])
      BY <2>0, Zenon
    <2> DEFINE q == [Request(op, "page", Nil, kind) EXCEPT !.stable = stable]
    <2>2. SlotOK(q)
      OBVIOUS
    <2> HIDE DEF q
    <2>3. QED
      BY <1>1, <2>1, <2>2 DEF q
  <1>8. CASE MaterializeBegins(s)
    <2>1. PICK id \in Ids \ Unknown, e \in DOMAIN Directory :
             Begin(s, [Request("materialize", "resolve", id, Directory[e].kind)
                         EXCEPT !.entry = e])
      BY <1>8, Zenon DEF MaterializeBegins
    <2> DEFINE q == [Request("materialize", "resolve", id, Directory[e].kind)
                       EXCEPT !.entry = e]
    <2>2. SlotOK(q)
      OBVIOUS
    <2> HIDE DEF q
    <2>3. QED
      BY <1>1, <2>1, <2>2 DEF q
  <1>9. QED
    BY <1>3, <1>4, <1>5, <1>6, <1>7, <1>8

(* What discover makes of a request whose resource is in order.            *)
LEMMA DiscoverOK ==
    ASSUME NEW r, RequestOK(r), r.op \in {"create", "replace", "patch"},
           NEW res, res.kind \in ScimKinds,
           \A k \in Unmanaged(r.id) : k = Key(res),
           ~(r.op = "create" /\ r.taken),
           r.op = "patch" /\ r.clean =>
              /\ r.id \in DOMAIN principal
              /\ res.kind = r.kind
              /\ r.kind = "USER" /\ r.patch.path # "active" =>
                    res.active = principal[r.id].active
    PROVE  SlotOK(Discover(r, res))
  <1>1. CASE ~Acceptable(res)
    BY <1>1, IdleOK DEF Discover
  <1>2. CASE Acceptable(res)
    <2> DEFINE q == Discover(r, res)
    <2>1. q = [r EXCEPT !.pc = "write", !.resource = res]
      BY <1>2 DEF Discover
    <2>2. /\ DOMAIN q = Fields /\ q.op = r.op /\ q.id = r.id /\ q.kind = r.kind /\ q.pc = "write"
          /\ q.resource = res /\ q.taken = r.taken /\ q.clean = r.clean /\ q.patch = r.patch
      BY <2>1 DEF RequestOK, Fields
    <2> HIDE DEF q
    <2>3. RequestOK(q)
      BY <2>2 DEF RequestOK
    <2>4. AdoptsOK(q) /\ TombstoneOK(q) /\ TakenOK(q) /\ PatchOK(q)
      BY <2>2 DEF AdoptsOK, TombstoneOK, TakenOK, PatchOK
    <2>5. QED
      BY <2>3, <2>4 DEF SlotOK, q
  <1>3. QED
    BY <1>1, <1>2

(* A listing or a walk is in order whatever it has found.                  *)
LEMMA ListOK ==
    ASSUME NEW r, DOMAIN r = Fields, r.op \in {"list", "walk"},
           r.op = "list" => r.kind \in ScimKinds,
           r.pc \in {"page", "turn"} \/ (r.pc = "row" /\ r.op = "list")
    PROVE  SlotOK(r)
  BY DEF SlotOK, RequestOK, TombstoneOK, AdoptsOK, TakenOK, PatchOK

(* So is the one that goes on with the next row.                           *)
LEMMA NextOfListOK ==
    ASSUME NEW r, DOMAIN r = Fields, r.op = "list", r.kind \in ScimKinds
    PROVE  SlotOK(NextOfList(r))
  <1> DEFINE q == NextOfList(r)
  <1>1. DOMAIN q = Fields /\ q.op = "list" /\ q.kind = r.kind /\ q.pc \in {"row", "turn"}
    BY DEF NextOfList, Fields
  <1> HIDE DEF q
  <1>2. QED
    BY <1>1, ListOK DEF q

(* get_scim reads the row.                                                 *)
LEMMA GetPrincipalMoves ==
    ASSUME IInv, NEW s \in Slots, GetPrincipal(s)
    PROVE  Moves(s)
  <1> DEFINE r == req[s]
             id == Target(r)
             read == IF r.op = "list" THEN [r EXCEPT !.queue = @ \ {id}, !.id = id] ELSE r
             fits == /\ id \in DOMAIN principal
                     /\ ~principal[id].scimDeleted /\ principal[id].kind = r.kind
             q == [read EXCEPT !.pc = "claims", !.seen = principal[id]]
  <1>1. SlotOK(r) /\ r.pc = "row" /\ UNCHANGED <<tables, history>>
    BY DEF IInv, GetPrincipal
  <1>2. RequestOK(r) /\ r.op \in {"replace", "patch", "delete", "list"} /\ DOMAIN r = Fields
        /\ r.kind \in ScimKinds
    BY <1>1 DEF SlotOK, RequestOK
  <1>3. /\ DOMAIN read = Fields /\ read.op = r.op /\ read.kind = r.kind /\ read.pc = r.pc
        /\ read.taken = r.taken /\ read.resource = r.resource /\ read.clean = r.clean
        /\ r.op # "list" => read.id = id
        /\ read.entry = r.entry
    BY <1>2 DEF Fields, Target
  <1>4. req' = IF fits THEN [req EXCEPT ![s] = q]
               ELSE IF r.op = "list" THEN [req EXCEPT ![s] = NextOfList(read)] ELSE Answered(s)
    BY DEF GetPrincipal
  <1> HIDE DEF read, r
  <1>5. CASE fits
    <2>1. /\ DOMAIN q = Fields /\ q.op = r.op /\ q.kind = r.kind /\ q.pc = "claims"
          /\ q.seen = principal[id] /\ q.taken = r.taken /\ q.resource = r.resource
          /\ q.id = read.id
      BY <1>3 DEF Fields
    <2>2. principal[id] \in PrincipalRow
      BY <1>5 DEF IInv, TablesOK
    <2> HIDE DEF q, id
    <2>3. SlotOK(q)
      BY <1>2, <1>3, <1>5, <2>1, <2>2 DEF SlotOK, RequestOK, TombstoneOK, AdoptsOK, TakenOK, PatchOK
    <2>4. QED
      BY <1>1, <1>4, <1>5, <2>3 DEF Moves
  <1>6. CASE ~fits /\ r.op = "list"
    BY <1>1, <1>2, <1>3, <1>4, <1>6, NextOfListOK DEF Moves
  <1>7. CASE ~fits /\ r.op # "list"
    BY <1>1, <1>4, <1>7, AnswerMoves
  <1>8. QED
    BY <1>5, <1>6, <1>7

(* A patch that does not name `active' leaves it alone, and the kind.      *)
LEMMA ApplyPatchKeeps ==
    ASSUME NEW row, NEW claims, NEW p, PatchApplies(p)
    PROVE  LET res == ApplyPatch(RestoreResource(row, claims), p)
           IN  /\ res.kind = row.kind
               /\ row.kind = "USER" /\ p.path # "active" => res.active = row.active
  BY DEF ApplyPatch, RestoreResource, PatchApplies, PatchPaths

(* get_scim reads the identity.                                            *)
LEMMA GetIdentityMoves ==
    ASSUME IInv, NEW s \in Slots, GetIdentity(s)
    PROVE  Moves(s)
  <1> DEFINE r == req[s]
  <1>1. SlotOK(r) /\ r.pc = "claims" /\ UNCHANGED <<tables, history>>
    BY DEF IInv, GetIdentity
  <1>2. /\ RequestOK(r) /\ PatchOK(r) /\ r.op \in {"replace", "patch", "delete", "list"}
        /\ DOMAIN r = Fields /\ r.kind \in ScimKinds /\ r.seen.kind = r.kind
        /\ r.op = "replace" => r.resource.kind \in ScimKinds
    BY <1>1 DEF SlotOK, RequestOK
  <1>3. CASE req' = NotFound(s)
    <2>1. CASE r.op = "list"
      <3>1. req' = [req EXCEPT ![s] = NextOfList(r)]
        BY <1>3, <2>1 DEF NotFound
      <3> HIDE DEF r
      <3>2. QED
        BY <1>1, <1>2, <2>1, <3>1, NextOfListOK DEF Moves
    <2>2. CASE r.op # "list"
      BY <1>1, <1>3, <2>2, AnswerMoves DEF NotFound
    <2>3. QED
      BY <2>1, <2>2
  <1>4. ASSUME NEW k \in ScimIdentitiesOf(r.id), Parses(r.seen, identity[k].claims)
        PROVE  SlotOK(AfterRead(r, RestoreResource(r.seen, identity[k].claims)))
    <2>1. Managed(identity[k].claims)
      <3>1. Managed(identity[k].claims) \/ identity[k].claims = LoginClaims
        BY <1>4 DEF IInv, TablesOK, ScimIdentitiesOf, IdentitiesOf
      <3>2. QED
        BY <1>4, <3>1, RegistryAssumption DEF Parses, Managed, LoginClaims, ScimKinds
    <2>2. Unmanaged(r.id) = {}
      <3>1. \A j \in Unmanaged(r.id) : j = k
        BY <1>4 DEF IInv, TablesOK
      <3>2. QED
        BY <2>1, <3>1 DEF Unmanaged
    <2> DEFINE res == RestoreResource(r.seen, identity[k].claims)
    <2> HIDE DEF r, res
    <2>3. CASE r.op = "replace"
      BY <1>2, <2>2, <2>3, DiscoverOK DEF AfterRead
    <2>4. CASE r.op = "patch"
      <3>1. CASE ~PatchApplies(r.patch)
        BY <2>4, <3>1, IdleOK DEF AfterRead, res
      <3>2. CASE PatchApplies(r.patch)
        <4> DEFINE res1 == ApplyPatch(res, r.patch)
        <4>1. /\ res1.kind = r.kind
              /\ r.kind = "USER" /\ r.patch.path # "active" => res1.active = r.seen.active
          BY <1>2, <3>2, ApplyPatchKeeps DEF res
        <4>2. r.clean => r.id \in DOMAIN principal /\ r.seen = principal[r.id]
          BY <1>1, <1>2, <2>4 DEF PatchOK
        <4> HIDE DEF res1
        <4>3. SlotOK(Discover(r, res1))
          BY <1>2, <2>2, <2>4, <4>1, <4>2, DiscoverOK
        <4>4. QED
          BY <2>4, <3>2, <4>3 DEF AfterRead, res, res1
      <3>3. QED
        BY <3>1, <3>2
    <2>5. CASE r.op = "delete"
      <3> DEFINE q == [r EXCEPT !.pc = "fetch"]
      <3>1. DOMAIN q = Fields /\ q.op = "delete" /\ q.pc = "fetch" /\ q.kind = r.kind
        BY <1>2, <2>5 DEF Fields
      <3> HIDE DEF q
      <3>2. SlotOK(q)
        BY <1>2, <3>1 DEF SlotOK, RequestOK, TombstoneOK, AdoptsOK, TakenOK, PatchOK
      <3>3. QED
        BY <2>5, <3>2 DEF AfterRead, q
    <2>6. CASE r.op = "list"
      <3> DEFINE q == [NextOfList(r) EXCEPT !.found = Append(@, r.id)]
      <3>1. /\ DOMAIN q = Fields /\ q.op = "list" /\ q.pc \in {"row", "turn"} /\ q.kind = r.kind
        BY <1>2, <2>6 DEF Fields, NextOfList
      <3> HIDE DEF q
      <3>2. SlotOK(q)
        BY <1>2, <3>1, ListOK
      <3>3. QED
        BY <2>6, <3>2 DEF AfterRead, q
    <2>7. QED
      BY <1>2, <2>3, <2>4, <2>5, <2>6 DEF r
  <1>5. CASE req' # NotFound(s)
    <2>1. PICK k \in ScimIdentitiesOf(r.id) :
             req' = [req EXCEPT ![s] = IF Parses(r.seen, identity[k].claims)
                                       THEN AfterRead(r, RestoreResource(r.seen, identity[k].claims))
                                       ELSE Idle]
      BY <1>5 DEF GetIdentity
    <2> HIDE DEF Idle, r
    <2>2. QED
      BY <1>1, <1>4, <2>1, IdleOK DEF Moves, r
  <1>6. QED
    BY <1>3, <1>5

(* provision_scim looks for the owner of the external identity.            *)
LEMMA FindByIdentityMoves ==
    ASSUME IInv, NEW s \in Slots, FindByIdentity(s)
    PROVE  Moves(s)
  <1> DEFINE r == req[s]
             key == Key(r.resource)
  <1>1. SlotOK(r) /\ r.pc = "lookup" /\ UNCHANGED <<tables, history>>
    BY DEF IInv, FindByIdentity
  <1>2. /\ RequestOK(r) /\ TakenOK(r) /\ r.op = "create" /\ DOMAIN r = Fields
        /\ r.kind \in ScimKinds /\ r.resource.kind \in ScimKinds
    BY <1>1 DEF SlotOK, RequestOK
  <1>3. CASE key \notin DOMAIN identity
    <2>1. PICK id \in Fresh : req' = [req EXCEPT ![s] = Discover([r EXCEPT !.id = id], r.resource)]
      BY <1>3 DEF FindByIdentity
    <2>2. Unmanaged(id) = {}
      <3>1. id \notin DOMAIN principal
        BY <2>1 DEF Fresh
      <3>2. QED
        BY <3>1 DEF IInv, TablesOK, Unmanaged, ScimIdentitiesOf, IdentitiesOf
    <2>3. ~r.taken
      BY <1>2, <1>3 DEF TakenOK, IInv, LiveIsStored
    <2> DEFINE y == [r EXCEPT !.id = id]
    <2>4. /\ DOMAIN y = Fields /\ y.op = r.op /\ y.pc = r.pc /\ y.kind = r.kind
          /\ y.resource = r.resource /\ y.taken = r.taken /\ y.id = id
      BY <1>2 DEF Fields
    <2> HIDE DEF y, r
    <2>5. RequestOK(y)
      BY <1>1, <1>2, <2>4 DEF RequestOK
    <2>6. SlotOK(Discover(y, r.resource))
      BY <1>2, <2>2, <2>3, <2>4, <2>5, DiscoverOK
    <2>7. QED
      BY <1>1, <2>1, <2>6 DEF Moves, y, r
  <1>4. CASE key \in DOMAIN identity
    <2> DEFINE p == identity[key].owner
               q == [r EXCEPT !.pc = "managed", !.id = p, !.seen = principal[p]]
    <2>1. req' = [req EXCEPT ![s] = q]
      BY <1>4 DEF FindByIdentity
    <2>2. /\ DOMAIN q = Fields /\ q.op = "create" /\ q.pc = "managed" /\ q.kind = r.kind
          /\ q.resource = r.resource /\ q.taken = r.taken /\ q.id = p /\ q.seen = principal[p]
      BY <1>2 DEF Fields
    <2>3. p \in DOMAIN principal /\ principal[p] \in PrincipalRow
      BY <1>4 DEF IInv, TablesOK
    <2>4. \A k \in Unmanaged(p) : k = key
      <3>1. key \in ScimIdentitiesOf(p)
        BY <1>4 DEF ScimIdentitiesOf, IdentitiesOf, Key
      <3>2. QED
        BY <3>1 DEF IInv, TablesOK
    <2>5. r.taken => key \in live /\ ~principal[p].scimDeleted
      BY <1>2 DEF TakenOK, IInv, LiveIsStored
    <2> HIDE DEF q, r, p
    <2>6. SlotOK(q)
      BY <1>2, <2>2, <2>3, <2>4, <2>5 DEF SlotOK, RequestOK, TombstoneOK, AdoptsOK, TakenOK,
         PatchOK, p
    <2>7. QED
      BY <1>1, <2>1, <2>6 DEF Moves
  <1>5. QED
    BY <1>3, <1>4

(* provision_scim refuses what is provisioned and goes on with the rest.   *)
LEMMA CheckManagedMoves ==
    ASSUME IInv, NEW s \in Slots, CheckManaged(s)
    PROVE  Moves(s)
  <1> DEFINE r == req[s]
             key == Key(r.resource)
  <1>1. SlotOK(r) /\ r.pc = "managed" /\ UNCHANGED <<tables, history>>
    BY DEF IInv, CheckManaged
  <1>2. /\ RequestOK(r) /\ TakenOK(r) /\ AdoptsOK(r) /\ r.op = "create" /\ DOMAIN r = Fields
        /\ r.resource.kind \in ScimKinds
    BY <1>1 DEF SlotOK, RequestOK
  <1>3. \A k \in Unmanaged(r.id) : k = key
    BY <1>1, <1>2 DEF AdoptsOK
  <1>4. PICK managed \in
               IF ScimIdentitiesOf(r.id) = {} THEN {FALSE}
               ELSE {Managed(identity[k].claims) : k \in ScimIdentitiesOf(r.id)} :
           req' = [req EXCEPT ![s] =
                      IF Conflicts(managed, r.seen) THEN Idle ELSE Discover(r, r.resource)]
    BY DEF CheckManaged
  <1>5. ASSUME r.taken
        PROVE  Conflicts(managed, r.seen)
    <2>1. key \in live /\ identity[key].owner = r.id /\ ~r.seen.scimDeleted
      BY <1>1, <1>2, <1>5 DEF TakenOK
    <2>2. key \in ScimIdentitiesOf(r.id) /\ Managed(identity[key].claims)
      BY <2>1 DEF IInv, LiveIsStored, ScimIdentitiesOf, IdentitiesOf
    <2>3. \A k \in ScimIdentitiesOf(r.id) : Managed(identity[k].claims)
      BY <1>3, <2>2 DEF Unmanaged
    <2>4. managed
      BY <1>4, <2>2, <2>3
    <2>5. QED
      BY <2>1, <2>4 DEF Conflicts
  <1> HIDE DEF r, Idle
  <1>6. CASE Conflicts(managed, r.seen)
    BY <1>1, <1>4, <1>6, IdleOK DEF Moves
  <1>7. CASE ~Conflicts(managed, r.seen)
    <2>1. SlotOK(Discover(r, r.resource))
      BY <1>2, <1>3, <1>5, <1>7, DiscoverOK
    <2>2. QED
      BY <1>1, <1>4, <1>7, <2>1 DEF Moves
  <1>8. QED
    BY <1>6, <1>7

(* delete_scim reads the row again, and materialize asks the directory.    *)
LEMMA FetchMoves ==
    ASSUME IInv, NEW s \in Slots, FetchForDeletion(s) \/ Resolve(s)
    PROVE  Moves(s)
  <1> DEFINE r == req[s]
  <1>1. SlotOK(r) /\ UNCHANGED <<tables, history>>
    BY DEF IInv, FetchForDeletion, Resolve
  <1>2. CASE req' = Answered(s)
    BY <1>1, <1>2, AnswerMoves
  <1>3. CASE req' # Answered(s) /\ FetchForDeletion(s)
    <2> DEFINE q == [r EXCEPT !.pc = "tombstone", !.seen = principal[r.id]]
    <2>1. r.pc = "fetch" /\ r.id \in DOMAIN principal /\ req' = [req EXCEPT ![s] = q]
      BY <1>3 DEF FetchForDeletion
    <2>2. DOMAIN r = Fields /\ r.op = "delete" /\ r.kind \in ScimKinds
      BY <1>1, <2>1 DEF SlotOK, RequestOK
    <2>3. /\ DOMAIN q = Fields /\ q.op = "delete" /\ q.pc = "tombstone" /\ q.id = r.id
          /\ q.seen = principal[r.id] /\ q.kind = r.kind
      BY <2>2 DEF Fields
    <2>4. principal[r.id] \in PrincipalRow
      BY <2>1 DEF IInv, TablesOK
    <2> HIDE DEF q, r
    <2>5. SlotOK(q)
      BY <2>1, <2>2, <2>3, <2>4 DEF SlotOK, RequestOK, TombstoneOK, AdoptsOK, TakenOK, PatchOK
    <2>6. QED
      BY <1>1, <2>1, <2>5 DEF Moves
  <1>4. CASE req' # Answered(s) /\ Resolve(s)
    <2> DEFINE q == [r EXCEPT !.pc = "write", !.seen = Directory[r.entry]]
    <2>1. r.pc = "resolve" /\ req' = [req EXCEPT ![s] = q]
      BY <1>4 DEF Resolve
    <2>2. DOMAIN r = Fields /\ r.op = "materialize" /\ r.entry \in DOMAIN Directory
      BY <1>1, <2>1 DEF SlotOK, RequestOK
    <2>3. /\ DOMAIN q = Fields /\ q.op = "materialize" /\ q.pc = "write" /\ q.entry = r.entry
          /\ q.seen = Directory[r.entry]
      BY <2>2 DEF Fields
    <2> HIDE DEF q, r
    <2>4. SlotOK(q)
      BY <2>2, <2>3 DEF SlotOK, RequestOK, TombstoneOK, AdoptsOK, TakenOK, PatchOK
    <2>5. QED
      BY <1>1, <2>1, <2>4 DEF Moves
  <1>5. QED
    BY <1>2, <1>3, <1>4

(* Listings turn their pages.                                              *)
LEMMA PagesMove ==
    ASSUME IInv, NEW s \in Slots, ReadPage(s) \/ TurnPage(s)
    PROVE  Moves(s)
  <1> DEFINE r == req[s]
  <1>1. SlotOK(r) /\ UNCHANGED <<tables, history>> /\ r.pc \in {"page", "turn"}
    BY DEF IInv, ReadPage, TurnPage
  <1>2. /\ DOMAIN r = Fields /\ r.op \in {"list", "walk"}
        /\ r.op = "list" => r.kind \in ScimKinds
    BY <1>1 DEF SlotOK, RequestOK
  <1>3. CASE req' = Answered(s)
    BY <1>1, <1>3, AnswerMoves
  <1>4. CASE req' # Answered(s) /\ TurnPage(s)
    <2> DEFINE q == [r EXCEPT !.pc = "page"]
    <2>1. req' = [req EXCEPT ![s] = q]
      BY <1>4 DEF TurnPage, ListEnds
    <2>2. DOMAIN q = Fields /\ q.op = r.op /\ q.pc = "page" /\ q.kind = r.kind
      BY <1>2 DEF Fields
    <2> HIDE DEF q, r
    <2>3. QED
      BY <1>1, <1>2, <2>1, <2>2, ListOK DEF Moves
  <1>5. CASE req' # Answered(s) /\ ReadPage(s)
    <2> DEFINE page == Page(r.after)
               seen == [r EXCEPT !.found = @ \o page]
               q1 == [seen EXCEPT !.after = Last(page)]
               next == [r EXCEPT !.after = IF page = <<>> THEN @ ELSE Last(page), !.queue =
                          {id \in Range(page) : principal[id].kind = r.kind}]
               q2 == [next EXCEPT !.last = Len(page) < PageLimit]
    <2>1. /\ r.pc = "page"
          /\ IF r.op = "walk"
             THEN IF Len(page) = PageLimit THEN req' = [req EXCEPT ![s] = q1] ELSE ListEnds(s, seen)
             ELSE IF page = <<>> THEN ListEnds(s, r)
             ELSE req' = [req EXCEPT ![s] = NextOfList(q2)]
      BY <1>5, Zenon DEF ReadPage
    <2>2. CASE r.op = "walk"
      <3>1. req' = [req EXCEPT ![s] = q1]
        BY <1>5, <2>1, <2>2 DEF ListEnds
      <3> HIDE DEF page
      <3>2. DOMAIN q1 = Fields /\ q1.op = "walk" /\ q1.pc = "page"
        BY <1>2, <2>1, <2>2 DEF Fields
      <3> HIDE DEF q1, r
      <3>3. QED
        BY <1>1, <3>1, <3>2, ListOK DEF Moves
    <2>3. CASE r.op = "list"
      <3>1. req' = [req EXCEPT ![s] = NextOfList(q2)]
        BY <1>5, <2>1, <2>3 DEF ListEnds
      <3> DEFINE queue == {id \in Range(page) : principal[id].kind = r.kind}
      <3> HIDE DEF page, queue
      <3>2. DOMAIN q2 = Fields /\ q2.op = "list" /\ q2.kind = r.kind
        BY <1>2, <2>3 DEF Fields
      <3> HIDE DEF q2, r
      <3>3. QED
        BY <1>1, <1>2, <2>3, <3>1, <3>2, NextOfListOK DEF Moves
    <2>4. QED
      BY <1>2, <2>2, <2>3
  <1>6. QED
    BY <1>3, <1>4, <1>5

-----------------------------------------------------------------------------
(* Steps that write: what they leave of the requests beside them.          *)

Beside(r, q, id) ==
    /\ DOMAIN q = Fields
    /\ \A x \in Fields \ {"clean", "stable", "taken"} : q[x] = r[x]
    /\ q.clean => r.clean /\ (r.pc # "idle" => r.id # id)
    /\ q.taken => r.taken
    /\ r.op \in {"list", "walk"} => q.stable = r.stable \ {id}

(* A write disturbs the requests on its principal.                         *)
LEMMA DisturbIs ==
    ASSUME NEW f, NEW s, NEW id, NEW key, NEW o \in Slots, o # s, DOMAIN f[o] = Fields
    PROVE  Beside(f[o], Disturb(f, s, id, key)[o], id)
  <1> DEFINE r == f[o]
             mine == r.id = id \/ (r.op = "create" /\ Key(r.resource) = key)
             r1 == IF mine THEN [r EXCEPT !.clean = FALSE] ELSE r
             r2 == IF r.op \in {"list", "walk"} THEN [r1 EXCEPT !.stable = @ \ {id}] ELSE r1
  <1>1. Disturb(f, s, id, key)[o] = IF r = Idle THEN r ELSE r2
    BY DEF Disturb
  <1>2. Idle.pc = "idle" /\ Idle.op = "none"
    BY DEF Idle, Request
  <1> HIDE DEF Idle
  <1>3. CASE r = Idle
    BY <1>1, <1>2, <1>3 DEF Beside
  <1>4. CASE r # Idle
    <2>1. /\ DOMAIN r1 = Fields /\ r1.taken = r.taken /\ (r1.clean => r.clean /\ r.id # id)
          /\ \A x \in Fields \ {"clean"} : r1[x] = r[x]
      BY DEF Fields
    <2> HIDE DEF r1, mine
    <2>2. /\ DOMAIN r2 = Fields /\ r2.clean = r1.clean
          /\ r.op \in {"list", "walk"} => r2.stable = r1.stable \ {id}
          /\ \A x \in Fields \ {"stable"} : r2[x] = r1[x]
      BY <2>1 DEF Fields
    <2> HIDE DEF r2
    <2>3. Beside(r, r2, id)
      BY <2>1, <2>2 DEF Beside, Fields
    <2>4. QED
      BY <1>1, <1>4, <2>3
  <1>5. QED
    BY <1>3, <1>4

(* A deletion tells the creations whose identity was provisioned.          *)
LEMMA EndedIs ==
    ASSUME NEW f, NEW keys, NEW o \in Slots, NEW r, NEW id, Beside(r, f[o], id), Idle.taken = FALSE
    PROVE  /\ Beside(r, Ended(f, keys)[o], id)
           /\ LET q == Ended(f, keys)[o]
              IN  q.op = "create" /\ q.taken => Key(r.resource) \notin keys
  <1>1. Ended(f, keys)[o] =
           IF f[o] # Idle /\ f[o].op = "create" /\ Key(f[o].resource) \in keys
           THEN [f[o] EXCEPT !.taken = FALSE] ELSE f[o]
    BY DEF Ended
  <1> DEFINE y == [f[o] EXCEPT !.taken = FALSE]
  <1>2. /\ DOMAIN y = Fields /\ y.taken = FALSE
        /\ \A x \in Fields \ {"taken"} : y[x] = f[o][x]
    BY DEF Beside, Fields
  <1>3. f[o].resource = r.resource
    BY DEF Beside, Fields
  <1> HIDE DEF y, Idle
  <1>4. QED
    BY <1>1, <1>2, <1>3 DEF Beside, Fields, y

(* A request beside a write stays in order.                                *)
LEMMA BesideOK ==
    ASSUME NEW r, SlotOK(r), NEW q, NEW id, Beside(r, q, id),
           DOMAIN principal \cup removed \subseteq DOMAIN principal' \cup removed',
           r.pc # "idle" => Unmanaged(r.id)' \subseteq Unmanaged(r.id),
           q.op = "create" /\ q.taken =>
              /\ Key(r.resource) \in live'
              /\ identity'[Key(r.resource)].owner = identity[Key(r.resource)].owner,
           r.id # id /\ r.id \in DOMAIN principal =>
              r.id \in DOMAIN principal' /\ principal'[r.id] = principal[r.id]
    PROVE  SlotOK(q)'
  <1>1. /\ q.op = r.op /\ q.pc = r.pc /\ q.id = r.id /\ q.kind = r.kind /\ q.seen = r.seen
        /\ q.resource = r.resource /\ q.patch = r.patch /\ q.entry = r.entry
        /\ DOMAIN q = Fields
        /\ q.clean => r.clean /\ (r.pc # "idle" => r.id # id)
        /\ q.taken => r.taken
    BY DEF Beside, Fields
  <1>2. RequestOK(r) /\ TombstoneOK(r) /\ AdoptsOK(r) /\ TakenOK(r) /\ PatchOK(r)
    BY DEF SlotOK
  <1>3. RequestOK(q)'
    BY <1>1, <1>2 DEF RequestOK
  <1>4. TombstoneOK(q)'
    BY <1>1, <1>2 DEF TombstoneOK
  <1>5. AdoptsOK(q)'
    <2>1. Unmanaged(q.id)' = Unmanaged(r.id)'
      BY <1>1
    <2>2. QED
      BY <1>1, <1>2, <2>1 DEF AdoptsOK
  <1>6. TakenOK(q)'
    BY <1>1, <1>2 DEF TakenOK
  <1>7. PatchOK(q)'
    BY <1>1, <1>2 DEF PatchOK
  <1>8. QED
    BY <1>3, <1>4, <1>5, <1>6, <1>7 DEF SlotOK

(* All requests stay in order when the others are only disturbed.          *)
LEMMA SlotsStay ==
    ASSUME IInv, NEW s, NEW id, DOMAIN req' = Slots,
           s \in Slots => req'[s] = Idle,
           \A o \in Slots : o # s => Beside(req[o], req'[o], id),
           \A o \in Slots : \A p : req[o].pc # "idle" /\ req[o].id = p =>
              Unmanaged(p)' \subseteq Unmanaged(p),
           \A o \in Slots : o # s /\ req'[o].op = "create" /\ req'[o].taken =>
              /\ Key(req[o].resource) \in live'
              /\ identity'[Key(req[o].resource)].owner = identity[Key(req[o].resource)].owner,
           DOMAIN principal \cup removed \subseteq DOMAIN principal' \cup removed',
           \A p \in DOMAIN principal : p # id =>
              p \in DOMAIN principal' /\ principal'[p] = principal[p]
    PROVE  \A o \in Slots : SlotOK(req[o])'
  <1> SUFFICES ASSUME NEW o \in Slots PROVE SlotOK(req[o])'
    OBVIOUS
  <1>1. PICK q : q = req'[o]
    OBVIOUS
  <1>2. SlotOK(q)'
    <2>1. CASE o = s
      <3>1. q = Idle
        BY <1>1, <2>1
      <3>2. /\ q.pc = "idle" /\ q.op = "none" /\ DOMAIN q = Fields
        BY <3>1 DEF Idle, Request, Fields
      <3>3. QED
        BY <3>2 DEF SlotOK, RequestOK, TombstoneOK, AdoptsOK, TakenOK, PatchOK
    <2>2. CASE o # s
      <3>1. SlotOK(req[o])
        BY DEF IInv
      <3>2. PICK r : r = req[o]
        OBVIOUS
      <3>3. /\ SlotOK(r) /\ Beside(r, q, id)
            /\ r.pc # "idle" => Unmanaged(r.id)' \subseteq Unmanaged(r.id)
            /\ q.op = "create" /\ q.taken =>
                  /\ Key(r.resource) \in live'
                  /\ identity'[Key(r.resource)].owner = identity[Key(r.resource)].owner
            /\ r.id # id /\ r.id \in DOMAIN principal =>
                  r.id \in DOMAIN principal' /\ principal'[r.id] = principal[r.id]
        <4>1. SlotOK(r) /\ Beside(r, q, id)
          BY <1>1, <2>2, <3>1, <3>2
        <4>2. r.pc # "idle" => Unmanaged(r.id)' \subseteq Unmanaged(r.id)
          BY <2>2, <3>2
        <4>3. QED
          BY <1>1, <2>2, <3>2, <4>1, <4>2
      <3>4. QED
        BY <3>3, BesideOK
    <2>3. QED
      BY <2>1, <2>2
  <1>3. QED
    BY <1>1, <1>2 DEF SlotOK, RequestOK, TombstoneOK, AdoptsOK, TakenOK, PatchOK, Unmanaged,
       ScimIdentitiesOf, IdentitiesOf

(* What a request is about to write.                                       *)
LEMMA StoredIs ==
    ASSUME NEW r, RequestOK(r), r.pc = "write"
    PROVE  LET w == Stored(r)
           IN  /\ w.row \in PrincipalRow /\ ~w.row.scimDeleted
               /\ Managed(w.claims) \/ w.claims = LoginClaims
               /\ w.key[1] = "scim" =>
                     /\ r.op \in {"create", "replace", "patch"}
                     /\ Managed(w.claims) /\ w.key = Key(r.resource)
               /\ r.op # "materialize" => w.row.active = Enabled(r.resource)
  <1>1. CASE r.op = "materialize"
    <2>1. /\ Stored(r).key = <<"directory", r.entry>> /\ Stored(r).claims = LoginClaims
          /\ Stored(r).row = [kind |-> r.seen.kind, active |-> r.seen.enabled, scimDeleted |-> FALSE]
      BY <1>1 DEF Stored
    <2>2. r.entry \in DOMAIN Directory /\ r.seen = Directory[r.entry]
      BY <1>1 DEF RequestOK
    <2>3. Stored(r).row \in PrincipalRow /\ ~Stored(r).row.scimDeleted
      BY <2>1, <2>2, RegistryAssumption DEF PrincipalRow
    <2>4. QED
      BY <1>1, <2>1, <2>3
  <1>2. CASE r.op # "materialize"
    <2> DEFINE res == r.resource
    <2>1. /\ Stored(r).key = Key(res) /\ Stored(r).claims = ToClaims(res)
          /\ Stored(r).row = [kind |-> res.kind, active |-> Enabled(res), scimDeleted |-> FALSE]
      BY <1>2 DEF Stored, Projection, Key
    <2>2. r.op \in {"create", "replace", "patch"} /\ res.kind \in ScimKinds
      BY <1>2 DEF RequestOK
    <2>3. Managed(ToClaims(res))
      BY <2>2, RegistryAssumption DEF Managed, ToClaims
    <2>4. Enabled(res) \in BOOLEAN
      BY DEF Enabled
    <2> HIDE DEF res
    <2>5. Stored(r).row \in PrincipalRow /\ ~Stored(r).row.scimDeleted
          /\ Stored(r).row.active = Enabled(res)
      BY <2>1, <2>2, <2>4 DEF PrincipalRow
    <2>6. QED
      BY <2>1, <2>2, <2>3, <2>5 DEF res
  <1>3. QED
    BY <1>1, <1>2

(* upsert_with_identity.                                                   *)
LEMMA UpsertKeeps ==
    ASSUME IInv, NEW s \in Slots, Upsert(s)
    PROVE  IInv'
  <1> DEFINE r == req[s]
             w == Stored(r)
             id == r.id
             key == w.key
  <1>1. SlotOK(r) /\ r.pc = "write"
    BY DEF IInv, Upsert
  <1>2. CASE ~BindsTo(key, id)
    BY <1>2, AnswerMoves, MovesKeep DEF Upsert
  <1>3. CASE BindsTo(key, id)
    <2>1. UpsertWithIdentity(s) /\ req' = Disturb(Answered(s), s, id, key)
      BY <1>3 DEF Upsert
    <2>2. /\ w.row \in PrincipalRow /\ ~w.row.scimDeleted
          /\ Managed(w.claims) \/ w.claims = LoginClaims
          /\ key[1] = "scim" => /\ r.op \in {"create", "replace", "patch"}
                                /\ Managed(w.claims) /\ key = Key(r.resource)
          /\ r.op # "materialize" => w.row.active = Enabled(r.resource)
      BY <1>1, StoredIs DEF SlotOK
    <2>3. /\ principal' = With(principal, id, w.row)
          /\ identity' = With(identity, key, [owner |-> id, claims |-> w.claims])
          /\ live' = IF key[1] = "scim" THEN live \cup {key} ELSE live
          /\ removed' = removed
      BY <2>1 DEF UpsertWithIdentity
    <2>4. duplicated' = duplicated
      <3>1. ~(r.op = "create" /\ r.taken)
        BY <1>1 DEF SlotOK, TakenOK
      <3>2. QED
        BY <2>1, <3>1 DEF UpsertWithIdentity
    <2>5. \A e \in revived' : e \in revived \/ e.kind = "GROUP" \/ ~e.clean
      <3> DEFINE revives == /\ id \in DOMAIN principal /\ ~principal[id].active
                            /\ w.row.active /\ ~AsksToEnable(r)
      <3>1. revived' = IF revives THEN revived \cup {[kind |-> r.kind, clean |-> r.clean]} ELSE revived
        BY <2>1 DEF UpsertWithIdentity
      <3>2. ASSUME revives, r.clean, r.kind # "GROUP"
            PROVE  FALSE
        <4>1. r.op = "patch" /\ ~(r.patch.path = "active" /\ r.kind = "USER")
          BY <3>2 DEF AsksToEnable
        <4>2. r.kind = "USER"
          BY <1>1, <3>2, <4>1 DEF SlotOK, RequestOK, ScimKinds
        <4>3. r.resource.kind = "USER" /\ r.resource.active = principal[id].active
          BY <1>1, <3>2, <4>1, <4>2 DEF SlotOK, PatchOK
        <4>4. principal[id].active \in BOOLEAN
          BY <3>2 DEF IInv, TablesOK, PrincipalRow
        <4>5. r.resource.active = FALSE
          BY <3>2, <4>3, <4>4
        <4>6. ~Enabled(r.resource)
          BY <4>3, <4>5 DEF Enabled
        <4>7. QED
          BY <2>2, <3>2, <4>1, <4>6
      <3> DEFINE e0 == [kind |-> r.kind, clean |-> r.clean]
      <3>3. e0.kind = r.kind /\ e0.clean = r.clean
        OBVIOUS
      <3> HIDE DEF revives, e0
      <3>4. QED
        BY <3>1, <3>2, <3>3 DEF e0
    <2> HIDE DEF w, key
    <2>6. /\ DOMAIN principal' = DOMAIN principal \cup {id}
          /\ principal'[id] = w.row
          /\ \A p \in DOMAIN principal : p # id => principal'[p] = principal[p]
      BY <2>3 DEF With
    <2>7. /\ DOMAIN identity' = DOMAIN identity \cup {key}
          /\ identity'[key].owner = id /\ identity'[key].claims = w.claims
          /\ \A k \in DOMAIN identity : k # key => identity'[k] = identity[k]
      BY <2>3 DEF With
    <2>8. key \in DOMAIN identity => identity[key].owner = id
      BY <1>3 DEF BindsTo
    <2> HIDE DEF id, r
    <2>9. \A p : Unmanaged(p)' \subseteq Unmanaged(p) \ {key}
      BY <2>2, <2>7 DEF Unmanaged, ScimIdentitiesOf, IdentitiesOf
    <2>10. \A p : /\ p # id => ScimIdentitiesOf(p)' \subseteq ScimIdentitiesOf(p)
                  /\ ScimIdentitiesOf(p)' \subseteq ScimIdentitiesOf(p) \cup {key}
                  /\ IdentitiesOf(p) \subseteq IdentitiesOf(p)'
      BY <2>7, <2>8 DEF ScimIdentitiesOf, IdentitiesOf
    <2>11. \A p : \A j \in Unmanaged(p)' : \A k \in ScimIdentitiesOf(p)' : j = k
      <3> SUFFICES ASSUME NEW p, NEW j \in Unmanaged(p)', NEW k \in ScimIdentitiesOf(p)'
                   PROVE  j = k
        OBVIOUS
      <3>1. CASE k \in ScimIdentitiesOf(p)
        BY <2>9, <3>1 DEF IInv, TablesOK
      <3>2. CASE k \notin ScimIdentitiesOf(p)
        <4>1. k = key /\ p = id /\ j \in Unmanaged(id) /\ j # key
          BY <2>9, <2>10, <3>2
        <4>2. key[1] = "scim"
          BY <4>1 DEF ScimIdentitiesOf
        <4>3. j = key
          BY <1>1, <2>2, <4>1, <4>2 DEF SlotOK, AdoptsOK, id
        <4>4. QED
          BY <4>1, <4>3
      <3>3. QED
        BY <3>1, <3>2
    <2>12. TablesOK'
      <3>1. \A p \in DOMAIN principal' : principal'[p] \in PrincipalRow
        BY <2>2, <2>6 DEF IInv, TablesOK
      <3>2. \A k \in DOMAIN identity' :
               /\ identity'[k].owner \in DOMAIN principal'
               /\ Managed(identity'[k].claims) \/ identity'[k].claims = LoginClaims
        BY <2>2, <2>6, <2>7 DEF IInv, TablesOK
      <3>3. QED
        BY <2>11, <3>1, <3>2 DEF TablesOK
    <2>13. LiveIsStored'
      <3> SUFFICES ASSUME NEW k \in live'
                   PROVE  /\ k \in DOMAIN identity' /\ k[1] = "scim"
                          /\ Managed(identity'[k].claims)
                          /\ ~principal'[identity'[k].owner].scimDeleted
        BY DEF LiveIsStored
      <3>1. CASE k = key
        <4>1. key[1] = "scim"
          BY <2>3, <3>1 DEF IInv, LiveIsStored
        <4>2. QED
          BY <2>2, <2>6, <2>7, <3>1, <4>1
      <3>2. CASE k # key
        <4>1. k \in live
          BY <2>3, <3>2
        <4>2. /\ k \in DOMAIN identity /\ k[1] = "scim" /\ Managed(identity[k].claims)
              /\ ~principal[identity[k].owner].scimDeleted
              /\ identity[k].owner \in DOMAIN principal
          BY <4>1 DEF IInv, LiveIsStored, TablesOK
        <4>3. QED
          BY <2>2, <2>6, <2>7, <3>2, <4>2
      <3>3. QED
        BY <3>1, <3>2
    <2>14. NoStrayPrincipals'
      <3> SUFFICES ASSUME NEW p \in DOMAIN principal', IdentitiesOf(p)' = {}
                   PROVE  p \in removed'
        BY DEF NoStrayPrincipals
      <3>1. p # id
        BY <2>7 DEF IdentitiesOf
      <3>2. p \in DOMAIN principal /\ IdentitiesOf(p) = {}
        BY <2>6, <2>10, <3>1
      <3>3. QED
        BY <2>3, <3>2 DEF IInv, NoStrayPrincipals
    <2>15. DOMAIN req' = Slots /\ req'[s] = Idle
      <3>1. req' = Disturb(Answered(s), s, id, key)
        BY <2>1 DEF id, r, key, w
      <3>2. DOMAIN req = Slots
        BY DEF IInv
      <3> HIDE DEF Idle
      <3>3. QED
        BY <3>1, <3>2 DEF Disturb, Answered
    <2>16. \A o \in Slots : o # s => Beside(req[o], req'[o], id)
      <3>1. req' = Disturb(Answered(s), s, id, key)
        BY <2>1 DEF id, r, key, w
      <3>2. DOMAIN req = Slots /\ \A o \in Slots : DOMAIN req[o] = Fields
        BY DEF IInv, SlotOK, RequestOK
      <3>3. \A o \in Slots : o # s => Answered(s)[o] = req[o]
        <4> HIDE DEF Idle
        <4>1. QED
          BY <3>2 DEF Answered
      <3>4. QED
        BY <3>1, <3>2, <3>3, DisturbIs
    <2>17. \A o \in Slots : o # s /\ req'[o].op = "create" /\ req'[o].taken =>
              /\ Key(req[o].resource) \in live'
              /\ identity'[Key(req[o].resource)].owner = identity[Key(req[o].resource)].owner
      <3> SUFFICES ASSUME NEW o \in Slots, o # s, req'[o].op = "create", req'[o].taken
                   PROVE  /\ Key(req[o].resource) \in live'
                          /\ identity'[Key(req[o].resource)].owner = identity[Key(req[o].resource)].owner
        OBVIOUS
      <3>1. req[o].op = "create" /\ req[o].taken
        BY <2>16 DEF Beside, Fields
      <3>2. Key(req[o].resource) \in live
        BY <3>1 DEF IInv, SlotOK, TakenOK
      <3> DEFINE x == Key(req[o].resource)
      <3> HIDE DEF x
      <3>3. x \in DOMAIN identity
        BY <3>2 DEF IInv, LiveIsStored, x
      <3>4. x \in live' /\ identity'[x].owner = identity[x].owner
        BY <2>3, <2>7, <2>8, <3>2, <3>3 DEF x
      <3>5. QED
        BY <3>4 DEF x
    <2>18. \A o \in Slots : SlotOK(req[o])'
      <3>1. DOMAIN principal \cup removed \subseteq DOMAIN principal' \cup removed'
        BY <2>3, <2>6
      <3>2. \A p \in DOMAIN principal : p # id =>
               p \in DOMAIN principal' /\ principal'[p] = principal[p]
        BY <2>6
      <3>3. \A o \in Slots : \A p : req[o].pc # "idle" /\ req[o].id = p =>
               Unmanaged(p)' \subseteq Unmanaged(p)
        BY <2>9
      <3>4. QED
        BY <2>15, <2>16, <2>17, <3>1, <3>2, <3>3, SlotsStay, Zenon
    <2>19. NoDuplicateCreation' /\ UndisturbedPatchKeepsStatus'
      BY <2>4, <2>5 DEF IInv, NoDuplicateCreation, UndisturbedPatchKeepsStatus
    <2>20. QED
      BY <2>12, <2>13, <2>14, <2>15, <2>18, <2>19 DEF IInv
  <1>4. QED
    BY <1>2, <1>3

(* What a write leaves of the requests, whether it ends that of slot s or  *)
(* comes from elsewhere.                                                   *)
LEMMA WriteIsBeside ==
    ASSUME IInv, NEW s, NEW id, NEW key, NEW keys, NEW f,
           (s \notin Slots /\ f = req) \/ (s \in Slots /\ f = Answered(s)),
           req' = Disturb(f, s, id, key) \/ req' = Ended(Disturb(f, s, id, key), keys)
    PROVE  /\ DOMAIN req' = Slots
           /\ s \in Slots => req'[s] = Idle
           /\ \A o \in Slots : o # s =>
                 /\ Beside(req[o], req'[o], id)
                 /\ req' = Ended(Disturb(f, s, id, key), keys)
                    /\ req'[o].op = "create" /\ req'[o].taken => Key(req[o].resource) \notin keys
  <1> DEFINE g == Disturb(f, s, id, key)
  <1>1. DOMAIN req = Slots /\ \A o \in Slots : DOMAIN req[o] = Fields
    BY DEF IInv, SlotOK, RequestOK
  <1>2. Idle.taken = FALSE
    BY DEF Idle, Request
  <1> HIDE DEF Idle
  <1>3. DOMAIN req' = Slots
    BY DEF Disturb, Ended
  <1>4. ASSUME s \in Slots
        PROVE  req'[s] = Idle
    <2>1. f[s] = Idle
      BY <1>1, <1>4 DEF Answered
    <2>2. g[s] = Idle
      BY <1>4, <2>1 DEF Disturb
    <2> HIDE DEF g
    <2>3. Ended(g, keys)[s] = Idle
      BY <1>4, <2>2 DEF Ended
    <2>4. QED
      BY <2>2, <2>3 DEF g
  <1>5. ASSUME NEW o \in Slots, o # s
        PROVE  /\ Beside(req[o], req'[o], id)
               /\ req' = Ended(g, keys)
                  /\ req'[o].op = "create" /\ req'[o].taken => Key(req[o].resource) \notin keys
    <2>1. f[o] = req[o]
      BY <1>1, <1>5 DEF Answered
    <2>2. Beside(req[o], g[o], id)
      BY <1>1, <1>5, <2>1, DisturbIs
    <2> HIDE DEF g
    <2>3. /\ Beside(req[o], Ended(g, keys)[o], id)
          /\ Ended(g, keys)[o].op = "create" /\ Ended(g, keys)[o].taken =>
                Key(req[o].resource) \notin keys
      BY <1>2, <2>2, EndedIs
    <2>4. req'[o] = g[o] \/ req'[o] = Ended(g, keys)[o]
      BY DEF g
    <2>5. QED
      BY <2>2, <2>3, <2>4
  <1>6. QED
    BY <1>3, <1>4, <1>5

(* delete_scim writes the tombstone.                                       *)
LEMMA StoreTombstoneKeeps ==
    ASSUME IInv, NEW s \in Slots, StoreTombstone(s)
    PROVE  IInv'
  <1> DEFINE id == req[s].id
             row == Tombstone(req[s].seen)
             keys == IdentitiesOf(id)
  <1>1. SlotOK(req[s]) /\ req[s].pc = "tombstone"
    BY DEF IInv, StoreTombstone
  <1>2. id \in DOMAIN principal \cup removed /\ req[s].seen \in PrincipalRow
    BY <1>1 DEF SlotOK, RequestOK, TombstoneOK
  <1>3. row \in PrincipalRow
    BY <1>2 DEF Tombstone, PrincipalRow
  <1>4. /\ principal' = With(principal, id, row)
        /\ live' = live \ keys
        /\ req' = Ended(Disturb(Answered(s), s, id, Nil), keys)
        /\ UNCHANGED <<identity, removed, revived, duplicated>>
    BY DEF StoreTombstone
  <1> HIDE DEF row
  <1>5. /\ DOMAIN principal' = DOMAIN principal \cup {id}
        /\ principal'[id] = row
        /\ \A p \in DOMAIN principal : p # id => principal'[p] = principal[p]
    BY <1>4 DEF With
  <1>6. \A p : /\ IdentitiesOf(p)' = IdentitiesOf(p)
               /\ ScimIdentitiesOf(p)' = ScimIdentitiesOf(p)
               /\ Unmanaged(p)' = Unmanaged(p)
    BY <1>4 DEF Unmanaged, ScimIdentitiesOf, IdentitiesOf
  <1>7. \A k \in DOMAIN identity : identity[k].owner = id => k \in keys
    BY DEF IdentitiesOf
  <1> HIDE DEF id, keys
  <1>8. TablesOK'
    BY <1>3, <1>4, <1>5, <1>6 DEF IInv, TablesOK
  <1>9. LiveIsStored'
    BY <1>4, <1>5, <1>7 DEF IInv, LiveIsStored, TablesOK
  <1>10. NoStrayPrincipals'
    BY <1>2, <1>4, <1>5, <1>6 DEF IInv, NoStrayPrincipals
  <1>11. NoDuplicateCreation' /\ UndisturbedPatchKeepsStatus'
    BY <1>4 DEF IInv, NoDuplicateCreation, UndisturbedPatchKeepsStatus
  <1>12. /\ DOMAIN req' = Slots
         /\ req'[s] = Idle
         /\ \A o \in Slots : o # s => Beside(req[o], req'[o], id)
         /\ \A o \in Slots : o # s /\ req'[o].op = "create" /\ req'[o].taken =>
               Key(req[o].resource) \notin keys
    BY <1>4, WriteIsBeside
  <1>13. \A o \in Slots : o # s /\ req'[o].op = "create" /\ req'[o].taken =>
            /\ Key(req[o].resource) \in live'
            /\ identity'[Key(req[o].resource)].owner = identity[Key(req[o].resource)].owner
    <2> SUFFICES ASSUME NEW o \in Slots, o # s, req'[o].op = "create", req'[o].taken
                 PROVE  Key(req[o].resource) \in live'
      BY <1>4
    <2>1. req[o].op = "create" /\ req[o].taken
      BY <1>12 DEF Beside, Fields
    <2>2. Key(req[o].resource) \in live
      BY <2>1 DEF IInv, SlotOK, TakenOK
    <2>3. QED
      BY <1>4, <1>12, <2>2
  <1>14. \A o \in Slots : SlotOK(req[o])'
    <2>1. DOMAIN principal \cup removed \subseteq DOMAIN principal' \cup removed'
      BY <1>4, <1>5
    <2>2. \A p \in DOMAIN principal : p # id =>
             p \in DOMAIN principal' /\ principal'[p] = principal[p]
      BY <1>5
    <2>3. \A o \in Slots : \A p : req[o].pc # "idle" /\ req[o].id = p =>
             Unmanaged(p)' \subseteq Unmanaged(p)
      BY <1>6
    <2>4. QED
      BY <1>12, <1>13, <2>1, <2>2, <2>3, SlotsStay, Zenon
  <1>15. QED
    BY <1>8, <1>9, <1>10, <1>11, <1>12, <1>14 DEF IInv

(* An administrator changes a status.                                      *)
LEMMA UpdateStatusKeeps ==
    ASSUME IInv, NEW id, NEW active \in BOOLEAN, UpdateStatus(id, active)
    PROVE  IInv'
  <1>1. /\ id \in DOMAIN principal
        /\ principal' = [principal EXCEPT ![id].active = active]
        /\ req' = Disturb(req, Nil, id, Nil)
        /\ UNCHANGED <<identity, removed, live, revived, duplicated>>
    BY DEF UpdateStatus, history
  <1>2. principal[id] \in PrincipalRow
    BY <1>1 DEF IInv, TablesOK
  <1>3. /\ DOMAIN principal' = DOMAIN principal
        /\ principal'[id] \in PrincipalRow /\ principal'[id].scimDeleted = principal[id].scimDeleted
        /\ \A p \in DOMAIN principal : p # id => principal'[p] = principal[p]
    BY <1>1, <1>2 DEF PrincipalRow
  <1>4. \A p : /\ IdentitiesOf(p)' = IdentitiesOf(p)
               /\ ScimIdentitiesOf(p)' = ScimIdentitiesOf(p)
               /\ Unmanaged(p)' = Unmanaged(p)
    BY <1>1 DEF Unmanaged, ScimIdentitiesOf, IdentitiesOf
  <1>5. TablesOK'
    BY <1>1, <1>3, <1>4 DEF IInv, TablesOK
  <1>6. LiveIsStored'
    BY <1>1, <1>3 DEF IInv, LiveIsStored, TablesOK
  <1>7. NoStrayPrincipals'
    BY <1>1, <1>3, <1>4 DEF IInv, NoStrayPrincipals
  <1>8. NoDuplicateCreation' /\ UndisturbedPatchKeepsStatus'
    BY <1>1 DEF IInv, NoDuplicateCreation, UndisturbedPatchKeepsStatus
  <1>9. Nil \notin Slots
    BY RegistryAssumption
  <1>10. /\ DOMAIN req' = Slots
         /\ \A o \in Slots : o # Nil => Beside(req[o], req'[o], id)
    BY <1>1, <1>9, WriteIsBeside
  <1>11. \A o \in Slots : o # Nil /\ req'[o].op = "create" /\ req'[o].taken =>
            /\ Key(req[o].resource) \in live'
            /\ identity'[Key(req[o].resource)].owner = identity[Key(req[o].resource)].owner
    <2> SUFFICES ASSUME NEW o \in Slots, o # Nil, req'[o].op = "create", req'[o].taken
                 PROVE  Key(req[o].resource) \in live'
      BY <1>1
    <2>1. req[o].op = "create" /\ req[o].taken
      BY <1>10 DEF Beside, Fields
    <2>2. QED
      BY <1>1, <2>1 DEF IInv, SlotOK, TakenOK
  <1>12. \A o \in Slots : SlotOK(req[o])'
    <2>1. DOMAIN principal \cup removed \subseteq DOMAIN principal' \cup removed'
      BY <1>1, <1>3
    <2>2. \A p \in DOMAIN principal : p # id =>
             p \in DOMAIN principal' /\ principal'[p] = principal[p]
      BY <1>3
    <2>3. \A o \in Slots : \A p : req[o].pc # "idle" /\ req[o].id = p =>
             Unmanaged(p)' \subseteq Unmanaged(p)
      BY <1>4
    <2>4. Nil \in Slots => req'[Nil] = Idle
      BY <1>9
    <2>5. QED
      BY <1>10, <1>11, <2>1, <2>2, <2>3, <2>4, SlotsStay, Zenon
  <1>13. QED
    BY <1>5, <1>6, <1>7, <1>8, <1>10, <1>12 DEF IInv

(* An administrator deletes a principal.                                   *)
LEMMA DeletePrincipalKeeps ==
    ASSUME IInv, NEW id, DeletePrincipal(id)
    PROVE  IInv'
  <1> DEFINE keys == IdentitiesOf(id)
  <1>1. /\ id \in DOMAIN principal
        /\ principal' = Restrict(principal, DOMAIN principal \ {id})
        /\ identity' = Restrict(identity, DOMAIN identity \ keys)
        /\ removed' = removed \cup {id}
        /\ live' = live \ keys
        /\ req' = Ended(Disturb(req, Nil, id, Nil), keys)
        /\ UNCHANGED <<revived, duplicated>>
    BY DEF DeletePrincipal
  <1>2. \A k \in DOMAIN identity : identity[k].owner = id <=> k \in keys
    BY DEF IdentitiesOf
  <1> HIDE DEF keys
  <1>3. /\ DOMAIN principal' = DOMAIN principal \ {id}
        /\ \A p \in DOMAIN principal : p # id => principal'[p] = principal[p]
    BY <1>1 DEF Restrict
  <1>4. /\ DOMAIN identity' = DOMAIN identity \ keys
        /\ \A k \in DOMAIN identity' : identity'[k] = identity[k]
    BY <1>1 DEF Restrict
  <1>5. \A p : /\ p # id => IdentitiesOf(p)' = IdentitiesOf(p)
               /\ ScimIdentitiesOf(p)' \subseteq ScimIdentitiesOf(p)
               /\ Unmanaged(p)' \subseteq Unmanaged(p)
    <2> SUFFICES ASSUME NEW p
                 PROVE  /\ p # id => IdentitiesOf(p)' = IdentitiesOf(p)
                        /\ ScimIdentitiesOf(p)' \subseteq ScimIdentitiesOf(p)
                        /\ Unmanaged(p)' \subseteq Unmanaged(p)
      OBVIOUS
    <2>1. p # id => IdentitiesOf(p)' = IdentitiesOf(p)
      BY <1>2, <1>4 DEF IdentitiesOf
    <2>2. QED
      BY <1>4, <2>1 DEF Unmanaged, ScimIdentitiesOf, IdentitiesOf
  <1>6. TablesOK'
    <2>1. \A p \in DOMAIN principal' : principal'[p] \in PrincipalRow
      BY <1>3 DEF IInv, TablesOK
    <2>2. \A k \in DOMAIN identity' :
             /\ identity'[k].owner \in DOMAIN principal'
             /\ Managed(identity'[k].claims) \/ identity'[k].claims = LoginClaims
      BY <1>2, <1>3, <1>4 DEF IInv, TablesOK
    <2>3. \A p : \A j \in Unmanaged(p)' : \A k \in ScimIdentitiesOf(p)' : j = k
      BY <1>5 DEF IInv, TablesOK
    <2>4. QED
      BY <2>1, <2>2, <2>3 DEF TablesOK
  <1>7. LiveIsStored'
    <2> SUFFICES ASSUME NEW k \in live'
                 PROVE  /\ k \in DOMAIN identity' /\ k[1] = "scim"
                        /\ Managed(identity'[k].claims)
                        /\ ~principal'[identity'[k].owner].scimDeleted
      BY DEF LiveIsStored
    <2>1. /\ k \in DOMAIN identity /\ k \notin keys /\ k[1] = "scim"
          /\ Managed(identity[k].claims) /\ ~principal[identity[k].owner].scimDeleted
          /\ identity[k].owner \in DOMAIN principal
      BY <1>1 DEF IInv, LiveIsStored, TablesOK
    <2>2. QED
      BY <1>2, <1>3, <1>4, <2>1
  <1>8. NoStrayPrincipals'
    BY <1>1, <1>3, <1>5 DEF IInv, NoStrayPrincipals
  <1>9. NoDuplicateCreation' /\ UndisturbedPatchKeepsStatus'
    BY <1>1 DEF IInv, NoDuplicateCreation, UndisturbedPatchKeepsStatus
  <1>10. Nil \notin Slots
    BY RegistryAssumption
  <1>11. /\ DOMAIN req' = Slots
         /\ \A o \in Slots : o # Nil => Beside(req[o], req'[o], id)
         /\ \A o \in Slots : o # Nil /\ req'[o].op = "create" /\ req'[o].taken =>
               Key(req[o].resource) \notin keys
    BY <1>1, <1>10, WriteIsBeside
  <1>12. \A o \in Slots : o # Nil /\ req'[o].op = "create" /\ req'[o].taken =>
            /\ Key(req[o].resource) \in live'
            /\ identity'[Key(req[o].resource)].owner = identity[Key(req[o].resource)].owner
    <2> SUFFICES ASSUME NEW o \in Slots, o # Nil, req'[o].op = "create", req'[o].taken
                 PROVE  /\ Key(req[o].resource) \in live'
                        /\ identity'[Key(req[o].resource)].owner = identity[Key(req[o].resource)].owner
      OBVIOUS
    <2>1. req[o].op = "create" /\ req[o].taken
      BY <1>11 DEF Beside, Fields
    <2> DEFINE x == Key(req[o].resource)
    <2>2. x \in live /\ x \notin keys
      BY <1>11, <2>1 DEF IInv, SlotOK, TakenOK
    <2> HIDE DEF x
    <2>3. x \in DOMAIN identity
      BY <2>2 DEF IInv, LiveIsStored
    <2>4. x \in live' /\ identity'[x].owner = identity[x].owner
      BY <1>1, <1>4, <2>2, <2>3
    <2>5. QED
      BY <2>4 DEF x
  <1>13. \A o \in Slots : SlotOK(req[o])'
    <2>1. DOMAIN principal \cup removed \subseteq DOMAIN principal' \cup removed'
      BY <1>1, <1>3
    <2>2. \A p \in DOMAIN principal : p # id =>
             p \in DOMAIN principal' /\ principal'[p] = principal[p]
      BY <1>3
    <2>3. \A o \in Slots : \A p : req[o].pc # "idle" /\ req[o].id = p =>
             Unmanaged(p)' \subseteq Unmanaged(p)
      BY <1>5
    <2>4. Nil \in Slots => req'[Nil] = Idle
      BY <1>10
    <2>5. QED
      BY <1>11, <1>12, <2>1, <2>2, <2>3, <2>4, SlotsStay, Zenon
  <1>14. QED
    BY <1>6, <1>7, <1>8, <1>9, <1>11, <1>13 DEF IInv

(* A first login creates its principal.                                    *)
LEMMA LoginKeeps ==
    ASSUME IInv, NEW id, NEW e, Login(id, e)
    PROVE  IInv'
  <1> DEFINE key == <<"scim", e>>
             row == [kind |-> "USER", active |-> TRUE, scimDeleted |-> FALSE]
  <1>1. /\ id \in Fresh
        /\ key \notin DOMAIN identity
        /\ principal' = With(principal, id, row)
        /\ identity' = With(identity, key, [owner |-> id, claims |-> LoginClaims])
        /\ req' = Disturb(req, Nil, id, key)
        /\ UNCHANGED <<removed, live, revived, duplicated>>
    BY DEF Login, history
  <1>2. row \in PrincipalRow /\ key[1] = "scim"
    BY DEF PrincipalRow, ScimKinds
  <1>3. id \notin DOMAIN principal /\ \A o \in Slots : req[o] # Idle => req[o].id # id
    BY <1>1 DEF Fresh
  <1> HIDE DEF key, row
  <1>4. /\ DOMAIN principal' = DOMAIN principal \cup {id}
        /\ principal'[id] = row
        /\ \A p \in DOMAIN principal : p # id => principal'[p] = principal[p]
    BY <1>1 DEF With
  <1>5. /\ DOMAIN identity' = DOMAIN identity \cup {key}
        /\ identity'[key].owner = id /\ identity'[key].claims = LoginClaims
        /\ \A k \in DOMAIN identity : identity'[k] = identity[k]
    BY <1>1 DEF With
  <1>6. IdentitiesOf(id)' = {key}
    BY <1>3, <1>5 DEF IInv, TablesOK, IdentitiesOf
  <1>7. \A p : p # id => /\ IdentitiesOf(p)' = IdentitiesOf(p)
                         /\ ScimIdentitiesOf(p)' = ScimIdentitiesOf(p)
                         /\ Unmanaged(p)' = Unmanaged(p)
    <2> SUFFICES ASSUME NEW p, p # id
                 PROVE  /\ IdentitiesOf(p)' = IdentitiesOf(p)
                        /\ ScimIdentitiesOf(p)' = ScimIdentitiesOf(p)
                        /\ Unmanaged(p)' = Unmanaged(p)
      OBVIOUS
    <2>1. IdentitiesOf(p)' = IdentitiesOf(p)
      BY <1>1, <1>5 DEF IdentitiesOf
    <2>2. ScimIdentitiesOf(p)' = ScimIdentitiesOf(p)
      BY <2>1 DEF ScimIdentitiesOf
    <2>3. \A k \in ScimIdentitiesOf(p) : identity'[k] = identity[k]
      BY <1>5 DEF ScimIdentitiesOf, IdentitiesOf
    <2>4. QED
      BY <2>1, <2>2, <2>3 DEF Unmanaged
  <1>8. TablesOK'
    <2>1. \A p \in DOMAIN principal' : principal'[p] \in PrincipalRow
      BY <1>2, <1>4 DEF IInv, TablesOK
    <2>2. \A k \in DOMAIN identity' :
             /\ identity'[k].owner \in DOMAIN principal'
             /\ Managed(identity'[k].claims) \/ identity'[k].claims = LoginClaims
      BY <1>4, <1>5 DEF IInv, TablesOK
    <2>3. \A j \in Unmanaged(id)' : \A k \in ScimIdentitiesOf(id)' : j = k
      BY <1>6 DEF Unmanaged, ScimIdentitiesOf
    <2>4. \A p : \A j \in Unmanaged(p)' : \A k \in ScimIdentitiesOf(p)' : j = k
      BY <1>7, <2>3 DEF IInv, TablesOK
    <2>5. QED
      BY <2>1, <2>2, <2>4 DEF TablesOK
  <1>9. LiveIsStored'
    <2> SUFFICES ASSUME NEW k \in live'
                 PROVE  /\ k \in DOMAIN identity' /\ k[1] = "scim"
                        /\ Managed(identity'[k].claims)
                        /\ ~principal'[identity'[k].owner].scimDeleted
      BY DEF LiveIsStored
    <2>1. /\ k \in DOMAIN identity /\ k[1] = "scim"
          /\ Managed(identity[k].claims) /\ ~principal[identity[k].owner].scimDeleted
          /\ identity[k].owner \in DOMAIN principal
      BY <1>1 DEF IInv, LiveIsStored, TablesOK
    <2>2. QED
      BY <1>3, <1>4, <1>5, <2>1
  <1>10. NoStrayPrincipals'
    BY <1>1, <1>4, <1>6, <1>7 DEF IInv, NoStrayPrincipals
  <1>11. NoDuplicateCreation' /\ UndisturbedPatchKeepsStatus'
    BY <1>1 DEF IInv, NoDuplicateCreation, UndisturbedPatchKeepsStatus
  <1>12. Nil \notin Slots
    BY RegistryAssumption
  <1>13. /\ DOMAIN req' = Slots
         /\ \A o \in Slots : o # Nil => Beside(req[o], req'[o], id)
    BY <1>1, <1>12, WriteIsBeside
  <1>14. \A o \in Slots : o # Nil /\ req'[o].op = "create" /\ req'[o].taken =>
            /\ Key(req[o].resource) \in live'
            /\ identity'[Key(req[o].resource)].owner = identity[Key(req[o].resource)].owner
    <2> SUFFICES ASSUME NEW o \in Slots, o # Nil, req'[o].op = "create", req'[o].taken
                 PROVE  /\ Key(req[o].resource) \in live'
                        /\ identity'[Key(req[o].resource)].owner = identity[Key(req[o].resource)].owner
      OBVIOUS
    <2>1. req[o].op = "create" /\ req[o].taken
      BY <1>13 DEF Beside, Fields
    <2> DEFINE x == Key(req[o].resource)
    <2>2. x \in live
      BY <2>1 DEF IInv, SlotOK, TakenOK
    <2> HIDE DEF x
    <2>3. x \in DOMAIN identity
      BY <2>2 DEF IInv, LiveIsStored
    <2>4. x \in live' /\ identity'[x].owner = identity[x].owner
      BY <1>1, <1>5, <2>2, <2>3
    <2>5. QED
      BY <2>4 DEF x
  <1>15. \A o \in Slots : SlotOK(req[o])'
    <2>1. DOMAIN principal \cup removed \subseteq DOMAIN principal' \cup removed'
      BY <1>1, <1>4
    <2>2. \A p \in DOMAIN principal : p # id =>
             p \in DOMAIN principal' /\ principal'[p] = principal[p]
      BY <1>4
    <2>3. \A o \in Slots : \A p : req[o].pc # "idle" /\ req[o].id = p =>
             Unmanaged(p)' \subseteq Unmanaged(p)
      <3>1. Idle.pc = "idle"
        BY DEF Idle, Request
      <3> HIDE DEF Idle
      <3>2. QED
        BY <1>3, <1>7, <3>1
    <2>4. Nil \in Slots => req'[Nil] = Idle
      BY <1>12
    <2>5. QED
      BY <1>13, <1>14, <2>1, <2>2, <2>3, <2>4, SlotsStay, Zenon
  <1>16. QED
    BY <1>8, <1>9, <1>10, <1>11, <1>13, <1>15 DEF IInv

-----------------------------------------------------------------------------
(* The invariant holds in every reachable state.                           *)

(* The tables requests find are in order.                                  *)
LEMMA InitIInv == Init => IInv
  <1> SUFFICES ASSUME Init PROVE IInv
    OBVIOUS
  <1>1. PICK seed \in Seeds :
           /\ principal = seed.principal
           /\ identity = seed.identity
           /\ live = {k \in DOMAIN seed.identity :
                        /\ Managed(seed.identity[k].claims)
                        /\ ~seed.principal[seed.identity[k].owner].scimDeleted}
    BY DEF Init
  <1>2. /\ req = [s \in Slots |-> Idle] /\ removed = {} /\ revived = {} /\ duplicated = {}
    BY DEF Init
  <1>3. /\ \A id \in DOMAIN principal :
              /\ principal[id] \in PrincipalRow
              /\ \E k \in DOMAIN identity : identity[k].owner = id
        /\ DOMAIN identity \subseteq Keys
        /\ \A k \in DOMAIN identity :
              /\ identity[k].owner \in DOMAIN principal
              /\ k[1] = "directory" => identity[k].claims = LoginClaims
              /\ Managed(identity[k].claims) \/ identity[k].claims = LoginClaims
        /\ \A j, k \in DOMAIN identity :
              /\ j[1] = "scim" /\ k[1] = "scim" /\ j # k
              /\ identity[j].owner = identity[k].owner
              => Managed(identity[j].claims)
    BY <1>1, SeedsAssumption
  <1>4. TablesOK
    <2>1. \A id : \A j \in Unmanaged(id) : \A k \in ScimIdentitiesOf(id) : j = k
      BY <1>3 DEF Unmanaged, ScimIdentitiesOf, IdentitiesOf
    <2>2. QED
      BY <1>3, <2>1 DEF TablesOK
  <1>5. ~Managed(LoginClaims)
    BY RegistryAssumption DEF Managed, LoginClaims
  <1>6. LiveIsStored
    <2> SUFFICES ASSUME NEW k \in live
                 PROVE  /\ k \in DOMAIN identity /\ k[1] = "scim"
                        /\ Managed(identity[k].claims)
                        /\ ~principal[identity[k].owner].scimDeleted
      BY DEF LiveIsStored
    <2>1. /\ k \in DOMAIN identity /\ Managed(identity[k].claims)
          /\ ~principal[identity[k].owner].scimDeleted
      BY <1>1
    <2>2. k[1] \in Providers
      BY <1>3, <2>1 DEF Keys
    <2>3. QED
      BY <1>3, <1>5, <2>1, <2>2 DEF Providers
  <1>7. NoStrayPrincipals
    BY <1>3 DEF NoStrayPrincipals, IdentitiesOf
  <1>8. NoDuplicateCreation /\ UndisturbedPatchKeepsStatus
    BY <1>2 DEF NoDuplicateCreation, UndisturbedPatchKeepsStatus
  <1>9. DOMAIN req = Slots /\ \A s \in Slots : SlotOK(req[s])
    <2> HIDE DEF Idle
    <2>1. QED
      BY <1>2, IdleOK
  <1>10. QED
    BY <1>4, <1>6, <1>7, <1>8, <1>9 DEF IInv

(* Every step keeps it.                                                    *)
LEMMA NextIInv == IInv /\ [Next]_vars => IInv'
  <1> SUFFICES ASSUME IInv, [Next]_vars PROVE IInv'
    OBVIOUS
  <1>1. CASE UNCHANGED vars
    <2>1. /\ UNCHANGED <<principal, identity, req, removed, live, revived, duplicated>>
      BY <1>1 DEF vars, tables, history
    <2>2. \A id : IdentitiesOf(id)' = IdentitiesOf(id) /\ ScimIdentitiesOf(id)' = ScimIdentitiesOf(id)
      BY <2>1 DEF IdentitiesOf, ScimIdentitiesOf
    <2>3. \A id : Unmanaged(id)' = Unmanaged(id)
      BY <2>1, <2>2 DEF Unmanaged
    <2>4. TablesOK' /\ LiveIsStored' /\ NoStrayPrincipals'
      BY <2>1, <2>2, <2>3 DEF IInv, TablesOK, LiveIsStored, NoStrayPrincipals
    <2>5. \A o \in Slots : SlotOK(req[o])'
      <3>1. \A o \in Slots : SlotOK(req[o])
        BY DEF IInv
      <3>2. QED
        BY <2>1, <3>1 DEF SlotOK, RequestOK, TombstoneOK, AdoptsOK, TakenOK, PatchOK,
           Unmanaged, ScimIdentitiesOf, IdentitiesOf
    <2>6. QED
      BY <2>1, <2>4, <2>5 DEF IInv, NoDuplicateCreation, UndisturbedPatchKeepsStatus
  <1>2. ASSUME NEW s \in Slots,
               \/ CreateBegins(s) \/ ReplaceBegins(s) \/ PatchBegins(s) \/ DeleteBegins(s)
               \/ ListBegins(s) \/ MaterializeBegins(s)
        PROVE  IInv'
    BY <1>2, BeginMoves, MovesKeep
  <1>3. ASSUME NEW s \in Slots,
               \/ GetPrincipal(s) \/ GetIdentity(s) \/ FindByIdentity(s) \/ CheckManaged(s)
               \/ FetchForDeletion(s) \/ Resolve(s) \/ ReadPage(s) \/ TurnPage(s)
        PROVE  IInv'
    BY <1>3, GetPrincipalMoves, GetIdentityMoves, FindByIdentityMoves, CheckManagedMoves,
       FetchMoves, PagesMove, MovesKeep
  <1>4. ASSUME NEW s \in Slots, Upsert(s) \/ StoreTombstone(s)
        PROVE  IInv'
    BY <1>4, UpsertKeeps, StoreTombstoneKeeps
  <1>5. ASSUME NEW id \in Ids,
               \/ \E active \in BOOLEAN : UpdateStatus(id, active)
               \/ DeletePrincipal(id)
               \/ \E e \in Externals : Login(id, e)
        PROVE  IInv'
    BY <1>5, UpdateStatusKeeps, DeletePrincipalKeeps, LoginKeeps
  <1>6. QED
    BY <1>1, <1>2, <1>3, <1>4, <1>5 DEF Next

(* The tables, the requests in hand and what they are about to write stay  *)
(* in order for any number of overlapping requests.                        *)
THEOREM InductiveInvariant == Spec => []IInv
  BY InitIInv, NextIInv, PTL DEF Spec

(* No request that fails half way leaves a principal without an identity:  *)
(* upsert_with_identity writes both rows or none.                          *)
THEOREM NeverStrayPrincipals == Spec => []NoStrayPrincipals
  <1>1. IInv => NoStrayPrincipals
    BY DEF IInv
  <1>2. QED
    BY <1>1, InductiveInvariant, PTL

(* provision_scim never creates a second time what stays provisioned, even *)
(* when other requests run between its look-ups and its write.             *)
THEOREM NeverDuplicateCreation == Spec => []NoDuplicateCreation
  <1>1. IInv => NoDuplicateCreation
    BY DEF IInv
  <1>2. QED
    BY <1>1, InductiveInvariant, PTL

(* A PATCH nobody disturbs leaves a disabled User disabled: its status     *)
(* survives restore_resource, apply_patch and the projection.              *)
THEOREM UndisturbedPatchAlwaysKeepsStatus == Spec => []UndisturbedPatchKeepsStatus
  <1>1. IInv => UndisturbedPatchKeepsStatus
    BY DEF IInv
  <1>2. QED
    BY <1>1, InductiveInvariant, PTL

(* No step moves an identity from a principal that still exists to another *)
(* one: the upsert's WHERE, and logins that only insert.                   *)
THEOREM IdentityOwnersAreAlwaysStable == Spec => IdentityOwnersAreStable
  <1> DEFINE Stable ==
               \A k \in DOMAIN identity \cap DOMAIN identity' :
                  identity[k].owner \in DOMAIN principal' => identity'[k].owner = identity[k].owner
  <1>1. ASSUME UNCHANGED identity PROVE Stable
    BY <1>1
  <1>2. ASSUME NEW s \in Slots, Upsert(s) PROVE Stable
    <2> DEFINE w == Stored(req[s])
               id == req[s].id
    <2>1. CASE ~BindsTo(w.key, id)
      BY <1>1, <1>2, <2>1 DEF Upsert, tables
    <2>2. CASE BindsTo(w.key, id)
      <3>1. identity' = With(identity, w.key, [owner |-> id, claims |-> w.claims])
        BY <1>2, <2>2 DEF Upsert, UpsertWithIdentity
      <3>2. w.key \in DOMAIN identity => identity[w.key].owner = id
        BY <2>2 DEF BindsTo
      <3> HIDE DEF w, id
      <3>3. QED
        BY <3>1, <3>2 DEF With
    <2>3. QED
      BY <2>1, <2>2
  <1>3. ASSUME NEW id, DeletePrincipal(id) PROVE Stable
    BY <1>3 DEF DeletePrincipal, Restrict
  <1>4. ASSUME NEW id, NEW e, Login(id, e) PROVE Stable
    BY <1>4 DEF Login, With
  <1>5. [Next]_vars => [Stable]_vars
    <2> SUFFICES ASSUME Next, ~UNCHANGED identity PROVE Stable
      BY <1>1 DEF vars, tables
    <2>1. \/ \E s \in Slots : Upsert(s)
          \/ \E id \in Ids : DeletePrincipal(id) \/ \E e \in Externals : Login(id, e)
      BY DEF Next, CreateBegins, ReplaceBegins, PatchBegins, DeleteBegins, ListBegins,
         MaterializeBegins, Begin, GetPrincipal, GetIdentity, FindByIdentity, CheckManaged,
         FetchForDeletion, StoreTombstone, Resolve, ReadPage, TurnPage, UpdateStatus, tables
    <2>2. QED
      BY <1>2, <1>3, <1>4, <2>1
  <1>6. QED
    BY <1>5, PTL DEF Spec, IdentityOwnersAreStable

-----------------------------------------------------------------------------
(* Listings.  Pages first: what a page of the table holds.                 *)

(* A set of naturals that is not empty has a least member.                 *)
LEMMA LeastNatural ==
    ASSUME NEW T \in SUBSET Nat, T # {}
    PROVE  \E n \in T : \A m \in T : n <= m
  <1> DEFINE L == OpToRel(<, Nat)
  <1>1. IsWellFoundedOn(L, Nat)
    BY NatLessThanWellFounded
  <1>2. \A x \in Nat : \A y \in Nat : ~ (<<x, y>> \in L) => ~ (x < y)
    BY DEF OpToRel
  <1> HIDE DEF L
  <1>3. PICK n \in T : \A m \in T : ~ (<<m, n>> \in L)
    BY WFMin, <1>1
  <1>4. \A m \in T : ~ (m < n)
    BY <1>2, <1>3, Zenon
  <1>5. QED
    BY <1>4

Ascending(f) == \A i, j \in DOMAIN f : i < j => f[i] < f[j]

Below(rows, id) == {j \in rows : j < id}

(* In a finite set of ids the number of ids below tells them apart, and    *)
(* takes every value up to the size of the set.                            *)
LEMMA Ranks ==
    ASSUME NEW rows \in SUBSET Nat, IsFiniteSet(rows)
    PROVE  /\ Cardinality(rows) \in Nat
           /\ \A id \in rows : Cardinality(Below(rows, id)) \in 0 .. Cardinality(rows) - 1
           /\ \A i, j \in rows : i < j => Cardinality(Below(rows, i)) < Cardinality(Below(rows, j))
           /\ \A n \in 1 .. Cardinality(rows) :
                \E id \in rows : Cardinality(Below(rows, id)) = n - 1
  <1> DEFINE C == Cardinality(rows)
             B(id) == Cardinality(Below(rows, id))
  <1>1. C \in Nat
    BY FS_CardinalityType
  <1>2. \A id \in rows : /\ IsFiniteSet(Below(rows, id)) /\ B(id) \in Nat
                         /\ B(id) < C
    <2> SUFFICES ASSUME NEW id \in rows
                 PROVE  IsFiniteSet(Below(rows, id)) /\ B(id) \in Nat /\ B(id) < C
      OBVIOUS
    <2>1. Below(rows, id) \in SUBSET rows /\ id \notin Below(rows, id)
      BY DEF Below
    <2>2. /\ IsFiniteSet(Below(rows, id)) /\ B(id) <= C
          /\ C = B(id) => rows = Below(rows, id)
      BY <2>1, FS_Subset
    <2>3. B(id) \in Nat
      BY <2>2, FS_CardinalityType
    <2>4. QED
      BY <1>1, <2>1, <2>2, <2>3
  <1>3. \A i, j \in rows : i < j => B(i) < B(j)
    <2> SUFFICES ASSUME NEW i \in rows, NEW j \in rows, i < j PROVE B(i) < B(j)
      OBVIOUS
    <2>1. Below(rows, i) \in SUBSET Below(rows, j) /\ i \in Below(rows, j) /\ i \notin Below(rows, i)
      <3>1. \A x \in rows : x < i => x < j
        OBVIOUS
      <3>2. ~ (i < i)
        OBVIOUS
      <3>3. QED
        BY <3>1, <3>2 DEF Below
    <2>2. /\ B(i) <= B(j)
          /\ B(j) = B(i) => Below(rows, j) = Below(rows, i)
      BY <1>2, <2>1, FS_Subset
    <2>3. QED
      BY <1>2, <2>1, <2>2
  <1>4. \A n \in 1 .. C : \E id \in rows : B(id) = n - 1
    <2> DEFINE f == [id \in rows |-> B(id) + 1]
    <2>1. f \in [rows -> 1 .. C]
      BY <1>1, <1>2
    <2>2. \A i, j \in rows : f[i] = f[j] => i = j
      <3> SUFFICES ASSUME NEW i \in rows, NEW j \in rows, f[i] = f[j], i # j PROVE FALSE
        OBVIOUS
      <3>1. B(i) = B(j)
        BY <1>2
      <3>2. i < j \/ j < i
        OBVIOUS
      <3>3. QED
        BY <1>2, <1>3, <3>1, <3>2
    <2>3. f \in Injection(rows, 1 .. C)
      BY <2>1, <2>2, Zenon DEF Injection, IsInjective
    <2>4. IsFiniteSet(1 .. C) /\ Cardinality(1 .. C) = C
      <3>1. 1 \in Int /\ C \in Int
        BY <1>1
      <3>2. QED
        BY <1>1, <3>1, FS_Interval
    <2>5. f \in Surjection(rows, 1 .. C)
      BY <2>3, <2>4, FS_Injection
    <2>6. \A n \in 1 .. C : \E id \in rows : f[id] = n
      BY <2>5 DEF Surjection
    <2>7. QED
      BY <1>2, <2>6
  <1>5. QED
    BY <1>1, <1>2, <1>3, <1>4

(* A page holds the first rows after the cursor, in order, and all of them *)
(* when it is short.                                                       *)
FirstRows(page, after, rows) ==
    /\ page \in Seq(Nat) /\ Len(page) <= PageLimit
    /\ Ascending(page)
    /\ Range(page) \subseteq {id \in rows : id > after}
    /\ \A id \in rows : id > after =>
          \/ id \in Range(page)
          \/ Len(page) = PageLimit /\ \A n \in DOMAIN page : page[n] < id

(* A page holds the next rows in the order of their ids, each once.        *)
LEMMA PageIs ==
    ASSUME NEW after \in Nat, DOMAIN principal \subseteq Nat, IsFiniteSet(DOMAIN principal)
    PROVE  FirstRows(Page(after), after, DOMAIN principal)
  <1>1. PICK rows : rows = PageAfter(after)
    OBVIOUS
  <1>2. /\ rows \in SUBSET Nat /\ IsFiniteSet(rows)
        /\ rows = {id \in DOMAIN principal : id > after}
    <2>1. rows \in SUBSET DOMAIN principal /\ rows = {id \in DOMAIN principal : id > after}
      BY <1>1 DEF PageAfter
    <2>2. IsFiniteSet(rows)
      BY <2>1, FS_Subset
    <2>3. QED
      BY <2>1, <2>2
  <1> DEFINE C == Cardinality(rows)
             B(id) == Cardinality(Below(rows, id))
             size == IF C < PageLimit THEN C ELSE PageLimit
  <1>3. /\ C \in Nat
        /\ \A id \in rows : B(id) \in 0 .. C - 1
        /\ \A i, j \in rows : i < j => B(i) < B(j)
        /\ \A n \in 1 .. C : \E id \in rows : B(id) = n - 1
    BY <1>2, Ranks
  <1>4. PICK page : page = Page(after)
    OBVIOUS
  <1>5. page = [n \in 1 .. size |-> CHOOSE id \in rows : B(id) = n - 1]
    BY <1>1, <1>4 DEF Page, Below
  <1> HIDE DEF B, C
  <1>6. PageLimit \in Nat /\ size \in Nat /\ size <= C /\ size <= PageLimit /\ (size < C => size = PageLimit)
    BY <1>3, RegistryAssumption
  <1> HIDE DEF size
  <1>7. /\ DOMAIN page = 1 .. size
        /\ \A n \in 1 .. size : page[n] \in rows /\ B(page[n]) = n - 1
    <2>1. \A n \in 1 .. size : \E id \in rows : B(id) = n - 1
      BY <1>3, <1>6
    <2>2. \A n \in 1 .. size : page[n] = CHOOSE id \in rows : B(id) = n - 1
      BY <1>5
    <2>3. QED
      BY <1>5, <2>1, <2>2
  <1>8. page \in Seq(Nat) /\ Len(page) = size
    <2>1. page \in [1 .. size -> Nat]
      BY <1>2, <1>5, <1>7
    <2>2. QED
      BY <1>6, <2>1
  <1>9. Ascending(page)
    <2> SUFFICES ASSUME NEW i \in 1 .. size, NEW j \in 1 .. size, i < j PROVE page[i] < page[j]
      BY <1>7 DEF Ascending
    <2>1. /\ page[i] \in rows /\ page[j] \in rows /\ page[i] \in Nat /\ page[j] \in Nat
          /\ B(page[i]) = i - 1 /\ B(page[j]) = j - 1
      BY <1>2, <1>7
    <2>2. ~ (page[j] < page[i]) /\ page[i] # page[j]
      BY <1>3, <1>6, <2>1
    <2>3. QED
      BY <2>1, <2>2
  <1>10. Range(page) \subseteq rows
    BY <1>7 DEF Range
  <1>11. ASSUME NEW id \in rows
         PROVE  id \in Range(page) \/ (size = PageLimit /\ \A n \in 1 .. size : page[n] < id)
    <2>1. PICK b \in 0 .. C - 1 : b = B(id)
      BY <1>3, <1>11
    <2>2. CASE b < size
      <3>1. b + 1 \in 1 .. size /\ (b + 1) - 1 = b
        BY <1>3, <1>6, <2>1, <2>2
      <3>2. page[b + 1] \in rows /\ B(page[b + 1]) = B(id)
        BY <1>7, <2>1, <3>1
      <3>3. page[b + 1] = id
        <4>1. page[b + 1] \in Nat /\ id \in Nat /\ B(id) \in Nat
          BY <1>2, <1>3, <1>11, <3>2
        <4>2. ~ (page[b + 1] < id) /\ ~ (id < page[b + 1])
          BY <1>3, <1>11, <3>2, <4>1
        <4>3. QED
          BY <4>1, <4>2
      <3>4. QED
        BY <1>7, <3>1, <3>3 DEF Range
    <2>3. CASE ~ (b < size)
      <3>1. size = PageLimit
        BY <1>3, <1>6, <2>1, <2>3
      <3>2. ASSUME NEW n \in 1 .. size PROVE page[n] < id
        <4>1. page[n] \in rows /\ B(page[n]) = n - 1 /\ page[n] \in Nat /\ id \in Nat
          BY <1>2, <1>7, <1>11, <3>2
        <4>2. ~ (id < page[n]) /\ id # page[n]
          BY <1>3, <1>6, <1>11, <2>1, <2>3, <3>2, <4>1
        <4>3. QED
          BY <4>1, <4>2
      <3>3. QED
        BY <3>1, <3>2
    <2>4. QED
      BY <2>2, <2>3
  <1>12. QED
    BY <1>2, <1>4, <1>6, <1>7, <1>8, <1>9, <1>10, <1>11 DEF FirstRows

(* The pages a client asks for, one or two resources at a time, add up to  *)
(* the listing (list_page skips and takes).                                *)
Upto(items, n) == SubSeq(items, 1, IF n < Len(items) THEN n ELSE Len(items))

(* The first n resources, or all of them.                                  *)
LEMMA UptoIs ==
    ASSUME NEW items \in Seq(Nat), NEW n \in Nat
    PROVE  /\ Upto(items, n) \in Seq(Nat)
           /\ Len(Upto(items, n)) = IF n < Len(items) THEN n ELSE Len(items)
           /\ \A i \in 1 .. Len(Upto(items, n)) : Upto(items, n)[i] = items[i]
  BY DEF Upto

(* Two sequences, one behind the other.                                    *)
LEMMA Joined ==
    ASSUME NEW s \in Seq(Nat), NEW t \in Seq(Nat)
    PROVE  /\ s \o t \in Seq(Nat) /\ Len(s \o t) = Len(s) + Len(t)
           /\ \A i \in 1 .. Len(s) : (s \o t)[i] = s[i]
           /\ \A i \in 1 .. Len(t) : (s \o t)[Len(s) + i] = t[i]
           /\ s \o <<>> = s /\ <<>> \o s = s
  OBVIOUS

(* Sequences with the same members in the same places are equal.           *)
LEMMA SameItems ==
    ASSUME NEW s \in Seq(Nat), NEW t \in Seq(Nat), Len(s) = Len(t),
           \A i \in 1 .. Len(s) : s[i] = t[i]
    PROVE  s = t
  OBVIOUS

(* One more page adds its resources to those of the pages before.          *)
LEMMA PageAdds ==
    ASSUME NEW items \in Seq(Nat), NEW n \in Nat \ {0},
           NEW count \in Nat \ {0}, NEW size \in Nat \ {0}, size = PageSize(count)
    PROVE  Upto(items, (n - 1) * size) \o ListPage(items, (n - 1) * size + 1, count)
              = Upto(items, n * size)
  <1>1. PICK a \in Nat : a = (n - 1) * size /\ n * size = a + size
    <2>1. PICK k \in Nat : k = n - 1 /\ n = k + 1
      <3>1. n - 1 \in Nat /\ n = n - 1 + 1
        OBVIOUS
      <3>2. QED
        BY <3>1
    <2>2. (k + 1) * size = k * size + size
      OBVIOUS
    <2>3. k * size \in Nat
      OBVIOUS
    <2>4. QED
      BY <2>1, <2>2, <2>3
  <1>2. PICK p : p = ListPage(items, a + 1, count)
    OBVIOUS
  <1>3. PICK u : u = Upto(items, a)
    OBVIOUS
  <1>4. PICK v : v = Upto(items, a + size)
    OBVIOUS
  <1>5. /\ Len(items) \in Nat /\ size \in Nat /\ a + size \in Nat
    OBVIOUS
  <1>6. p = SubSeq(items, a + 1, IF a + size < Len(items) THEN a + size ELSE Len(items))
    <2>1. a + 1 # 0 /\ (a + 1) + size - 1 = a + size
      BY <1>5
    <2>2. PICK b : b = a + 1
      OBVIOUS
    <2>3. p = SubSeq(items, b, IF b + size - 1 < Len(items) THEN b + size - 1 ELSE Len(items))
      BY <1>2, <2>1, <2>2 DEF ListPage, Take
    <2>4. QED
      BY <2>1, <2>2, <2>3
  <1>7. CASE a < Len(items)
    <2>1. PICK e \in Nat : e = IF a + size < Len(items) THEN a + size ELSE Len(items)
      BY <1>5
    <2>2. a + 1 <= e /\ e <= Len(items) /\ 1 <= a + 1
      BY <1>5, <1>7, <2>1
    <2>3. p = SubSeq(items, a + 1, e)
      BY <1>6, <2>1
    <2>4. p \in Seq(Nat) /\ Len(p) = e - a /\ \A i \in 1 .. Len(p) : p[i] = items[a + i]
      BY <1>5, <2>2, <2>3
    <2>5. u \in Seq(Nat) /\ Len(u) = a /\ \A i \in 1 .. a : u[i] = items[i]
      BY <1>3, <1>7, UptoIs
    <2>6. v \in Seq(Nat) /\ Len(v) = e /\ \A i \in 1 .. e : v[i] = items[i]
      BY <1>4, <1>5, <2>1, UptoIs
    <2>7. PICK w : w = u \o p
      OBVIOUS
    <2>8. /\ w \in Seq(Nat) /\ Len(w) = a + (e - a)
          /\ \A i \in 1 .. a : w[i] = u[i]
          /\ \A i \in 1 .. e - a : w[a + i] = p[i]
      <3>1. u \in Seq(Nat) /\ p \in Seq(Nat) /\ Len(u) = a /\ Len(p) = e - a
        BY <2>4, <2>5
      <3>2. /\ u \o p \in Seq(Nat) /\ Len(u \o p) = Len(u) + Len(p)
            /\ \A i \in 1 .. Len(u) : (u \o p)[i] = u[i]
            /\ \A i \in 1 .. Len(p) : (u \o p)[Len(u) + i] = p[i]
        BY <3>1, Joined, Zenon
      <3>3. QED
        BY <2>7, <3>1, <3>2, Zenon
    <2>9. w = v
      <3>1. Len(w) = e
        BY <2>2, <2>8
      <3>2. ASSUME NEW i \in 1 .. e PROVE w[i] = v[i]
        <4>1. CASE i <= a
          <5>1. i \in 1 .. a
            BY <4>1
          <5>2. QED
            BY <2>5, <2>6, <2>8, <5>1
        <4>2. CASE ~ (i <= a)
          <5>1. PICK k \in 1 .. e - a : i = a + k
            <6>1. i - a \in 1 .. e - a /\ i = a + (i - a)
              BY <2>2, <4>2
            <6>2. QED
              BY <6>1
          <5>2. w[i] = p[k] /\ p[k] = items[a + k] /\ v[i] = items[i]
            BY <2>4, <2>6, <2>8, <5>1
          <5>3. QED
            BY <5>1, <5>2
        <4>3. QED
          BY <4>1, <4>2
      <3>3. QED
        BY <2>6, <2>8, <3>1, <3>2, SameItems
    <2>10. QED
      BY <1>1, <1>2, <1>3, <1>4, <2>7, <2>9
  <1>8. CASE ~ (a < Len(items))
    <2>1. p = <<>>
      BY <1>5, <1>6, <1>8
    <2>2. u = v /\ u \in Seq(Nat)
      BY <1>3, <1>4, <1>5, <1>8 DEF Upto
    <2>3. u \o p = u
      BY <2>1, <2>2
    <2>4. QED
      BY <1>1, <1>2, <1>3, <1>4, <2>2, <2>3
  <1>9. QED
    BY <1>7, <1>8

(* All pages together are the listing, each resource once.                 *)
LEMMA PagesAddUp ==
    ASSUME NEW items \in Seq(Nat), NEW count \in Nat \ {0},
           NEW size \in Nat \ {0}, size = PageSize(count)
    PROVE  AllPages(items, count) = items
  <1>1. PICK seqs : seqs = [n \in 1 .. Len(items) |-> ListPage(items, (n - 1) * size + 1, count)]
    OBVIOUS
  <1>2. Len(items) \in Nat /\ Len(seqs) = Len(items)
    BY <1>1
  <1>3. CASE Len(items) = 0
    <2>1. AllPages(items, count) = seqs
      BY <1>1, <1>2, <1>3 DEF AllPages, FlattenSeq
    <2>2. QED
      BY <1>1, <1>3, <2>1
  <1>4. CASE Len(items) # 0
    <2> DEFINE L == Len(items)
               Flat(f) == f = [i \in 1 .. L |-> IF i = 1 THEN seqs[i] ELSE f[i - 1] \o seqs[i]]
               g == [i \in 1 .. L |-> Upto(items, i * size)]
    <2>1. AllPages(items, count) = (CHOOSE f : Flat(f))[L]
      BY <1>1, <1>2, <1>4 DEF AllPages, FlattenSeq
    <2>2. \A i \in 1 .. L : i # 1 => Upto(items, (i - 1) * size) \o seqs[i] = Upto(items, i * size)
      <3> SUFFICES ASSUME NEW i \in 1 .. L, i # 1
                   PROVE  Upto(items, (i - 1) * size) \o seqs[i] = Upto(items, i * size)
        OBVIOUS
      <3>1. seqs[i] = ListPage(items, (i - 1) * size + 1, count)
        BY <1>1
      <3>2. i \in Nat \ {0}
        BY <1>2
      <3>3. Upto(items, (i - 1) * size) \o ListPage(items, (i - 1) * size + 1, count)
               = Upto(items, i * size)
        BY <3>2, PageAdds, Zenon
      <3>4. QED
        BY <3>1, <3>3, Zenon
    <2>3. 1 \in 1 .. L /\ seqs[1] = Upto(items, 1 * size)
      <3>1. seqs[1] = ListPage(items, (1 - 1) * size + 1, count)
        BY <1>1, <1>2, <1>4
      <3>2. Upto(items, (1 - 1) * size) \o seqs[1] = Upto(items, 1 * size)
        <4>1. 1 \in Nat \ {0}
          OBVIOUS
        <4>2. Upto(items, (1 - 1) * size) \o ListPage(items, (1 - 1) * size + 1, count)
                = Upto(items, 1 * size)
          BY <4>1, PageAdds, Zenon
        <4>3. QED
          BY <3>1, <4>2, Zenon
      <3>3. Upto(items, (1 - 1) * size) = <<>>
        BY <1>2, <1>4 DEF Upto
      <3>4. seqs[1] \in Seq(Nat)
        <4>1. (1 - 1) * size + 1 = 1
          OBVIOUS
        <4>2. seqs[1] = SubSeq(items, 1, IF 1 + size - 1 < Len(items) THEN 1 + size - 1 ELSE Len(items))
          BY <3>1, <4>1 DEF ListPage, Take
        <4>3. QED
          BY <1>2, <1>4, <4>2
      <3>5. QED
        <4>1. <<>> \o seqs[1] = seqs[1]
          BY <3>4, Joined, Zenon
        <4>2. 1 \in 1 .. L
          BY <1>2, <1>4
        <4>3. QED
          BY <3>2, <3>3, <4>1, <4>2, Zenon
    <2>4. Flat(g)
      <3>1. \A i \in 1 .. L : i # 1 => i - 1 \in 1 .. L /\ g[i - 1] = Upto(items, (i - 1) * size)
        BY <1>2
      <3>2. \A i \in 1 .. L : g[i] = IF i = 1 THEN seqs[i] ELSE g[i - 1] \o seqs[i]
        BY <1>2, <2>2, <2>3, <3>1
      <3> HIDE DEF L
      <3>3. QED
        BY <3>2
    <2>5. PICK f : f = CHOOSE h : Flat(h)
      OBVIOUS
    <2>6. Flat(f)
      BY <2>4, <2>5
    <2>7. \A i \in 1 .. L : f[i] = g[i]
      <3> DEFINE T == {i \in 1 .. L : f[i] # g[i]}
      <3> SUFFICES ASSUME T # {} PROVE FALSE
        OBVIOUS
      <3>1. PICK i \in T : \A m \in T : i <= m
        <4>1. T \in SUBSET Nat
          BY <1>2
        <4>2. QED
          BY <4>1, LeastNatural
      <3>2. i \in 1 .. L /\ f[i] # g[i]
        OBVIOUS
      <3>3. i # 1 => i - 1 \in 1 .. L /\ f[i - 1] = g[i - 1]
        BY <1>2, <3>1, <3>2
      <3>4. f[i] = IF i = 1 THEN seqs[i] ELSE f[i - 1] \o seqs[i]
        BY <2>6, <3>2
      <3>5. g[i] = IF i = 1 THEN seqs[i] ELSE g[i - 1] \o seqs[i]
        BY <2>4, <3>2
      <3> HIDE DEF g, T
      <3>6. QED
        BY <3>2, <3>3, <3>4, <3>5
    <2>8. L \in 1 .. L /\ g[L] = Upto(items, L * size) /\ ~ (L * size < Len(items))
      BY <1>2, <1>4
    <2>9. Upto(items, L * size) = items
      BY <1>2, <2>8 DEF Upto
    <2>10. QED
      BY <2>1, <2>5, <2>7, <2>8, <2>9
  <1>5. QED
    BY <1>3, <1>4

-----------------------------------------------------------------------------
(* The inductive invariant of listings.  What a listing still has to show  *)
(* of its page: the rows it has not read and the one it has in hand.       *)
AtHand(r) == r.queue \cup {id \in {r.id} : r.pc = "claims"}

(* What was shown comes before what is at hand, and that before the        *)
(* cursor: nothing is shown twice.                                         *)
InOrder(r) ==
    /\ r.found \in Seq(Nat) /\ Ascending(r.found)
    /\ r.after \in Nat
    /\ AtHand(r) \subseteq Nat
    /\ \A n \in DOMAIN r.found :
          r.found[n] <= r.after /\ \A id \in AtHand(r) : r.found[n] < id
    /\ \A id \in AtHand(r) : id <= r.after
    /\ r.pc = "claims" => \A id \in r.queue : r.id < id

(* What nobody touched is still there to be shown, and was shown or is at  *)
(* hand when the cursor has passed it.                                     *)
NothingSkipped(r) ==
    /\ r.stable \subseteq DOMAIN principal
    /\ r.op = "list" => \A id \in r.stable : Visible(id, r.kind)
    /\ \A id \in r.stable : id <= r.after => id \in Range(r.found) \cup AtHand(r)
    /\ r.last => \A id \in r.stable : id <= r.after

PhaseOK(r) ==
    /\ r.pc \in {"page", "turn", "row", "claims"}
    /\ r.op = "walk" => r.pc = "page"
    /\ r.pc \in {"page", "turn"} => r.queue = {}
    /\ r.pc = "row" => r.queue # {}

ListingOK(r) == r.op \in {"list", "walk"} => PhaseOK(r) /\ InOrder(r) /\ NothingSkipped(r)

(* Requests write only to principals that have an id.                      *)
NamesOK(r) == r.op \notin {"none", "list", "walk"} /\ r.pc # "lookup" => r.id \in Ids

ListedOK ==
    /\ listed.found \in Seq(Nat) /\ Ascending(listed.found)
    /\ listed.stable \subseteq Range(listed.found)

ListInv ==
    /\ DOMAIN principal \subseteq Ids /\ IsFiniteSet(DOMAIN principal)
    /\ \A s \in Slots : NamesOK(req[s]) /\ ListingOK(req[s])
    /\ ListedOK

(* Steps that only move a request.                                         *)
Quiet(s) ==
    /\ UNCHANGED tables
    /\ \E q : NamesOK(q) /\ ListingOK(q) /\ req' = [req EXCEPT ![s] = q]

(* They preserve the invariant when the answer they give is in order.      *)
LEMMA QuietKeeps ==
    ASSUME IInv, ListInv, NEW s \in Slots, Quiet(s), ListedOK'
    PROVE  ListInv'
  <1>1. /\ UNCHANGED <<principal, identity>>
        /\ \E q : NamesOK(q) /\ ListingOK(q) /\ req' = [req EXCEPT ![s] = q]
    BY DEF Quiet, tables
  <1>2. \A o \in Slots : NamesOK(req'[o]) /\ ListingOK(req'[o])
    BY <1>1 DEF IInv, ListInv
  <1>3. \A id, kind : Visible(id, kind)' = Visible(id, kind)
    BY <1>1 DEF Visible, ScimIdentitiesOf, IdentitiesOf
  <1>4. ASSUME NEW o \in Slots PROVE NamesOK(req[o])' /\ ListingOK(req[o])'
    <2>1. PICK q : q = req'[o]
      OBVIOUS
    <2>2. NamesOK(q) /\ ListingOK(q)
      BY <1>2, <2>1
    <2>3. NamesOK(req[o])'
      BY <2>1, <2>2 DEF NamesOK
    <2>4. ListingOK(req[o])'
      BY <1>1, <1>3, <2>1, <2>2 DEF ListingOK, PhaseOK, InOrder, NothingSkipped, AtHand
    <2>5. QED
      BY <2>3, <2>4
  <1>5. QED
    BY <1>1, <1>4 DEF ListInv

(* A free slot is in order, and so is a request that lists nothing.        *)
LEMMA IdleListing == NamesOK(Idle) /\ ListingOK(Idle)
  BY DEF Idle, Request, NamesOK, ListingOK

(* A request that lists nothing has nothing to keep.                       *)
LEMMA NoListingOK ==
    ASSUME NEW q, q.op \notin {"list", "walk"}, q.id \in Ids \/ q.pc = "lookup"
    PROVE  NamesOK(q) /\ ListingOK(q)
  BY DEF NamesOK, ListingOK

(* Answers, and answers that are not the end of a listing.                 *)
LEMMA AnswerQuiet ==
    ASSUME NEW s \in Slots, req' = Answered(s), UNCHANGED tables
    PROVE  Quiet(s)
  BY IdleListing DEF Answered, Quiet

(* An answer that was given stays as it was.                               *)
LEMMA ListedStays ==
    ASSUME ListInv, listed' = listed
    PROVE  ListedOK'
  BY DEF ListInv, ListedOK

(* A request begins.                                                       *)
LEMMA BeginQuiet ==
    ASSUME ListInv, NEW s \in Slots,
           \/ CreateBegins(s) \/ ReplaceBegins(s) \/ PatchBegins(s) \/ DeleteBegins(s)
           \/ ListBegins(s) \/ MaterializeBegins(s)
    PROVE  Quiet(s) /\ ListedOK'
  <1>1. ASSUME NEW q, Begin(s, q), NamesOK(q), ListingOK(q)
        PROVE  Quiet(s) /\ ListedOK'
    BY <1>1, ListedStays DEF Begin, Quiet
  <1>2. DOMAIN principal \subseteq Ids /\ Fresh \subseteq Ids /\ Ids \subseteq Nat \ {0}
    BY RegistryAssumption DEF ListInv, Fresh
  <1>3. CASE CreateBegins(s)
    <2>1. PICK r \in Inputs :
             Begin(s, [Request("create", "lookup", Nil, r.kind)
                         EXCEPT !.resource = r, !.taken = Key(r) \in live])
      BY <1>3, Zenon DEF CreateBegins
    <2> DEFINE q == [Request("create", "lookup", Nil, r.kind)
                       EXCEPT !.resource = r, !.taken = Key(r) \in live]
    <2>2. q.op = "create" /\ q.pc = "lookup"
      BY DEF Request
    <2> HIDE DEF q
    <2>3. QED
      BY <1>1, <2>1, <2>2, NoListingOK DEF q
  <1>4. CASE ReplaceBegins(s)
    <2>1. PICK id \in DOMAIN principal, r \in Inputs :
             Begin(s, [Request("replace", "row", id, r.kind) EXCEPT !.resource = r])
      BY <1>4, Zenon DEF ReplaceBegins
    <2> DEFINE q == [Request("replace", "row", id, r.kind) EXCEPT !.resource = r]
    <2>2. q.op = "replace" /\ q.id = id /\ id \in Ids
      BY <1>2 DEF Request
    <2> HIDE DEF q
    <2>3. QED
      BY <1>1, <2>1, <2>2, NoListingOK DEF q
  <1>5. CASE PatchBegins(s)
    <2>1. PICK id \in DOMAIN principal, kind \in ScimKinds, p \in PatchInputs :
             Begin(s, [Request("patch", "row", id, kind) EXCEPT !.patch = p])
      BY <1>5, Zenon DEF PatchBegins
    <2> DEFINE q == [Request("patch", "row", id, kind) EXCEPT !.patch = p]
    <2>2. q.op = "patch" /\ q.id = id /\ id \in Ids
      BY <1>2 DEF Request
    <2> HIDE DEF q
    <2>3. QED
      BY <1>1, <2>1, <2>2, NoListingOK DEF q
  <1>6. CASE DeleteBegins(s)
    <2>1. PICK id \in DOMAIN principal, kind \in ScimKinds :
             Begin(s, Request("delete", "row", id, kind))
      BY <1>6, Zenon DEF DeleteBegins
    <2> DEFINE q == Request("delete", "row", id, kind)
    <2>2. q.op = "delete" /\ q.id = id /\ id \in Ids
      BY <1>2 DEF Request
    <2> HIDE DEF q
    <2>3. QED
      BY <1>1, <2>1, <2>2, NoListingOK DEF q
  <1>7. CASE MaterializeBegins(s)
    <2>1. PICK id \in Ids \ Unknown, e \in DOMAIN Directory :
             Begin(s, [Request("materialize", "resolve", id, Directory[e].kind)
                         EXCEPT !.entry = e])
      BY <1>7, Zenon DEF MaterializeBegins
    <2> DEFINE q == [Request("materialize", "resolve", id, Directory[e].kind)
                       EXCEPT !.entry = e]
    <2>2. q.op = "materialize" /\ q.id = id /\ id \in Ids
      BY <1>2 DEF Request
    <2> HIDE DEF q
    <2>3. QED
      BY <1>1, <2>1, <2>2, NoListingOK DEF q
  <1>8. CASE ListBegins(s)
    <2>0. PICK op \in {"list", "walk"} :
             \E kind, stable :
                /\ Begin(s, [Request(op, "page", Nil, kind) EXCEPT !.stable = stable])
                /\ op = "list" => stable = {id \in Ids : Visible(id, kind)}
                /\ op = "walk" => stable = DOMAIN principal
      BY <1>8, Zenon DEF ListBegins
    <2>1. PICK kind, stable :
             /\ Begin(s, [Request(op, "page", Nil, kind) EXCEPT !.stable = stable])
             /\ op = "list" => stable = {id \in Ids : Visible(id, kind)}
             /\ op = "walk" => stable = DOMAIN principal
      BY <2>0, Zenon
    <2>2. PICK q : q = [Request(op, "page", Nil, kind) EXCEPT !.stable = stable]
      OBVIOUS
    <2>3. /\ q.op = op /\ q.pc = "page" /\ q.queue = {} /\ q.found = <<>> /\ q.after = 0
          /\ q.stable = stable /\ q.last = FALSE /\ q.kind = kind
      BY <2>2 DEF Request
    <2>4. AtHand(q) = {} /\ PhaseOK(q)
      BY <2>3 DEF AtHand, PhaseOK
    <2>5. InOrder(q)
      <3>1. q.found \in Seq(Nat) /\ DOMAIN q.found = {}
        BY <2>3
      <3>2. QED
        BY <2>3, <2>4, <3>1 DEF InOrder, Ascending
    <2>6. NothingSkipped(q)
      <3>1. \A id \in stable : id \in DOMAIN principal /\ ~ (id <= 0)
        BY <1>2, <2>1 DEF Visible
      <3>2. QED
        BY <2>1, <2>3, <3>1 DEF NothingSkipped
    <2>7. NamesOK(q) /\ ListingOK(q)
      BY <2>1, <2>3, <2>4, <2>5, <2>6 DEF NamesOK, ListingOK
    <2>8. QED
      BY <1>1, <2>1, <2>2, <2>7
  <1>9. QED
    BY <1>3, <1>4, <1>5, <1>6, <1>7, <1>8

(* A listing between two rows: all but what is still queued was shown.     *)
Ready(r) ==
    /\ r.found \in Seq(Nat) /\ Ascending(r.found)
    /\ r.after \in Nat
    /\ r.queue \subseteq Nat
    /\ \A n \in DOMAIN r.found : r.found[n] <= r.after /\ \A id \in r.queue : r.found[n] < id
    /\ \A id \in r.queue : id <= r.after
    /\ r.stable \subseteq DOMAIN principal /\ \A id \in r.stable : Visible(id, r.kind)
    /\ \A id \in r.stable : id <= r.after => id \in Range(r.found) \cup r.queue
    /\ r.last => \A id \in r.stable : id <= r.after

(* It goes on with the next row or turns the page.                         *)
LEMMA OnwardOK ==
    ASSUME NEW r, DOMAIN r = Fields, r.op = "list", Ready(r)
    PROVE  NamesOK(NextOfList(r)) /\ ListingOK(NextOfList(r))
  <1>1. PICK q : q = NextOfList(r)
    OBVIOUS
  <1>2. /\ q.op = "list" /\ q.pc = IF r.queue = {} THEN "turn" ELSE "row"
        /\ q.found = r.found /\ q.after = r.after /\ q.queue = r.queue /\ q.stable = r.stable
        /\ q.kind = r.kind /\ q.last = r.last
    BY <1>1 DEF NextOfList, Fields
  <1>3. AtHand(q) = r.queue
    BY <1>2 DEF AtHand
  <1>4. PhaseOK(q) /\ InOrder(q) /\ NothingSkipped(q)
    BY <1>2, <1>3 DEF PhaseOK, InOrder, NothingSkipped, Ready
  <1>5. QED
    BY <1>1, <1>2, <1>4 DEF NamesOK, ListingOK

(* get_scim of a listing reads the row: one that does not fit is not one   *)
(* that was there all along.                                               *)
LEMMA ListRowQuiet ==
    ASSUME IInv, ListInv, NEW s \in Slots, GetPrincipal(s), req[s].op = "list"
    PROVE  Quiet(s)
  <1>1. PICK r : r = req[s]
    OBVIOUS
  <1>2. /\ r.op = "list" /\ r.pc = "row" /\ DOMAIN r = Fields /\ UNCHANGED tables
        /\ PhaseOK(r) /\ InOrder(r) /\ NothingSkipped(r)
    BY <1>1 DEF GetPrincipal, IInv, SlotOK, RequestOK, ListInv, ListingOK
  <1>3. r.queue # {} /\ r.queue \subseteq Nat /\ AtHand(r) = r.queue
    BY <1>2 DEF PhaseOK, InOrder, AtHand
  <1>4. PICK id : id = Target(r)
    OBVIOUS
  <1>5. id \in r.queue /\ \A x \in r.queue : id <= x
    <2>1. \E n \in r.queue : \A m \in r.queue : n <= m
      BY <1>3, LeastNatural
    <2>2. id = CHOOSE n \in r.queue : \A m \in r.queue : n <= m
      BY <1>2, <1>4 DEF Target, Min
    <2>3. QED
      BY <2>1, <2>2
  <1>6. PICK read : read = [r EXCEPT !.queue = @ \ {id}, !.id = id]
    OBVIOUS
  <1>7. /\ DOMAIN read = Fields /\ read.op = "list" /\ read.queue = r.queue \ {id} /\ read.id = id
        /\ read.found = r.found /\ read.after = r.after /\ read.stable = r.stable
        /\ read.kind = r.kind /\ read.last = r.last
    BY <1>2, <1>6 DEF Fields
  <1>8. CASE ~Visible(id, r.kind) /\ req' = [req EXCEPT ![s] = NextOfList(read)]
    <2>1. id \notin r.stable
      BY <1>2, <1>8 DEF NothingSkipped
    <2>2. Ready(read)
      BY <1>2, <1>3, <1>7, <2>1 DEF Ready, InOrder, NothingSkipped
    <2>3. NamesOK(NextOfList(read)) /\ ListingOK(NextOfList(read))
      BY <1>7, <2>2, OnwardOK
    <2>4. QED
      BY <1>2, <1>8, <2>3 DEF Quiet
  <1>9. ASSUME NEW seen, req' = [req EXCEPT ![s] = [read EXCEPT !.pc = "claims", !.seen = seen]]
        PROVE  Quiet(s)
    <2>1. PICK q : q = [read EXCEPT !.pc = "claims", !.seen = seen]
      OBVIOUS
    <2>2. /\ q.op = "list" /\ q.pc = "claims" /\ q.queue = r.queue \ {id} /\ q.id = id
          /\ q.found = r.found /\ q.after = r.after /\ q.stable = r.stable
          /\ q.kind = r.kind /\ q.last = r.last
      BY <1>7, <2>1 DEF Fields
    <2>3. AtHand(q) = r.queue
      BY <1>5, <2>2 DEF AtHand
    <2>4. InOrder(q)
      <3>1. \A x \in q.queue : id < x
        BY <1>3, <1>5, <2>2
      <3>2. QED
        BY <1>2, <1>3, <2>2, <2>3, <3>1 DEF InOrder
    <2>5. NothingSkipped(q) /\ PhaseOK(q)
      BY <1>2, <1>3, <2>2, <2>3 DEF NothingSkipped, PhaseOK
    <2>6. NamesOK(q) /\ ListingOK(q)
      BY <2>2, <2>4, <2>5 DEF NamesOK, ListingOK
    <2>7. QED
      BY <1>2, <1>9, <2>1, <2>6 DEF Quiet
  <1>10. \/ req' = [req EXCEPT ![s] = [read EXCEPT !.pc = "claims", !.seen = principal[id]]]
         \/ ~Visible(id, r.kind) /\ req' = [req EXCEPT ![s] = NextOfList(read)]
    BY <1>1, <1>2, <1>4, <1>6 DEF GetPrincipal, Visible
  <1>11. QED
    BY <1>8, <1>9, <1>10

(* Then the identity: the resource is shown, or passed over when it has    *)
(* none, or the whole listing fails.                                       *)
LEMMA ListClaimsQuiet ==
    ASSUME IInv, ListInv, NEW s \in Slots, GetIdentity(s), req[s].op = "list"
    PROVE  Quiet(s)
  <1>1. PICK r : r = req[s]
    OBVIOUS
  <1>2. /\ r.op = "list" /\ r.pc = "claims" /\ DOMAIN r = Fields /\ UNCHANGED tables
        /\ PhaseOK(r) /\ InOrder(r) /\ NothingSkipped(r)
    BY <1>1 DEF GetIdentity, IInv, SlotOK, RequestOK, ListInv, ListingOK
  <1>3. /\ AtHand(r) = r.queue \cup {r.id} /\ r.id \in Nat /\ r.queue \subseteq Nat
        /\ r.found \in Seq(Nat) /\ r.after \in Nat
    BY <1>2 DEF InOrder, AtHand
  <1>4. CASE req' = [req EXCEPT ![s] = NextOfList(r)] /\ ScimIdentitiesOf(r.id) = {}
    <2>1. r.id \notin r.stable
      BY <1>2, <1>4 DEF NothingSkipped, Visible
    <2>2. Ready(r)
      BY <1>2, <1>3, <2>1 DEF Ready, InOrder, NothingSkipped
    <2>3. NamesOK(NextOfList(r)) /\ ListingOK(NextOfList(r))
      BY <1>2, <2>2, OnwardOK
    <2>4. QED
      BY <1>2, <1>4, <2>3 DEF Quiet
  <1>5. CASE req' = [req EXCEPT ![s] = [NextOfList(r) EXCEPT !.found = Append(@, r.id)]]
    <2>1. PICK found : found = Append(r.found, r.id)
      OBVIOUS
    <2>2. PICK y : y = [r EXCEPT !.found = found]
      OBVIOUS
    <2>3. /\ DOMAIN y = Fields /\ y.op = "list" /\ y.queue = r.queue /\ y.found = found
          /\ y.after = r.after /\ y.stable = r.stable /\ y.kind = r.kind /\ y.last = r.last
      BY <1>2, <2>2 DEF Fields
    <2>4. [NextOfList(r) EXCEPT !.found = Append(@, r.id)] = NextOfList(y)
      <3>1. NextOfList(r).found = r.found
        BY <1>2 DEF NextOfList, Fields
      <3>2. QED
        BY <1>2, <2>1, <2>2, <3>1 DEF NextOfList, Fields
    <2>5. PICK n \in Nat : n = Len(r.found)
      BY <1>3
    <2>6. /\ found \in Seq(Nat) /\ DOMAIN found = 1 .. n + 1 /\ DOMAIN r.found = 1 .. n
          /\ found[n + 1] = r.id /\ \A i \in 1 .. n : found[i] = r.found[i]
      BY <1>3, <2>1, <2>5
    <2>7. \A i \in 1 .. n : r.found[i] \in Nat /\ r.found[i] < r.id /\ r.found[i] <= r.after
      <3>1. r.id \in AtHand(r)
        BY <1>3
      <3>2. \A i \in 1 .. n : r.found[i] < r.id /\ r.found[i] <= r.after
        BY <1>2, <2>6, <3>1 DEF InOrder
      <3>3. \A i \in 1 .. n : r.found[i] \in Nat
        BY <1>3, <2>6
      <3>4. QED
        BY <3>2, <3>3
    <2>8. Ascending(found)
      <3> SUFFICES ASSUME NEW i \in 1 .. n + 1, NEW j \in 1 .. n + 1, i < j
                   PROVE  found[i] < found[j]
        BY <2>6 DEF Ascending
      <3>1. i \in 1 .. n
        OBVIOUS
      <3>2. CASE j = n + 1
        BY <2>6, <2>7, <3>1, <3>2
      <3>3. CASE j # n + 1
        <4>1. j \in 1 .. n
          BY <3>3
        <4>2. r.found[i] < r.found[j]
          BY <1>2, <2>6, <3>1, <4>1 DEF InOrder, Ascending
        <4>3. QED
          BY <2>6, <3>1, <4>1, <4>2
      <3>4. QED
        BY <3>2, <3>3
    <2>9. Range(found) = Range(r.found) \cup {r.id}
      <3>1. \A i \in 1 .. n + 1 : i = n + 1 \/ i \in 1 .. n
        OBVIOUS
      <3>2. n + 1 \in 1 .. n + 1 /\ \A i \in 1 .. n : i \in 1 .. n + 1
        OBVIOUS
      <3>3. QED
        BY <2>6, <3>1, <3>2 DEF Range
    <2>10. \A i \in 1 .. n + 1 : found[i] <= r.after /\ \A id \in r.queue : found[i] < id
      <3> SUFFICES ASSUME NEW i \in 1 .. n + 1
                   PROVE  found[i] <= r.after /\ \A id \in r.queue : found[i] < id
        OBVIOUS
      <3>1. CASE i = n + 1
        BY <1>2, <1>3, <2>6, <3>1 DEF InOrder
      <3>2. CASE i # n + 1
        <4>1. i \in 1 .. n
          BY <3>2
        <4>2. QED
          BY <1>2, <1>3, <2>6, <2>7, <4>1 DEF InOrder
      <3>3. QED
        BY <3>1, <3>2
    <2>11. Ready(y)
      BY <1>2, <1>3, <2>3, <2>6, <2>8, <2>9, <2>10 DEF Ready, InOrder, NothingSkipped
    <2>12. NamesOK(NextOfList(y)) /\ ListingOK(NextOfList(y))
      BY <2>3, <2>11, OnwardOK
    <2>13. QED
      BY <1>2, <1>5, <2>4, <2>12 DEF Quiet
  <1>6. CASE req' = [req EXCEPT ![s] = Idle]
    BY <1>2, <1>6, AnswerQuiet DEF Answered
  <1>7. \/ req' = [req EXCEPT ![s] = NextOfList(r)] /\ ScimIdentitiesOf(r.id) = {}
        \/ req' = [req EXCEPT ![s] = [NextOfList(r) EXCEPT !.found = Append(@, r.id)]]
        \/ req' = [req EXCEPT ![s] = Idle]
    <2>1. CASE ScimIdentitiesOf(r.id) = {}
      BY <1>1, <1>2, <2>1 DEF GetIdentity, NotFound
    <2>2. CASE ScimIdentitiesOf(r.id) # {}
      <3>1. PICK k : req' = [req EXCEPT ![s] =
                               IF Parses(r.seen, identity[k].claims)
                               THEN AfterRead(r, RestoreResource(r.seen, identity[k].claims)) ELSE Idle]
        BY <1>1, <2>2, Zenon DEF GetIdentity
      <3>2. \A x : AfterRead(r, x) = [NextOfList(r) EXCEPT !.found = Append(@, r.id)]
        BY <1>2 DEF AfterRead
      <3> HIDE DEF Idle
      <3>3. QED
        BY <3>1, <3>2
    <2>3. QED
      BY <2>1, <2>2
  <1>8. QED
    BY <1>4, <1>5, <1>6, <1>7

(* The other requests keep their principal from step to step.              *)
LEMMA DiscoverSame ==
    ASSUME NEW r, DOMAIN r = Fields, r.op \notin {"list", "walk"}, r.id \in Ids, NEW res
    PROVE  NamesOK(Discover(r, res)) /\ ListingOK(Discover(r, res))
  <1>1. CASE ~Acceptable(res)
    BY <1>1, IdleListing DEF Discover
  <1>2. CASE Acceptable(res)
    <2>1. PICK q : q = [r EXCEPT !.pc = "write", !.resource = res]
      OBVIOUS
    <2>2. q.op = r.op /\ q.id = r.id
      BY <2>1 DEF Fields
    <2>3. NamesOK(q) /\ ListingOK(q)
      BY <2>2, NoListingOK
    <2>4. QED
      BY <1>2, <2>1, <2>3 DEF Discover
  <1>3. QED
    BY <1>1, <1>2

(* The reads of the other requests leave every listing alone.              *)
LEMMA OthersQuiet ==
    ASSUME IInv, ListInv, NEW s \in Slots, req[s].op \notin {"list", "walk"},
           \/ GetPrincipal(s) \/ GetIdentity(s) \/ FindByIdentity(s) \/ CheckManaged(s)
           \/ FetchForDeletion(s) \/ Resolve(s)
    PROVE  Quiet(s)
  <1>1. PICK r : r = req[s]
    OBVIOUS
  <1>2. RequestOK(r) /\ DOMAIN r = Fields /\ NamesOK(r) /\ UNCHANGED tables
    BY <1>1 DEF IInv, ListInv, SlotOK, RequestOK, GetPrincipal, GetIdentity, FindByIdentity,
       CheckManaged, FetchForDeletion, Resolve
  <1>3. ASSUME NEW q, q = Idle \/ (q.op = r.op /\ q.id \in Ids), req' = [req EXCEPT ![s] = q]
        PROVE  Quiet(s)
    <2>1. NamesOK(q) /\ ListingOK(q)
      BY <1>1, <1>3, IdleListing, NoListingOK
    <2>2. QED
      BY <1>2, <1>3, <2>1 DEF Quiet
  <1>4. CASE req' = Answered(s)
    BY <1>2, <1>4, AnswerQuiet
  <1>5. CASE GetPrincipal(s) /\ req' # Answered(s)
    <2>1. r.id \in Ids
      BY <1>1, <1>2, <1>5 DEF NamesOK, RequestOK, GetPrincipal
    <2>2. PICK q : q = [r EXCEPT !.pc = "claims", !.seen = principal[Target(r)]]
      OBVIOUS
    <2>3. q.op = r.op /\ q.id = r.id
      BY <1>2, <2>2 DEF Fields
    <2>4. req' = [req EXCEPT ![s] = q]
      BY <1>1, <1>5, <2>2 DEF GetPrincipal
    <2>5. QED
      BY <1>3, <2>1, <2>3, <2>4
  <1>6. CASE GetIdentity(s) /\ req' # Answered(s)
    <2>1. r.id \in Ids /\ r.op \in {"replace", "patch", "delete"}
      BY <1>1, <1>2, <1>6 DEF NamesOK, RequestOK, GetIdentity
    <2>2. PICK k : req' = [req EXCEPT ![s] =
                             IF Parses(r.seen, identity[k].claims)
                             THEN AfterRead(r, RestoreResource(r.seen, identity[k].claims)) ELSE Idle]
      BY <1>1, <1>6, Zenon DEF GetIdentity, NotFound
    <2>3. \A res : NamesOK(AfterRead(r, res)) /\ ListingOK(AfterRead(r, res))
      <3> SUFFICES ASSUME NEW res PROVE NamesOK(AfterRead(r, res)) /\ ListingOK(AfterRead(r, res))
        OBVIOUS
      <3>1. CASE r.op = "replace"
        <4>1. AfterRead(r, res) = Discover(r, r.resource)
          BY <3>1 DEF AfterRead
        <4>2. QED
          BY <1>1, <1>2, <2>1, <4>1, DiscoverSame
      <3>2. CASE r.op = "patch"
        <4>1. AfterRead(r, res) = Idle \/ AfterRead(r, res) = Discover(r, ApplyPatch(res, r.patch))
          BY <3>2 DEF AfterRead
        <4>2. QED
          BY <1>1, <1>2, <2>1, <4>1, DiscoverSame, IdleListing
      <3>3. CASE r.op = "delete"
        <4>1. PICK q : q = [r EXCEPT !.pc = "fetch"]
          OBVIOUS
        <4>2. q.op = "delete" /\ q.id = r.id
          BY <1>2, <3>3, <4>1 DEF Fields
        <4>3. AfterRead(r, res) = q
          BY <3>3, <4>1 DEF AfterRead
        <4>4. QED
          BY <2>1, <4>2, <4>3, NoListingOK
      <3>4. QED
        BY <2>1, <3>1, <3>2, <3>3
    <2> HIDE DEF Idle
    <2>4. \E q : NamesOK(q) /\ ListingOK(q) /\ req' = [req EXCEPT ![s] = q]
      BY <2>2, <2>3, IdleListing
    <2>5. QED
      BY <1>2, <2>4 DEF Quiet
  <1>7. CASE FindByIdentity(s)
    <2>1. r.op = "create"
      BY <1>1, <1>2, <1>7 DEF RequestOK, FindByIdentity
    <2>2. CASE Key(r.resource) \notin DOMAIN identity
      <3>1. PICK id \in Fresh : req' = [req EXCEPT ![s] = Discover([r EXCEPT !.id = id], r.resource)]
        BY <1>1, <1>7, <2>2 DEF FindByIdentity
      <3>2. PICK y : y = [r EXCEPT !.id = id]
        OBVIOUS
      <3>3. DOMAIN y = Fields /\ y.op = "create" /\ y.id = id /\ id \in Ids
        BY <1>2, <2>1, <3>2 DEF Fields, Fresh
      <3>4. NamesOK(Discover(y, r.resource)) /\ ListingOK(Discover(y, r.resource))
        BY <3>3, DiscoverSame
      <3>5. QED
        BY <1>2, <3>1, <3>2, <3>4 DEF Quiet
    <2>3. CASE Key(r.resource) \in DOMAIN identity
      <3>1. PICK p : p = identity[Key(r.resource)].owner
        OBVIOUS
      <3>2. PICK q : q = [r EXCEPT !.pc = "managed", !.id = p, !.seen = principal[p]]
        OBVIOUS
      <3>3. q.op = r.op /\ q.id = p
        BY <1>2, <3>2 DEF Fields
      <3>4. p \in Ids
        BY <2>3, <3>1 DEF IInv, TablesOK, ListInv
      <3>5. req' = [req EXCEPT ![s] = q]
        BY <1>1, <1>7, <2>3, <3>1, <3>2 DEF FindByIdentity
      <3>6. QED
        BY <1>3, <3>3, <3>4, <3>5
    <2>4. QED
      BY <2>2, <2>3
  <1>8. CASE CheckManaged(s)
    <2>1. r.op = "create" /\ r.id \in Ids
      BY <1>1, <1>2, <1>8 DEF NamesOK, RequestOK, CheckManaged
    <2>2. PICK managed : req' = [req EXCEPT ![s] =
             IF Conflicts(managed, r.seen) THEN Idle ELSE Discover(r, r.resource)]
      BY <1>1, <1>8, Zenon DEF CheckManaged
    <2>3. NamesOK(Discover(r, r.resource)) /\ ListingOK(Discover(r, r.resource))
      BY <1>2, <2>1, DiscoverSame
    <2> HIDE DEF Idle
    <2>4. \E q : NamesOK(q) /\ ListingOK(q) /\ req' = [req EXCEPT ![s] = q]
      BY <2>2, <2>3, IdleListing
    <2>5. QED
      BY <1>2, <2>4 DEF Quiet
  <1>9. CASE FetchForDeletion(s) /\ req' # Answered(s)
    <2>1. r.id \in Ids
      BY <1>1, <1>2, <1>9 DEF NamesOK, RequestOK, FetchForDeletion
    <2>2. PICK q : q = [r EXCEPT !.pc = "tombstone", !.seen = principal[r.id]]
      OBVIOUS
    <2>3. q.op = r.op /\ q.id = r.id
      BY <1>2, <2>2 DEF Fields
    <2>4. req' = [req EXCEPT ![s] = q]
      BY <1>1, <1>9, <2>2 DEF FetchForDeletion
    <2>5. QED
      BY <1>3, <2>1, <2>3, <2>4
  <1>10. CASE Resolve(s) /\ req' # Answered(s)
    <2>1. r.id \in Ids
      BY <1>1, <1>2, <1>10 DEF NamesOK, RequestOK, Resolve
    <2>2. PICK q : q = [r EXCEPT !.pc = "write", !.seen = Directory[r.entry]]
      OBVIOUS
    <2>3. q.op = r.op /\ q.id = r.id
      BY <1>2, <2>2 DEF Fields
    <2>4. req' = [req EXCEPT ![s] = q]
      BY <1>1, <1>10, <2>2 DEF Resolve
    <2>5. QED
      BY <1>3, <2>1, <2>3, <2>4
  <1>11. QED
    BY <1>4, <1>5, <1>6, <1>7, <1>8, <1>9, <1>10

(* A page is at or before its last row.                                    *)
LEMMA LastIsGreatest ==
    ASSUME NEW page \in Seq(Nat), Ascending(page), page # <<>>
    PROVE  /\ Last(page) \in Nat /\ Last(page) \in Range(page)
           /\ \A id \in Range(page) : id \in Nat /\ id <= Last(page)
  <1>1. PICK n \in Nat : n = Len(page)
    OBVIOUS
  <1>2. n # 0 /\ DOMAIN page = 1 .. n /\ Last(page) = page[n]
    BY <1>1 DEF Last
  <1>3. n \in 1 .. n /\ page[n] \in Nat
    BY <1>1, <1>2
  <1>4. ASSUME NEW i \in 1 .. n PROVE page[i] \in Nat /\ page[i] <= page[n]
    <2>1. page[i] \in Nat
      BY <1>1
    <2>2. i = n \/ i < n
      OBVIOUS
    <2>3. i < n => page[i] < page[n]
      BY <1>2, <1>3 DEF Ascending
    <2>4. QED
      BY <1>3, <2>1, <2>2, <2>3
  <1>5. QED
    BY <1>2, <1>3, <1>4 DEF Range

(* What was shown and a page after it are in order together.               *)
LEMMA JoinAscends ==
    ASSUME NEW s \in Seq(Nat), NEW t \in Seq(Nat), Ascending(s), Ascending(t), NEW after \in Nat,
           \A i \in DOMAIN s : s[i] <= after, \A i \in DOMAIN t : after < t[i]
    PROVE  /\ s \o t \in Seq(Nat) /\ Ascending(s \o t) /\ Range(s \o t) = Range(s) \cup Range(t)
  <1>1. PICK a \in Nat : a = Len(s)
    OBVIOUS
  <1>2. PICK b \in Nat : b = Len(t)
    OBVIOUS
  <1>3. PICK w : w = s \o t
    OBVIOUS
  <1>4. /\ w \in Seq(Nat) /\ DOMAIN w = 1 .. a + b
        /\ \A i \in 1 .. a : w[i] = s[i]
        /\ \A i \in 1 .. b : w[a + i] = t[i]
    <2>1. /\ s \o t \in Seq(Nat) /\ Len(s \o t) = Len(s) + Len(t)
          /\ \A i \in 1 .. Len(s) : (s \o t)[i] = s[i]
          /\ \A i \in 1 .. Len(t) : (s \o t)[Len(s) + i] = t[i]
      BY Joined, Zenon
    <2>2. /\ w \in Seq(Nat) /\ Len(w) = a + b
          /\ \A i \in 1 .. a : w[i] = s[i]
          /\ \A i \in 1 .. b : w[a + i] = t[i]
      BY <1>1, <1>2, <1>3, <2>1, Zenon
    <2>3. QED
      BY <2>2
  <1>5. \A i \in 1 .. a + b : i \in 1 .. a \/ \E k \in 1 .. b : i = a + k
    <2> SUFFICES ASSUME NEW i \in 1 .. a + b, i \notin 1 .. a PROVE \E k \in 1 .. b : i = a + k
      OBVIOUS
    <2>1. i - a \in 1 .. b /\ i = a + (i - a)
      OBVIOUS
    <2>2. QED
      BY <2>1
  <1>6. /\ DOMAIN s = 1 .. a /\ DOMAIN t = 1 .. b
        /\ \A i \in 1 .. a : s[i] \in Nat
        /\ \A i \in 1 .. b : t[i] \in Nat
    BY <1>1, <1>2
  <1>7. Ascending(w)
    <2> SUFFICES ASSUME NEW i \in 1 .. a + b, NEW j \in 1 .. a + b, i < j PROVE w[i] < w[j]
      BY <1>4 DEF Ascending
    <2>1. CASE i \in 1 .. a /\ j \in 1 .. a
      BY <1>4, <1>6, <2>1 DEF Ascending
    <2>2. CASE i \in 1 .. a /\ j \notin 1 .. a
      <3>1. PICK k \in 1 .. b : j = a + k
        BY <1>5, <2>2
      <3>2. w[i] = s[i] /\ w[j] = t[k] /\ s[i] \in Nat /\ t[k] \in Nat /\ s[i] <= after /\ after < t[k]
        BY <1>4, <1>6, <2>2, <3>1
      <3>3. QED
        BY <3>2
    <2>3. CASE i \notin 1 .. a
      <3>1. PICK h \in 1 .. b : i = a + h
        BY <1>5, <2>3
      <3>2. j \notin 1 .. a
        BY <3>1
      <3>3. PICK k \in 1 .. b : j = a + k
        BY <1>5, <3>2
      <3>4. h < k
        BY <3>1, <3>3
      <3>5. t[h] < t[k]
        BY <1>6, <3>4 DEF Ascending
      <3>6. QED
        BY <1>4, <3>1, <3>3, <3>5
    <2>4. QED
      BY <2>1, <2>2, <2>3
  <1>8. Range(w) = Range(s) \cup Range(t)
    <2>1. ASSUME NEW x \in Range(w) PROVE x \in Range(s) \cup Range(t)
      <3>1. PICK i \in 1 .. a + b : x = w[i]
        BY <1>4, <2>1 DEF Range
      <3>2. CASE i \in 1 .. a
        BY <1>4, <1>6, <3>1, <3>2 DEF Range
      <3>3. CASE i \notin 1 .. a
        <4>1. PICK k \in 1 .. b : i = a + k
          BY <1>5, <3>3
        <4>2. QED
          BY <1>4, <1>6, <3>1, <4>1 DEF Range
      <3>4. QED
        BY <3>2, <3>3
    <2>2. ASSUME NEW x \in Range(s) PROVE x \in Range(w)
      <3>1. PICK i \in 1 .. a : x = s[i]
        BY <1>6, <2>2 DEF Range
      <3>2. i \in 1 .. a + b
        OBVIOUS
      <3>3. QED
        BY <1>4, <3>1, <3>2 DEF Range
    <2>3. ASSUME NEW x \in Range(t) PROVE x \in Range(w)
      <3>1. PICK i \in 1 .. b : x = t[i]
        BY <1>6, <2>3 DEF Range
      <3>2. a + i \in 1 .. a + b
        OBVIOUS
      <3>3. QED
        BY <1>4, <3>1, <3>2 DEF Range
    <2>4. QED
      BY <2>1, <2>2, <2>3
  <1>9. QED
    BY <1>3, <1>4, <1>7, <1>8

(* A listing that ends has shown what was there all along.                 *)
LEMMA EndsListed ==
    ASSUME NEW s \in Slots, NEW r, ListEnds(s, r), UNCHANGED tables,
           r.found \in Seq(Nat), Ascending(r.found), r.stable \subseteq Range(r.found)
    PROVE  Quiet(s) /\ ListedOK'
  <1>1. listed'.found = r.found /\ listed'.stable = r.stable /\ req' = Answered(s)
    BY DEF ListEnds
  <1>2. QED
    BY <1>1, AnswerQuiet DEF ListedOK

(* After the last row of a page.                                           *)
LEMMA TurnPageQuiet ==
    ASSUME IInv, ListInv, NEW s \in Slots, TurnPage(s)
    PROVE  Quiet(s) /\ ListedOK'
  <1>1. PICK r : r = req[s]
    OBVIOUS
  <1>2. /\ r.op \in {"list", "walk"} /\ r.pc = "turn" /\ DOMAIN r = Fields /\ UNCHANGED tables
        /\ PhaseOK(r) /\ InOrder(r) /\ NothingSkipped(r)
    BY <1>1 DEF TurnPage, IInv, SlotOK, RequestOK, ListInv, ListingOK
  <1>3. AtHand(r) = {} /\ r.queue = {}
    BY <1>2 DEF PhaseOK, AtHand
  <1>4. CASE r.last
    <2>1. ListEnds(s, r)
      BY <1>1, <1>4 DEF TurnPage
    <2>2. r.found \in Seq(Nat) /\ Ascending(r.found) /\ r.stable \subseteq Range(r.found)
      BY <1>2, <1>3, <1>4 DEF InOrder, NothingSkipped
    <2>3. QED
      BY <1>2, <2>1, <2>2, EndsListed
  <1>5. CASE ~r.last
    <2>1. PICK q : q = [r EXCEPT !.pc = "page"]
      OBVIOUS
    <2>2. /\ q.op = r.op /\ q.pc = "page" /\ q.queue = {} /\ q.found = r.found
          /\ q.after = r.after /\ q.stable = r.stable /\ q.kind = r.kind /\ q.last = r.last
      BY <1>2, <1>3, <2>1 DEF Fields
    <2>3. AtHand(q) = {}
      BY <2>2 DEF AtHand
    <2>4. PhaseOK(q) /\ InOrder(q) /\ NothingSkipped(q)
      BY <1>2, <1>3, <2>2, <2>3 DEF PhaseOK, InOrder, NothingSkipped
    <2>5. NamesOK(q) /\ ListingOK(q)
      BY <1>2, <2>2, <2>4 DEF NamesOK, ListingOK
    <2>6. req' = [req EXCEPT ![s] = q] /\ listed' = listed
      BY <1>1, <1>5, <2>1 DEF TurnPage
    <2>7. QED
      BY <1>2, <2>5, <2>6, ListedStays DEF Quiet
  <1>6. QED
    BY <1>4, <1>5

(* A page is read: the cursor moves to its last row, and what lies between *)
(* is on it.                                                               *)
LEMMA ReadPageQuiet ==
    ASSUME IInv, ListInv, NEW s \in Slots, ReadPage(s)
    PROVE  Quiet(s) /\ ListedOK'
  <1>1. PICK r : r = req[s]
    OBVIOUS
  <1>2. /\ r.op \in {"list", "walk"} /\ r.pc = "page" /\ DOMAIN r = Fields /\ UNCHANGED tables
        /\ PhaseOK(r) /\ InOrder(r) /\ NothingSkipped(r)
    BY <1>1 DEF ReadPage, IInv, SlotOK, RequestOK, ListInv, ListingOK
  <1>3. AtHand(r) = {} /\ r.queue = {} /\ r.after \in Nat /\ r.found \in Seq(Nat) /\ Ascending(r.found)
    BY <1>2 DEF PhaseOK, AtHand, InOrder
  <1>4. PICK page : page = Page(r.after)
    OBVIOUS
  <1>5. FirstRows(page, r.after, DOMAIN principal)
    <2>1. DOMAIN principal \subseteq Nat /\ IsFiniteSet(DOMAIN principal)
      BY RegistryAssumption DEF ListInv
    <2>2. QED
      BY <1>3, <1>4, <2>1, PageIs
  <1>6. /\ page \in Seq(Nat) /\ Len(page) \in Nat /\ Len(page) <= PageLimit /\ Ascending(page)
        /\ \A id \in Range(page) : id \in DOMAIN principal /\ id > r.after
        /\ PageLimit \in Nat \ {0}
    BY <1>5, RegistryAssumption DEF FirstRows
  <1>7. ASSUME NEW id \in r.stable
        PROVE  /\ id \in Nat
               /\ id <= r.after => id \in Range(r.found)
               /\ id > r.after => \/ id \in Range(page)
                                  \/ Len(page) = PageLimit /\ \A n \in DOMAIN page : page[n] < id
    <2>1. id \in DOMAIN principal /\ id \in Nat
      BY <1>2, <1>7, RegistryAssumption DEF NothingSkipped, ListInv
    <2>2. id <= r.after => id \in Range(r.found)
      BY <1>2, <1>3, <1>7 DEF NothingSkipped
    <2>3. QED
      BY <1>5, <2>1, <2>2 DEF FirstRows
  <1>8. page # <<>> =>
           /\ Last(page) \in Nat /\ Last(page) > r.after
           /\ \A id \in Range(page) : id \in Nat /\ id <= Last(page)
           /\ \A id \in r.stable : id <= Last(page) => id \in Range(r.found) \cup Range(page)
           /\ Len(page) < PageLimit => \A id \in r.stable : id <= Last(page)
    <2> SUFFICES ASSUME page # <<>>
                 PROVE  /\ Last(page) \in Nat /\ Last(page) > r.after
                        /\ \A id \in Range(page) : id \in Nat /\ id <= Last(page)
                        /\ \A id \in r.stable : id <= Last(page) => id \in Range(r.found) \cup Range(page)
                        /\ Len(page) < PageLimit => \A id \in r.stable : id <= Last(page)
      OBVIOUS
    <2>1. /\ Last(page) \in Nat /\ Last(page) \in Range(page)
          /\ \A id \in Range(page) : id \in Nat /\ id <= Last(page)
      BY <1>6, LastIsGreatest
    <2>2. Last(page) > r.after
      BY <1>6, <2>1
    <2>3. ASSUME NEW id \in r.stable, id <= Last(page) PROVE id \in Range(r.found) \cup Range(page)
      <3>1. PICK n \in DOMAIN page : page[n] = Last(page)
        BY <2>1 DEF Range
      <3>2. ~ (page[n] < id)
        BY <1>7, <2>1, <2>3, <3>1
      <3>3. QED
        BY <1>3, <1>7, <2>3, <3>1, <3>2
    <2>4. ASSUME Len(page) < PageLimit, NEW id \in r.stable PROVE id <= Last(page)
      BY <1>3, <1>6, <1>7, <2>1, <2>2, <2>4
    <2>5. QED
      BY <2>1, <2>2, <2>3, <2>4
  <1>9. CASE r.op = "walk"
    <2>1. PICK found : found = r.found \o page
      OBVIOUS
    <2>2. /\ found \in Seq(Nat) /\ Ascending(found)
          /\ Range(found) = Range(r.found) \cup Range(page)
      <3>1. \A i \in DOMAIN r.found : r.found[i] <= r.after
        BY <1>2 DEF InOrder
      <3>2. \A i \in DOMAIN page : page[i] \in Range(page)
        BY DEF Range
      <3>3. \A i \in DOMAIN page : r.after < page[i]
        <4>1. \A id \in Range(page) : id \in Nat
          BY <1>6 DEF Range
        <4>2. QED
          BY <1>3, <1>6, <3>2, <4>1
      <3>4. QED
        BY <1>3, <1>6, <2>1, <3>1, <3>3, JoinAscends
    <2>3. PICK seen : seen = [r EXCEPT !.found = found]
      OBVIOUS
    <2>4. /\ DOMAIN seen = Fields /\ seen.op = "walk" /\ seen.pc = "page" /\ seen.queue = {}
          /\ seen.found = found /\ seen.stable = r.stable /\ seen.kind = r.kind /\ seen.last = r.last
      BY <1>2, <1>3, <1>9, <2>3 DEF Fields
    <2>5. CASE Len(page) = PageLimit
      <3>1. page # <<>>
        BY <1>6, <2>5
      <3>2. PICK q : q = [seen EXCEPT !.after = Last(page)]
        OBVIOUS
      <3>3. /\ q.op = "walk" /\ q.pc = "page" /\ q.queue = {} /\ q.after = Last(page)
            /\ q.found = found /\ q.stable = r.stable /\ q.kind = r.kind /\ q.last = r.last
        BY <2>4, <3>2 DEF Fields
      <3>4. AtHand(q) = {} /\ PhaseOK(q)
        BY <3>3 DEF AtHand, PhaseOK
      <3>5. \A id \in Range(found) : id <= Last(page)
        <4>1. \A id \in Range(r.found) : id \in Nat /\ id <= r.after
          BY <1>2, <1>3 DEF InOrder, Range
        <4>2. QED
          BY <1>3, <1>8, <2>2, <3>1, <4>1
      <3>6. \A n \in DOMAIN found : found[n] <= Last(page)
        BY <3>5 DEF Range
      <3>7. InOrder(q)
        BY <1>8, <2>2, <3>1, <3>3, <3>4, <3>6 DEF InOrder
      <3>8. NothingSkipped(q)
        <4>1. r.last => \A id \in r.stable : id <= Last(page)
          <5>1. r.last => \A id \in r.stable : id <= r.after
            BY <1>2 DEF NothingSkipped
          <5>2. QED
            BY <1>3, <1>7, <1>8, <3>1, <5>1
        <4>2. QED
          BY <1>2, <1>8, <2>2, <3>1, <3>3, <4>1 DEF NothingSkipped
      <3>9. NamesOK(q) /\ ListingOK(q)
        BY <3>3, <3>4, <3>7, <3>8 DEF NamesOK, ListingOK
      <3>10. req' = [req EXCEPT ![s] = q] /\ listed' = listed
        BY <1>1, <1>4, <1>9, <2>1, <2>3, <2>5, <3>2 DEF ReadPage
      <3>11. QED
        BY <1>2, <3>9, <3>10, ListedStays DEF Quiet
    <2>6. CASE Len(page) # PageLimit
      <3>1. ListEnds(s, seen)
        BY <1>1, <1>4, <1>9, <2>1, <2>3, <2>6 DEF ReadPage
      <3>2. r.stable \subseteq Range(found)
        BY <1>3, <1>7, <2>2, <2>6
      <3>3. QED
        BY <1>2, <2>2, <2>4, <3>1, <3>2, EndsListed
    <2>7. QED
      BY <2>5, <2>6
  <1>10. CASE r.op = "list" /\ page = <<>>
    <2>1. ListEnds(s, r)
      BY <1>1, <1>4, <1>10 DEF ReadPage
    <2>2. r.stable \subseteq Range(r.found)
      <3>1. Len(page) # PageLimit /\ Range(page) = {}
        BY <1>6, <1>10 DEF Range
      <3>2. QED
        BY <1>3, <1>7, <3>1
    <2>3. QED
      BY <1>2, <1>3, <2>1, <2>2, EndsListed
  <1>11. CASE r.op = "list" /\ page # <<>>
    <2>1. PICK queue : queue = {id \in Range(page) : principal[id].kind = r.kind}
      OBVIOUS
    <2>2. PICK y : y = [[r EXCEPT !.after = Last(page), !.queue = queue]
                          EXCEPT !.last = Len(page) < PageLimit]
      OBVIOUS
    <2>3. /\ DOMAIN y = Fields /\ y.op = "list" /\ y.queue = queue /\ y.after = Last(page)
          /\ y.found = r.found /\ y.stable = r.stable /\ y.kind = r.kind
          /\ y.last = (Len(page) < PageLimit)
      BY <1>2, <1>11, <2>2 DEF Fields
    <2>4. \A id \in r.stable : id \in Range(page) => id \in queue
      BY <1>2, <1>11, <2>1 DEF NothingSkipped, Visible
    <2>5. \A id \in r.stable : id <= Last(page) => id \in Range(r.found) \cup queue
      BY <1>8, <1>11, <2>4
    <2>6. \A id \in queue : id \in Nat /\ id <= Last(page) /\ id > r.after
      BY <1>6, <1>8, <1>11, <2>1
    <2>7. \A n \in DOMAIN r.found : /\ r.found[n] \in Nat /\ r.found[n] <= Last(page)
                                    /\ \A id \in queue : r.found[n] < id
      <3>1. \A n \in DOMAIN r.found : r.found[n] \in Nat /\ r.found[n] <= r.after
        BY <1>2, <1>3 DEF InOrder
      <3>2. QED
        BY <1>3, <1>8, <1>11, <2>6, <3>1
    <2>8. Ready(y)
      <3>1. r.stable \subseteq DOMAIN principal /\ \A id \in r.stable : Visible(id, r.kind)
        BY <1>2, <1>11 DEF NothingSkipped
      <3>2. QED
        BY <1>3, <1>8, <1>11, <2>3, <2>5, <2>6, <2>7, <3>1 DEF Ready
    <2>9. NamesOK(NextOfList(y)) /\ ListingOK(NextOfList(y))
      BY <2>3, <2>8, OnwardOK
    <2>10. req' = [req EXCEPT ![s] = NextOfList(y)] /\ listed' = listed
      BY <1>1, <1>4, <1>11, <2>1, <2>2 DEF ReadPage
    <2>11. QED
      BY <1>2, <2>9, <2>10, ListedStays DEF Quiet
  <1>12. QED
    BY <1>2, <1>9, <1>10, <1>11

(* Writes: what a write leaves of the listings beside it.                  *)
OtherRowsStay(id) ==
    /\ DOMAIN principal' \subseteq Ids /\ IsFiniteSet(DOMAIN principal')
    /\ \A p \in DOMAIN principal : p # id =>
          p \in DOMAIN principal' /\ principal'[p] = principal[p]
    /\ \A k \in DOMAIN identity : identity[k].owner # id =>
          k \in DOMAIN identity' /\ identity'[k].owner = identity[k].owner

(* A write drops the resource it changes from what the listings under way  *)
(* have to show, and nothing else.                                         *)
LEMMA WriteKeepsListings ==
    ASSUME IInv, ListInv, NEW s, NEW id, OtherRowsStay(id), listed' = listed,
           s \in Slots => req'[s] = Idle,
           \A o \in Slots : o # s => Beside(req[o], req'[o], id)
    PROVE  ListInv'
  <1>1. ASSUME NEW o \in Slots PROVE NamesOK(req[o])' /\ ListingOK(req[o])'
    <2>1. PICK q : q = req'[o]
      OBVIOUS
    <2>2. PICK r : r = req[o]
      OBVIOUS
    <2>3. CASE o = s
      <3>1. q.op = "none"
        BY <2>1, <2>3 DEF Idle, Request
      <3>2. QED
        BY <2>1, <3>1 DEF NamesOK, ListingOK
    <2>4. CASE o # s
      <3>1. /\ q.op = r.op /\ q.pc = r.pc /\ q.id = r.id /\ q.kind = r.kind /\ q.after = r.after
            /\ q.queue = r.queue /\ q.found = r.found /\ q.last = r.last
            /\ r.op \in {"list", "walk"} => q.stable = r.stable \ {id}
        BY <2>1, <2>2, <2>4 DEF Beside, Fields
      <3>2. NamesOK(r) /\ ListingOK(r)
        BY <2>2 DEF ListInv
      <3>3. NamesOK(req[o])'
        BY <2>1, <3>1, <3>2 DEF NamesOK
      <3>4. CASE r.op \in {"list", "walk"}
        <4>1. PhaseOK(r) /\ InOrder(r) /\ NothingSkipped(r)
          BY <3>2, <3>4 DEF ListingOK
        <4>2. AtHand(q) = AtHand(r)
          BY <3>1 DEF AtHand
        <4>3. PhaseOK(q) /\ InOrder(q)
          BY <3>1, <4>1, <4>2 DEF PhaseOK, InOrder
        <4>4. ASSUME NEW p \in q.stable
              PROVE  /\ p \in DOMAIN principal'
                     /\ r.op = "list" => Visible(p, r.kind)'
                     /\ p <= r.after => p \in Range(q.found) \cup AtHand(q)
                     /\ r.last => p <= r.after
          <5>1. p \in r.stable /\ p # id /\ p \in DOMAIN principal
            BY <3>1, <3>4, <4>1, <4>4 DEF NothingSkipped
          <5>2. p \in DOMAIN principal' /\ principal'[p] = principal[p]
            BY <5>1 DEF OtherRowsStay
          <5>3. ScimIdentitiesOf(p) # {} => ScimIdentitiesOf(p)' # {}
            BY <5>1 DEF OtherRowsStay, ScimIdentitiesOf, IdentitiesOf
          <5>4. r.op = "list" => Visible(p, r.kind)'
            <6>1. r.op = "list" => Visible(p, r.kind)
              BY <4>1, <5>1 DEF NothingSkipped
            <6>2. QED
              BY <5>2, <5>3, <6>1 DEF Visible
          <5>5. QED
            BY <3>1, <4>1, <4>2, <5>1, <5>2, <5>4 DEF NothingSkipped
        <4>5. ListingOK(req[o])'
          BY <2>1, <3>1, <4>3, <4>4 DEF ListingOK, PhaseOK, InOrder, NothingSkipped, AtHand
        <4>6. QED
          BY <3>3, <4>5
      <3>5. CASE r.op \notin {"list", "walk"}
        BY <2>1, <3>1, <3>3, <3>5 DEF ListingOK
      <3>6. QED
        BY <3>4, <3>5
    <2>5. QED
      BY <2>3, <2>4
  <1>2. ListedOK'
    BY ListedStays
  <1>3. QED
    BY <1>1, <1>2 DEF ListInv, OtherRowsStay

(* upsert_with_identity leaves the rows of other principals alone: the     *)
(* WHERE of its ON CONFLICT.                                               *)
LEMMA UpsertKeepsListings ==
    ASSUME IInv, ListInv, NEW s \in Slots, Upsert(s)
    PROVE  ListInv'
  <1>1. PICK r : r = req[s]
    OBVIOUS
  <1>2. PICK w : w = Stored(r)
    OBVIOUS
  <1>3. r.pc = "write" /\ RequestOK(r) /\ NamesOK(r) /\ listed' = listed
    BY <1>1 DEF Upsert, UpsertWithIdentity, IInv, SlotOK, ListInv
  <1>4. r.id \in Ids
    BY <1>3 DEF RequestOK, NamesOK
  <1>5. CASE ~BindsTo(w.key, r.id)
    <2>1. req' = Answered(s) /\ UNCHANGED tables
      BY <1>1, <1>2, <1>5 DEF Upsert
    <2>2. QED
      BY <1>3, <2>1, AnswerQuiet, QuietKeeps, ListedStays
  <1>6. CASE BindsTo(w.key, r.id)
    <2>1. /\ principal' = With(principal, r.id, w.row)
          /\ identity' = With(identity, w.key, [owner |-> r.id, claims |-> w.claims])
          /\ req' = Disturb(Answered(s), s, r.id, w.key)
      BY <1>1, <1>2, <1>6 DEF Upsert, UpsertWithIdentity
    <2>2. OtherRowsStay(r.id)
      <3>1. /\ DOMAIN principal' = DOMAIN principal \cup {r.id}
            /\ \A p \in DOMAIN principal : p # r.id => principal'[p] = principal[p]
        BY <2>1 DEF With
      <3>2. \A k \in DOMAIN identity : identity[k].owner # r.id =>
               k \in DOMAIN identity' /\ identity'[k].owner = identity[k].owner
        BY <1>6, <2>1 DEF With, BindsTo
      <3>3. IsFiniteSet(DOMAIN principal \cup {r.id})
        BY FS_AddElement DEF ListInv
      <3>4. QED
        BY <1>4, <3>1, <3>2, <3>3 DEF OtherRowsStay, ListInv
    <2>3. /\ req'[s] = Idle
          /\ \A o \in Slots : o # s => Beside(req[o], req'[o], r.id)
      BY <2>1, WriteIsBeside
    <2>4. QED
      BY <1>3, <2>2, <2>3, WriteKeepsListings
  <1>7. QED
    BY <1>5, <1>6

(* delete_scim writes one row back.                                        *)
LEMMA TombstoneKeepsListings ==
    ASSUME IInv, ListInv, NEW s \in Slots, StoreTombstone(s)
    PROVE  ListInv'
  <1>1. PICK r : r = req[s]
    OBVIOUS
  <1>2. /\ r.pc = "tombstone" /\ RequestOK(r) /\ NamesOK(r) /\ listed' = listed
        /\ principal' = With(principal, r.id, Tombstone(r.seen))
        /\ req' = Ended(Disturb(Answered(s), s, r.id, Nil), IdentitiesOf(r.id))
        /\ identity' = identity
    BY <1>1 DEF StoreTombstone, IInv, SlotOK, ListInv
  <1>3. r.id \in Ids
    BY <1>2 DEF RequestOK, NamesOK
  <1>4. OtherRowsStay(r.id)
    <2>1. /\ DOMAIN principal' = DOMAIN principal \cup {r.id}
          /\ \A p \in DOMAIN principal : p # r.id => principal'[p] = principal[p]
      BY <1>2 DEF With
    <2>2. IsFiniteSet(DOMAIN principal \cup {r.id})
      BY FS_AddElement DEF ListInv
    <2>3. QED
      BY <1>2, <1>3, <2>1, <2>2 DEF OtherRowsStay, ListInv
  <1>5. /\ req'[s] = Idle
        /\ \A o \in Slots : o # s => Beside(req[o], req'[o], r.id)
    BY <1>2, WriteIsBeside
  <1>6. QED
    BY <1>2, <1>4, <1>5, WriteKeepsListings

(* What administrators and logins do touches one principal.                *)
LEMMA AdministrationKeepsListings ==
    ASSUME IInv, ListInv, NEW id \in Ids,
           \/ \E active \in BOOLEAN : UpdateStatus(id, active)
           \/ DeletePrincipal(id)
           \/ \E e \in Externals : Login(id, e)
    PROVE  ListInv'
  <1>1. Nil \notin Slots /\ IsFiniteSet(DOMAIN principal) /\ DOMAIN principal \subseteq Ids
    BY RegistryAssumption DEF ListInv
  <1>2. ASSUME OtherRowsStay(id), listed' = listed, NEW key, NEW keys,
               req' = Disturb(req, Nil, id, key) \/ req' = Ended(Disturb(req, Nil, id, key), keys)
        PROVE  ListInv'
    <2>1. \A o \in Slots : o # Nil => Beside(req[o], req'[o], id)
      BY <1>1, <1>2, WriteIsBeside
    <2>2. QED
      BY <1>1, <1>2, <2>1, WriteKeepsListings
  <1>3. ASSUME NEW active \in BOOLEAN, UpdateStatus(id, active) PROVE ListInv'
    <2>1. /\ principal' = [principal EXCEPT ![id].active = active] /\ identity' = identity
          /\ req' = Disturb(req, Nil, id, Nil) /\ listed' = listed
      BY <1>3 DEF UpdateStatus
    <2>2. /\ DOMAIN principal' = DOMAIN principal
          /\ \A p \in DOMAIN principal : p # id => principal'[p] = principal[p]
      BY <2>1
    <2>3. OtherRowsStay(id)
      BY <1>1, <2>1, <2>2 DEF OtherRowsStay
    <2>4. QED
      BY <1>2, <2>1, <2>3
  <1>4. ASSUME DeletePrincipal(id) PROVE ListInv'
    <2>1. /\ principal' = Restrict(principal, DOMAIN principal \ {id})
          /\ identity' = Restrict(identity, DOMAIN identity \ IdentitiesOf(id))
          /\ req' = Ended(Disturb(req, Nil, id, Nil), IdentitiesOf(id)) /\ listed' = listed
      BY <1>4 DEF DeletePrincipal
    <2>2. /\ DOMAIN principal' = DOMAIN principal \ {id}
          /\ \A p \in DOMAIN principal : p # id => principal'[p] = principal[p]
      BY <2>1 DEF Restrict
    <2>3. \A k \in DOMAIN identity : identity[k].owner # id =>
             k \in DOMAIN identity' /\ identity'[k].owner = identity[k].owner
      BY <2>1 DEF Restrict, IdentitiesOf
    <2>4. IsFiniteSet(DOMAIN principal')
      <3>1. DOMAIN principal' \in SUBSET DOMAIN principal
        BY <2>2
      <3>2. QED
        BY <1>1, <3>1, FS_Subset
    <2>5. OtherRowsStay(id)
      BY <1>1, <2>2, <2>3, <2>4 DEF OtherRowsStay
    <2>6. QED
      BY <1>2, <2>1, <2>5
  <1>5. ASSUME NEW e \in Externals, Login(id, e) PROVE ListInv'
    <2>1. /\ <<"scim", e>> \notin DOMAIN identity
          /\ principal' = With(principal, id, [kind |-> "USER", active |-> TRUE, scimDeleted |-> FALSE])
          /\ identity' = With(identity, <<"scim", e>>, [owner |-> id, claims |-> LoginClaims])
          /\ req' = Disturb(req, Nil, id, <<"scim", e>>) /\ listed' = listed
      BY <1>5 DEF Login
    <2>2. /\ DOMAIN principal' = DOMAIN principal \cup {id}
          /\ \A p \in DOMAIN principal : p # id => principal'[p] = principal[p]
      BY <2>1 DEF With
    <2>3. \A k \in DOMAIN identity : k \in DOMAIN identity' /\ identity'[k] = identity[k]
      BY <2>1 DEF With
    <2>4. IsFiniteSet(DOMAIN principal \cup {id})
      BY <1>1, FS_AddElement
    <2>5. OtherRowsStay(id)
      BY <1>1, <2>2, <2>3, <2>4 DEF OtherRowsStay
    <2>6. QED
      BY <1>2, <2>1, <2>5
  <1>6. QED
    BY <1>3, <1>4, <1>5

(* It holds at first.                                                      *)
LEMMA InitListInv == Init => ListInv
  <1> SUFFICES ASSUME Init PROVE ListInv
    OBVIOUS
  <1>1. DOMAIN principal \subseteq Ids /\ IsFiniteSet(DOMAIN principal)
    BY SeedsAssumption DEF Init
  <1>2. \A s \in Slots : NamesOK(req[s]) /\ ListingOK(req[s])
    BY IdleListing DEF Init
  <1>3. listed.found = <<>> /\ listed.stable = {}
    BY DEF Init, NoListing
  <1>4. ListedOK
    <2>1. listed.found \in Seq(Nat) /\ DOMAIN listed.found = {}
      BY <1>3
    <2>2. QED
      BY <1>3, <2>1 DEF ListedOK, Ascending
  <1>5. QED
    BY <1>1, <1>2, <1>4 DEF ListInv

(* Every step keeps it.                                                    *)
LEMMA NextListInv == IInv /\ ListInv /\ [Next]_vars => ListInv'
  <1> SUFFICES ASSUME IInv, ListInv, [Next]_vars PROVE ListInv'
    OBVIOUS
  <1>1. CASE UNCHANGED vars
    <2>1. UNCHANGED <<principal, identity, req, listed>>
      BY <1>1 DEF vars, tables
    <2>2. QED
      BY <2>1 DEF ListInv, NamesOK, ListingOK, PhaseOK, InOrder, NothingSkipped, AtHand, ListedOK,
         Visible, ScimIdentitiesOf, IdentitiesOf
  <1>2. ASSUME NEW s \in Slots,
               \/ CreateBegins(s) \/ ReplaceBegins(s) \/ PatchBegins(s) \/ DeleteBegins(s)
               \/ ListBegins(s) \/ MaterializeBegins(s)
        PROVE  ListInv'
    BY <1>2, BeginQuiet, QuietKeeps
  <1>3. ASSUME NEW s \in Slots,
               \/ GetPrincipal(s) \/ GetIdentity(s) \/ FindByIdentity(s) \/ CheckManaged(s)
               \/ FetchForDeletion(s) \/ Resolve(s)
        PROVE  ListInv'
    <2>1. listed' = listed
      BY <1>3 DEF GetPrincipal, GetIdentity, FindByIdentity, CheckManaged, FetchForDeletion, Resolve
    <2>2. CASE req[s].op \notin {"list", "walk"}
      BY <1>3, <2>1, <2>2, OthersQuiet, QuietKeeps, ListedStays
    <2>3. CASE req[s].op \in {"list", "walk"}
      <3>1. req[s].op = "list" /\ (GetPrincipal(s) \/ GetIdentity(s))
        BY <1>3, <2>3 DEF IInv, SlotOK, RequestOK, GetPrincipal, GetIdentity, FindByIdentity,
           CheckManaged, FetchForDeletion, Resolve
      <3>2. QED
        BY <2>1, <3>1, ListRowQuiet, ListClaimsQuiet, QuietKeeps, ListedStays
    <2>4. QED
      BY <2>2, <2>3
  <1>4. ASSUME NEW s \in Slots, ReadPage(s) \/ TurnPage(s)
        PROVE  ListInv'
    BY <1>4, ReadPageQuiet, TurnPageQuiet, QuietKeeps
  <1>5. ASSUME NEW s \in Slots, Upsert(s) \/ StoreTombstone(s)
        PROVE  ListInv'
    BY <1>5, UpsertKeepsListings, TombstoneKeepsListings
  <1>6. ASSUME NEW id \in Ids,
               \/ \E active \in BOOLEAN : UpdateStatus(id, active)
               \/ DeletePrincipal(id)
               \/ \E e \in Externals : Login(id, e)
        PROVE  ListInv'
    BY <1>6, AdministrationKeepsListings
  <1>7. QED
    BY <1>1, <1>2, <1>3, <1>4, <1>5, <1>6 DEF Next

(* A listing shows every resource that no request touched since it began,  *)
(* each once, whatever comes and goes between its pages and whatever other *)
(* requests do meanwhile, and the pages a client asks for add up to it     *)
(* (list_scim, list and list_page).                                        *)
THEOREM ListingsAreAlwaysComplete == Spec => []ListingsAreComplete
  <1>1. ListInv => ListingsAreComplete
    <2> SUFFICES ASSUME ListInv PROVE ListingsAreComplete
      OBVIOUS
    <2>1. PICK found : found = listed.found
      OBVIOUS
    <2>2. found \in Seq(Nat) /\ Ascending(found) /\ listed.stable \subseteq Range(found)
      BY <2>1 DEF ListInv, ListedOK
    <2>3. IsInjective(found)
      <3> SUFFICES ASSUME NEW i \in DOMAIN found, NEW j \in DOMAIN found, found[i] = found[j], i # j
                   PROVE  FALSE
        BY DEF IsInjective
      <3>1. i \in Nat /\ j \in Nat /\ found[i] \in Nat /\ found[j] \in Nat
        BY <2>2
      <3>2. i < j \/ j < i
        BY <3>1
      <3>3. QED
        BY <2>2, <3>1, <3>2 DEF Ascending
    <2>4. ASSUME NEW count \in 1 .. MaxCount + 1 PROVE AllPages(found, count) = found
      <3>1. count \in Nat \ {0}
        BY RegistryAssumption
      <3>2. PICK size \in Nat \ {0} : size = PageSize(count)
        BY <3>1, RegistryAssumption DEF PageSize
      <3>3. QED
        BY <2>2, <3>1, <3>2, PagesAddUp
    <2>5. QED
      BY <2>1, <2>2, <2>3, <2>4 DEF ListingsAreComplete
  <1>2. Spec => []ListInv
    BY InitListInv, NextListInv, InductiveInvariant, PTL DEF Spec
  <1>3. QED
    BY <1>1, <1>2, PTL
=============================================================================
