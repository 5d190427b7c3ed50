----------------------------- MODULE PolicyData -----------------------------
(***************************************************************************)
(* The authorization catalog as data: what a policy is, when it compiles,  *)
(* when the durable schema accepts it, and what each administrative        *)
(* operation makes of it.  There is no state here; PolicyCatalog runs      *)
(* these operators under the handler's lock.                               *)
(*                                                                         *)
(* The three vectors of IamPolicyInfo are sets of records: two entries     *)
(* with one id are two members of the set, so the duplicate checks of the  *)
(* compiler mean something here.  A description never influences a         *)
(* decision and is left out, as are a binding's effect and conditions,     *)
(* which only the evaluator reads.                                         *)
(***************************************************************************)
CONSTANTS
    ActionIds,      \* identifiers of actions
    Matchers,       \* ids of HTTP route matchers
    RoleIds,        \* identifiers of roles
    RoleNames,      \* display names of roles (UNIQUE in the schema)
    BindingIds,     \* identifiers of role bindings
    PrincipalIds,   \* canonical principal ids
    Urns,           \* resource URN patterns a binding may carry ...
    ValidUrns       \* ... and the ones UrnPattern::from_str accepts

ASSUME UrnAssumption == ValidUrns \subseteq Urns

IamActionInfo == [id : ActionIds, routes : SUBSET Matchers]
IamRoleInfo == [id : RoleIds, name : RoleNames, actions : SUBSET ActionIds]
IamRoleBindingInfo ==
    [id : BindingIds, principal : PrincipalIds, role : RoleIds, urn : Urns]

IamPolicyInfo ==
    [actions : SUBSET IamActionInfo,
     roles : SUBSET IamRoleInfo,
     bindings : SUBSET IamRoleBindingInfo]

EmptyPolicy == [actions |-> {}, roles |-> {}, bindings |-> {}]

Ids(items) == {x.id : x \in items}

-----------------------------------------------------------------------------
(* CompiledPolicy::compile: the validation every published catalog passed. *)

ValidateUnique(items) == \A x, y \in items : x.id = y.id => x = y

UniqueRouteMatchers(p) ==
    \A a, b \in p.actions : a # b => a.routes \cap b.routes = {}

RolesReferToActions(p) == \A r \in p.roles : r.actions \subseteq Ids(p.actions)

CompileRoleBinding(p, b) == b.role \in Ids(p.roles) /\ b.urn \in ValidUrns

Compiles(p) ==
    /\ ValidateUnique(p.actions)
    /\ ValidateUnique(p.roles)
    /\ ValidateUnique(p.bindings)
    /\ UniqueRouteMatchers(p)
    /\ RolesReferToActions(p)
    /\ \A b \in p.bindings : CompileRoleBinding(p, b)

(***************************************************************************)
(* What the schema adds to the compiler when PolicyRepository::replace     *)
(* rewrites the five tables: role names are unique and every binding's     *)
(* principal row exists (present is the set of ids in iam_principal).      *)
(***************************************************************************)
Storable(p, present) ==
    /\ \A r, s \in p.roles : r.name = s.name => r = s
    /\ \A b \in p.bindings : b.principal \in present

-----------------------------------------------------------------------------
(* One operation of the administrative API, with its decoded body.         *)

ActionWrite ==
    [kind : {"create", "update"}, table : {"action"}, item : IamActionInfo]
RoleWrite ==
    [kind : {"create", "update"}, table : {"role"}, item : IamRoleInfo]
BindingWrite ==
    [kind : {"create", "update"}, table : {"role binding"}, item : IamRoleBindingInfo]
ActionDelete == [kind : {"delete"}, table : {"action"}, id : ActionIds]
RoleDelete == [kind : {"delete"}, table : {"role"}, id : RoleIds]
BindingDelete == [kind : {"delete"}, table : {"role binding"}, id : BindingIds]
Reset == [kind : {"reset"}]
Replace == [kind : {"replace"}, policy : IamPolicyInfo]

Operation ==
    ActionWrite \cup RoleWrite \cup BindingWrite \cup ActionDelete
        \cup RoleDelete \cup BindingDelete \cup Reset \cup Replace

EnsureAbsent(items, id) == id \notin Ids(items)
FindItem(items, id) == id \in Ids(items)
RemoveById(items, id) == {x \in items : x.id # id}
Updated(items, item) == RemoveById(items, item.id) \cup {item}

TableOf(o, p) ==
    IF o.table = "action" THEN p.actions
    ELSE IF o.table = "role" THEN p.roles ELSE p.bindings

(* delete_action and delete_role refuse what is still referenced.          *)
Dereferenced(o, p) ==
    /\ o.table = "action" => \A r \in p.roles : o.id \notin r.actions
    /\ o.table = "role" => \A b \in p.bindings : b.role # o.id

(* The early returns of an operation's mutation closure.                   *)
Accepts(o, p) ==
    /\ o.kind = "create" => EnsureAbsent(TableOf(o, p), o.item.id)
    /\ o.kind = "update" => FindItem(TableOf(o, p), o.item.id)
    /\ o.kind = "delete" => Dereferenced(o, p) /\ FindItem(TableOf(o, p), o.id)

Rewritten(o, table, items) ==
    IF o.table # table THEN items
    ELSE IF o.kind = "delete" THEN RemoveById(items, o.id)
    ELSE Updated(items, o.item)

(* The catalog the closure builds from the one the handler serves.         *)
Apply(o, p) ==
    IF o.kind = "reset" THEN EmptyPolicy
    ELSE IF o.kind = "replace" THEN o.policy
    ELSE [actions |-> Rewritten(o, "action", p.actions),
          roles |-> Rewritten(o, "role", p.roles),
          bindings |-> Rewritten(o, "role binding", p.bindings)]
=============================================================================
