--------------------------- MODULE MCAccessCheck ---------------------------
(***************************************************************************)
(* A user and a group, one HTTP request mapped to a job below a folder,    *)
(* and every catalog of up to two bindings out of a pool in which grants   *)
(* and denials of user and group overlap.                                  *)
(***************************************************************************)
EXTENDS AccessCheck, TLC

CONSTANTS
    user, group, read, write, job, folder, get, lan, wan

MCKind == (user :> "user") @@ (group :> "group")

Job == [head |-> [f \in HeadFields |-> job], path |-> <<folder, job>>]
Folder == [head |-> [f \in HeadFields |-> job], path |-> <<folder>>]
Below == [head |-> [f \in HeadFields |-> Star], path |-> <<folder, GlobStar>>]
Only == [head |-> [f \in HeadFields |-> job], path |-> <<folder>>]
Elsewhere == [head |-> [f \in HeadFields |-> job], path |-> <<job, Star>>]

Always == [source |-> None, methods |-> {}, facts |-> {}]
FromLan == [source |-> [in |-> {lan}, notIn |-> {}], methods |-> {}, facts |-> {}]
NotFromLan == [source |-> [in |-> {}, notIn |-> {lan}], methods |-> {get}, facts |-> {}]
WithMfa == [source |-> None, methods |-> {}, facts |-> {"mfa"}]

Binding(principal, effect, action, urn, conditions) ==
    [principal |-> principal, effect |-> effect, actions |-> {action}, urn |-> urn,
     conditions |-> conditions]

Pool ==
    {Binding(user, "allow", read, Below, Always),
     Binding(user, "allow", write, Below, Always),
     Binding(user, "deny", write, Below, Always),
     Binding(user, "deny", read, Elsewhere, Always),
     Binding(user, "deny", read, Only, FromLan),
     Binding(group, "allow", read, Only, WithMfa),
     Binding(group, "deny", read, Below, NotFromLan)}

Route(action, resource) ==
    [requests |-> {"get job"}, action |-> action, resource |-> resource,
     parents |-> {Folder}]

OneRoute == <<Route(read, Job)>>
MCCatalogs ==
    {[bindings |-> b, routes |-> OneRoute] :
        b \in {<<>>} \cup {<<x>> : x \in Pool} \cup {<<x, y>> : x \in Pool, y \in Pool}}
        \cup {[bindings |-> <<x>>, routes |-> r] : x \in Pool,
                r \in {<<>>, <<Route(read, None)>>, <<Route(read, Job), Route(write, Job)>>}}

Input(form, kind, groups, exp, context) ==
    [form |-> form, principal |-> user, kind |-> kind, groups |-> groups, exp |-> exp,
     http |-> "get job", context |-> context]
Context(address, facts) == [address |-> address, method |-> get, facts |-> facts]

(* An identity that outlives its replacement, and some that end before.    *)
MCInputs ==
    {Input("trusted", "user", g, 3, Context(a, f)) :
        g \in {{}, {group, user}}, a \in {None, lan, wan}, f \in {{}, {"mfa"}}}
        \cup {Input(f, k, {group}, 3, Context(lan, {"mfa"})) :
                f \in {"missing_identity", "trusted"}, k \in {"user", "workload"}}
        \cup {Input("trusted", "user", {}, e, Context(wan, {})) : e \in {1, NoExpiry}}

(* What is published under a running check: the grant goes, or a denial    *)
(* comes in front of it.                                                   *)
MCUpdates ==
    {[bindings |-> b, routes |-> OneRoute] :
        b \in {<<Binding(group, "allow", read, Only, WithMfa)>>,
               <<Binding(group, "deny", read, Below, NotFromLan),
                 Binding(user, "allow", read, Below, Always)>>}}
=============================================================================
