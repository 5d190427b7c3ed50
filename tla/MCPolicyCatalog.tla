--------------------------- MODULE MCPolicyCatalog ---------------------------
(***************************************************************************)
(* Instances of PolicyCatalog.  Two actions compete for one route matcher, *)
(* two role names collide, one binding body carries a URN that does not    *)
(* parse, and one replacement body names both principals.                  *)
(***************************************************************************)
EXTENDS PolicyCatalog

CONSTANTS a1, a2, m1, r1, r2, n1, b1, p1, p2, good, bad, c1, c2

Read == [id |-> a1, routes |-> {m1}]
ReadNoRoute == [id |-> a1, routes |-> {}]
Write == [id |-> a2, routes |-> {m1}]
Reader == [id |-> r1, name |-> n1, actions |-> {a1}]
Other == [id |-> r2, name |-> n1, actions |-> {}]
Grant(p) == [id |-> b1, principal |-> p, role |-> r1, urn |-> good]
BadGrant == [Grant(p1) EXCEPT !.urn = bad]

ReaderPolicy == [actions |-> {Read}, roles |-> {Reader}, bindings |-> {}]
GrantedPolicy == [ReaderPolicy EXCEPT !.bindings = {Grant(p1)}]

(* Every kind of operation, the colliding ones included.                   *)
AllOperations ==
    {[kind |-> "create", table |-> "action", item |-> Read],
     [kind |-> "create", table |-> "action", item |-> Write],
     [kind |-> "update", table |-> "action", item |-> ReadNoRoute],
     [kind |-> "delete", table |-> "action", id |-> a1],
     [kind |-> "create", table |-> "role", item |-> Reader],
     [kind |-> "create", table |-> "role", item |-> Other],
     [kind |-> "update", table |-> "role", item |-> [Reader EXCEPT !.actions = {}]],
     [kind |-> "delete", table |-> "role", id |-> r1],
     [kind |-> "create", table |-> "role binding", item |-> Grant(p1)],
     [kind |-> "create", table |-> "role binding", item |-> BadGrant],
     [kind |-> "update", table |-> "role binding", item |-> Grant(p2)],
     [kind |-> "delete", table |-> "role binding", id |-> b1],
     [kind |-> "reset"],
     [kind |-> "replace", policy |-> GrantedPolicy]}

(* Four operations that do not commute, for the long interleavings.       *)
FewOperations ==
    {[kind |-> "create", table |-> "role binding", item |-> Grant(p1)],
     [kind |-> "delete", table |-> "role binding", id |-> b1],
     [kind |-> "replace", policy |-> GrantedPolicy],
     [kind |-> "reset"]}
=============================================================================
