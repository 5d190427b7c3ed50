------------------------- MODULE MCDirectorySearch -------------------------
(* Instances of DirectorySearch: three directories, of which Keycloak and  *)
(* LDAP share an issuer and a user; three that share an id; none at all;   *)
(* and what clients search for.  Keycloak's broad search leaves out a      *)
(* service account.  The custom directories have an endpoint per kind, as  *)
(* in the example configuration, and the plain one no kind attribute.      *)
EXTENDS DirectorySearch

CONSTANTS a, b, issuer1, issuer2

Entry(id, kind) == [id |-> id, kind |-> kind]
PerKind(users, workloads, groups) ==
    [kind \in AllKinds |-> CASE kind = "USER" -> users
                             [] kind = "WORKLOAD" -> workloads
                             [] kind = "GROUP" -> groups]

Keycloak ==
    LET groups == <<Entry("g1", "GROUP")>>
    IN [id |-> 2, protocol |-> "KEYCLOAK", issuer |-> issuer1, maxPage |-> 1, kindAttr |-> FALSE,
        found |-> PerKind(<<Entry("u1", "USER"), Entry("u2", "WORKLOAD")>>,
                          <<Entry("u5", "WORKLOAD")>>, groups),
        held |-> PerKind(<<Entry("u1", "USER"), Entry("u2", "WORKLOAD"), Entry("u5", "WORKLOAD")>>,
                         <<>>, groups)]
Ldap ==
    [id |-> 1, protocol |-> "LDAP", issuer |-> issuer1, maxPage |-> 2, kindAttr |-> FALSE,
     found |-> PerKind(<<Entry("u1", "USER"), Entry("u3", "USER"), Entry("u4", "USER")>>, <<>>, <<>>),
     held |-> PerKind(<<Entry("u1", "USER"), Entry("u3", "USER"), Entry("u4", "USER"),
                        Entry("u4", "USER")>>, <<>>, <<>>)]
Custom ==
    [id |-> 3, protocol |-> "CUSTOM", issuer |-> issuer2, maxPage |-> 2, kindAttr |-> TRUE,
     found |-> PerKind(<<Entry("u1", "USER")>>, <<Entry("u1", "WORKLOAD"), Entry("w1", "WORKLOAD")>>,
                       <<Entry("u1", "GROUP")>>),
     held |-> PerKind(<<Entry("u1", "USER")>>, <<>>, <<Entry("u1", "GROUP")>>)]
Plain == [Custom EXCEPT !.kindAttr = FALSE]

(* The same under one id.                                                  *)
SameIdLdap == [Ldap EXCEPT !.id = 2]
SameIdCustom == [Custom EXCEPT !.id = 2, !.issuer = issuer1, !.found["GROUP"] = <<>>]

MCDirectories == {Keycloak, Ldap, Custom, Plain, SameIdLdap, SameIdCustom}
MCCallers == Clients \X CallKeys

Query(kinds, providers, limit) ==
    [kinds |-> kinds, providers |-> providers, limit |-> limit, cursors |-> <<>>]
Alone(federation, q) ==
    [federated |-> federation, search |-> [c \in Clients |-> IF c = a THEN q ELSE None]]

Three == {Keycloak, Ldap, Custom}

MCScenarios ==
    {Alone(Three, Query({"USER", "WORKLOAD"}, {1, 2}, 2)), Alone(Three, Query({}, {1, 3}, 2)),
     Alone(Three, Query({"USER"}, {1, 3}, 1)), Alone(Three, Query({"WORKLOAD"}, {}, 2)),
     Alone(Three, Query({}, {2}, 1)), Alone(Three, Query({"USER"}, {4}, 1)),
     Alone(Three, Query({}, {1}, 0)), Alone({}, Query({}, {}, 1)),
     Alone({Plain}, Query({}, {}, 1)), Alone({Plain}, Query({"USER", "GROUP"}, {3}, 1)),
     Alone({Keycloak, SameIdLdap, Custom}, Query({"USER"}, {}, 2)),
     Alone({Keycloak, SameIdCustom, Ldap}, Query({"WORKLOAD"}, {}, 1)),
     Alone({Keycloak, SameIdCustom}, Query({}, {2}, 1)),
     Alone({Keycloak, SameIdCustom}, Query({}, {}, 1)),
     [federated |-> Three,
      search |-> [c \in Clients |-> IF c = a THEN Query({"USER"}, {2}, 1) ELSE Query({"GROUP"}, {2}, 1)]]}
=============================================================================
