------------------------ MODULE MCPrincipalRegistry ------------------------
(* Instances of PrincipalRegistry: what the tables may hold before, and    *)
(* what clients send.                                                      *)
EXTENDS PrincipalRegistry

CONSTANTS e1, n1

x == [group |-> FALSE, id |-> e1]
groupX == [group |-> TRUE, id |-> e1]

User(active) ==
    [kind |-> "USER", externalId |-> x, displayName |-> n1, active |-> active, wellFormed |-> TRUE]
Group(external) ==
    [kind |-> "GROUP", externalId |-> external, displayName |-> n1, active |-> Nil, wellFormed |-> TRUE]

Row(kind, active, deleted) == [kind |-> kind, active |-> active, scimDeleted |-> deleted]
One(row, subject, claims) ==
    [principal |-> [id \in {1} |-> row],
     identity |-> [k \in {<<"scim", subject>>} |-> [owner |-> 1, claims |-> claims]]]

EmptyTables == [principal |-> <<>>, identity |-> <<>>]
DisabledUser == One(Row("USER", FALSE, FALSE), x, ToClaims(User(Nil)))
DeletedUser == One(Row("USER", FALSE, TRUE), x, ToClaims(User(Nil)))
LoggedIn == One(Row("USER", TRUE, FALSE), x, LoginClaims)
UserAndGroup ==
    [principal |-> [id \in 1 .. 2 |-> IF id = 1 THEN Row("USER", TRUE, FALSE) ELSE Row("GROUP", TRUE, FALSE)],
     identity |-> [k \in {<<"scim", x>>, <<"scim", groupX>>} |->
                    IF k = <<"scim", x>> THEN [owner |-> 1, claims |-> ToClaims(User(Nil))]
                    ELSE [owner |-> 2, claims |-> ToClaims(Group(x))]]]

MCSeeds == {EmptyTables, DisabledUser, DeletedUser, LoggedIn, UserAndGroup}
MCInputs ==
    {User(Nil), User(FALSE), Group(x), [User(Nil) EXCEPT !.externalId = groupX],
     [User(Nil) EXCEPT !.wellFormed = FALSE], [User(Nil) EXCEPT !.externalId = Nil]}
MCPatches ==
    {[path |-> "displayName", value |-> Nil], [path |-> "active", value |-> FALSE],
     [path |-> "externalId", value |-> groupX], [path |-> "members[0].value", value |-> Nil]}
MCDirectory == [e \in {x} |-> [kind |-> "USER", enabled |-> FALSE]]
MCReferenced == {2}

AllOperations ==
    {"create", "replace", "patch", "delete", "list", "walk", "materialize", "status", "remove", "login"}
=============================================================================
