--------------------------- MODULE MCScopePushdown ---------------------------
(***************************************************************************)
(* Three tables: documents, whose path is a literal and a column, rows of  *)
(* one constant tenant whose path is two columns, and objects, whose key   *)
(* is a remainder column.  Grants combine up to three patterns, of which   *)
(* at most two allow and at most two deny.                                 *)
(***************************************************************************)
EXTENDS ScopePushdown

CONSTANTS
    d, x            \* path segments; both also serve as tenants

Map(kind, name) == [kind |-> kind, name |-> name]
Mapping(tenant, path) == [head |-> [f \in HeadFields |-> tenant], path |-> path]

Documents == Mapping(Map("column", "tenant"), <<Map("literal", d), Map("column", "id")>>)
Constant == Mapping(Map("const", d), <<Map("column", "kind"), Map("column", "id")>>)
Objects == Mapping(Map("column", "tenant"), <<Map("literal", d), Map("remainder", "key")>>)

MCMappings == {Documents, Constant, Objects}
MCObjects == {Objects}
MCHeadOrder == <<"tenant">>

Pattern(tenant, path) == [head |-> [f \in HeadFields |-> tenant], path |-> path]

(* Every pattern of up to three segments, those that end where the         *)
(* remainder column begins among them.                                     *)
Deep == UrnPattern(3)

(* A handful with which two allow patterns and a deny overlap.             *)
Few == {Pattern(x, <<d, x>>), Pattern(Star, <<d, Star>>), Pattern(d, <<d, GlobStar>>),
        Pattern(x, <<GlobStar>>), Pattern(Star, <<x, Star>>), Pattern(Star, <<d, x, d>>),
        Pattern(x, <<d, x, GlobStar>>), Pattern(Star, <<GlobStar>>), Pattern(x, <<d>>)}

Grant(allow, deny) == [allow |-> allow, deny |-> deny]

MCGrants ==
    {Grant(<<>>, <<>>)}
        \cup {Grant(<<a>>, <<>>) : a \in Deep}
        \cup {Grant(<<a>>, <<b>>) : a \in Few, b \in Deep}
        \cup {Grant(<<a>>, <<b>>) : a \in Deep, b \in Few}
        \cup {Grant(<<a, b>>, <<c>>) : a \in Few, b \in Few, c \in Few}
        \cup {Grant(<<a>>, <<b, c>>) : a \in Few, b \in Few, c \in Few}

(* The patterns that end exactly where the remainder column begins.        *)
ShortGrants == {Grant(<<Pattern(x, <<d>>)>>, <<>>)}

(* x as a text with _ or % in it: LIKE 'x/%' is also true of what lies     *)
(* below d.                                                                *)
LikeWildcards == {<<<<x>>, <<d, d>>>>, <<<<x>>, <<d, x>>>>}
NoneLikesAnother == {}
=============================================================================
