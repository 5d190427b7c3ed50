---------------------------- MODULE ResourceUrn ----------------------------
(***************************************************************************)
(* Resource URNs and the patterns that grants name them with.  A URN has   *)
(* four head fields (partition, service, region, tenant), which all behave *)
(* alike, and a path of at least one segment.  A pattern may put * for any *)
(* field or segment, and ** for whatever remains of the path.              *)
(***************************************************************************)
EXTENDS Naturals, Sequences

CONSTANTS
    HeadFields,     \* the names of the head fields that are modelled
    Segments        \* what a field or a path segment may be

Star == "*"
GlobStar == "**"

ASSUME SegmentAssumption == {Star, GlobStar} \cap Segments = {}

Urn(maxPath) ==
    [head : [HeadFields -> Segments],
     path : UNION {[1 .. n -> Segments] : n \in 1 .. maxPath}]

(* parse_path_pattern: ** is accepted as the final segment only.           *)
PathPattern(maxPath) ==
    {p \in UNION {[1 .. n -> Segments \cup {Star, GlobStar}] : n \in 1 .. maxPath} :
        \A i \in 1 .. Len(p) - 1 : p[i] # GlobStar}

UrnPattern(maxPath) ==
    [head : [HeadFields -> Segments \cup {Star}], path : PathPattern(maxPath)]

EndsInGlobStar(path) == path # <<>> /\ path[Len(path)] = GlobStar

SegmentMatches(pattern, value) == pattern = Star \/ pattern = value

(* path_matches: ** also stands for no segment at all.                     *)
PathMatches(pattern, path) ==
    LET fixed == IF EndsInGlobStar(pattern) THEN Len(pattern) - 1 ELSE Len(pattern) IN
    /\ IF EndsInGlobStar(pattern) THEN Len(path) >= fixed ELSE Len(path) = fixed
    /\ \A i \in 1 .. fixed : SegmentMatches(pattern[i], path[i])

Matches(pattern, urn) ==
    /\ \A f \in HeadFields : SegmentMatches(pattern.head[f], urn.head[f])
    /\ PathMatches(pattern.path, urn.path)

MatchesAny(pattern, urns) == \E u \in urns : Matches(pattern, u)
=============================================================================
