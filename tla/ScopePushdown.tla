---------------------------- MODULE ScopePushdown ----------------------------
(***************************************************************************)
(* A workload turns the allow and deny patterns of its access context into *)
(* a SQL condition (ResourceSqlMapping::compile_scope) and lets the        *)
(* database filter the rows of a table.  The mapping says which URN a row  *)
(* stands for: each head field is a constant or a column, each path        *)
(* segment a literal or a column, and a last remainder column may hold the *)
(* rest of the path.                                                       *)
(*                                                                         *)
(* A condition is text with positional parameters.  Here the text is a     *)
(* sequence of alternatives and then of exceptions, each a conjunction of  *)
(* clauses that hold the places of their operands; the operands are one    *)
(* flat sequence, and a place takes the one its position in the text gives *)
(* it.                                                                     *)
(***************************************************************************)
EXTENDS ResourceUrn, SequencesExt

CONSTANTS
    HeadOrder,      \* the head fields in the order they are compiled
    Mappings,       \* table mappings of workloads
    Grants,         \* the allow and deny lists a context may carry
    MaxRemainder,   \* bound: segments a remainder column holds
    LikeAlso        \* pairs <<a, b>> of paths: b LIKE 'a/%' is true, though b does
                    \* not lie below a (_, % and letter case in a are not escaped)

ASSUME HeadAssumption == HeadOrder \in Seq(HeadFields) /\ ToSet(HeadOrder) = HeadFields

VARIABLES
    mapping,        \* the table this workload queries
    grant,          \* the patterns of the request's access context
    scope,          \* what compile_scope made of them
    row,            \* the row the database tested last
    selected        \* whether the condition held of it

vars == <<mapping, grant, scope, row, selected>>

NoRow == <<>>

(* What a pattern, or a part of one, compiles to: clauses with their       *)
(* operands, nothing at all when it names no row of this table, or         *)
(* UnsupportedRemainderPattern.  A clause with two operands, (c = ? OR c   *)
(* LIKE ?), is written as its two places.                                  *)
Conjunction(places, params) == [result |-> "scope", places |-> places, params |-> params]
Nothing == [result |-> "nothing", places |-> <<>>, params |-> <<>>]
Failure == [result |-> "unsupported", places |-> <<>>, params |-> <<>>]
Unconditional == Conjunction(<<>>, <<>>)

Place(column, test) == [column |-> column, test |-> test]
Equals(column, value) == Conjunction(<<Place(column, "=")>>, <<value>>)
EqualsOrLike(column, prefix) ==
    Conjunction(<<Place(column, "= OR"), Place(column, "LIKE")>>, <<prefix, <<"like", prefix>>>>)

PlacesOf(parts) == FlattenSeq([n \in DOMAIN parts |-> parts[n].places])
ParamsOf(parts) == FlattenSeq([n \in DOMAIN parts |-> parts[n].params])

(* The clauses of all parts, one after another; the first part that names  *)
(* no row ends the pattern, and only the last one is ever unsupported.     *)
AllOf(parts) ==
    IF \E n \in DOMAIN parts : parts[n] = Nothing THEN Nothing
    ELSE IF \E n \in DOMAIN parts : parts[n] = Failure THEN Failure
    ELSE Conjunction(PlacesOf(parts), ParamsOf(parts))

-----------------------------------------------------------------------------
(* compile_segment for one head field.                                     *)
CompileSegment(map, pattern) ==
    IF pattern = Star THEN Unconditional
    ELSE IF map.kind = "column" THEN Equals(map.name, pattern)
    ELSE IF map.name = pattern THEN Unconditional ELSE Nothing

(* compile_remainder: the rest of the pattern against one column.          *)
CompileRemainder(column, rest) ==
    IF rest = <<>> \/ rest = <<GlobStar>> THEN Unconditional
    ELSE IF \E i \in DOMAIN rest : rest[i] = Star THEN Failure
    ELSE IF EndsInGlobStar(rest) THEN EqualsOrLike(column, Front(rest))
    ELSE Equals(column, rest)

Rest(pattern, i) == SubSeq(pattern, i, Len(pattern))

(* compile_path walks mapping and pattern in step.  It stops at the first  *)
(* place where the pattern goes on with **, the mapping with a remainder,  *)
(* or either of them ends.                                                 *)
StopsAt(maps, pattern, i) ==
    \/ i = Len(maps) + 1
    \/ i > Len(pattern)
    \/ pattern[i] = GlobStar
    \/ maps[i].kind = "remainder"

FirstStop(maps, pattern) ==
    CHOOSE i \in 1 .. Len(maps) + 1 :
        /\ StopsAt(maps, pattern, i)
        /\ \A j \in 1 .. i - 1 : ~StopsAt(maps, pattern, j)

CompileStop(maps, pattern, i) ==
    IF i <= Len(pattern) /\ pattern[i] = GlobStar THEN Unconditional
    ELSE IF i <= Len(maps) /\ maps[i].kind = "remainder"
         THEN CompileRemainder(maps[i].name, Rest(pattern, i))
    ELSE IF i = Len(maps) + 1 /\ i > Len(pattern) THEN Unconditional ELSE Nothing

CompilePath(maps, pattern) ==
    LET stop == FirstStop(maps, pattern)
    IN AllOf([i \in 1 .. stop |->
                IF i < stop THEN CompileSegment(maps[i], pattern[i])
                ELSE CompileStop(maps, pattern, stop)])

CompilePattern(m, pattern) ==
    LET heads == Len(HeadOrder)
    IN AllOf([i \in 1 .. heads + 1 |->
                IF i <= heads THEN CompileSegment(m.head[HeadOrder[i]], pattern.head[HeadOrder[i]])
                ELSE CompilePath(m.path, pattern.path)])

-----------------------------------------------------------------------------
(* The text of a condition: what was compiled, without the operands.  A    *)
(* part that is nothing leaves no text and no operands.                    *)
Text(parts) == [n \in DOMAIN parts |-> [result |-> parts[n].result, places |-> parts[n].places]]

DenyAll == [text |-> <<>>, allows |-> 0, params |-> <<>>]

(* or_scopes: one unconditional alternative makes the others superfluous.  *)
OrScopes(parts) ==
    IF \E n \in DOMAIN parts : parts[n] = Unconditional THEN <<Unconditional>> ELSE parts

Compiled(m, patterns) ==
    [i \in DOMAIN patterns |-> CompilePattern(m, patterns[i])]

Scope(text, allows, params) ==
    [text |-> Text(text), allows |-> Len(allows), params |-> ParamsOf(params)]

CombineScope_DenyParamsFirst(allowed, denied) ==
    Scope(OrScopes(allowed) \o denied, OrScopes(allowed), denied \o OrScopes(allowed))

(* (allow) AND NOT (deny) ...: clauses and operands are appended in step.  *)
CombineScope(allowed, denied) ==
    Scope(OrScopes(allowed) \o denied, OrScopes(allowed), OrScopes(allowed) \o denied)

Fails(parts) == \E n \in DOMAIN parts : parts[n] = Failure

(* The deny list is compiled only while the outcome is open: an empty      *)
(* allow list answers first, and so does a deny pattern for every row,     *)
(* even when a later one could not be compiled.                            *)
FirstUnconditional(parts) ==
    \E i \in DOMAIN parts :
        parts[i] = Unconditional /\ \A j \in 1 .. i - 1 : parts[j] # Failure

CompileScope(m, allow, deny) ==
    LET allowed == Compiled(m, allow)
        denied == Compiled(m, deny)
    IN  IF Fails(allowed) THEN Failure
        ELSE IF (\A n \in DOMAIN allowed : allowed[n] = Nothing) \/ FirstUnconditional(denied)
             THEN DenyAll
        ELSE IF Fails(denied) THEN Failure
        ELSE CombineScope(allowed, denied)

-----------------------------------------------------------------------------
(* The database: operands are handed out in the order of the text.         *)
LikeMatches(prefix, text) ==
    \/ Len(text) > Len(prefix) /\ \A i \in DOMAIN prefix : text[i] = prefix[i]
    \/ <<prefix, text>> \in LikeAlso

(* The clauses of a conjunction, given the operands of its places; the     *)
(* second place of a clause is tested with the first.                      *)
Holds(places, bound, r) ==
    \A i \in DOMAIN places :
        LET value == r[places[i].column] IN
        \/ places[i].test = "LIKE"
        \/ value = bound[i]
        \/ places[i].test = "= OR" /\ LikeMatches(bound[i + 1][2], value)

(* The operands of the k-th part of the text.                              *)
Bound(text, params, k) ==
    LET before == Len(PlacesOf(SubSeq(text, 1, k - 1)))
    IN [i \in DOMAIN text[k].places |-> params[before + i]]

PartHolds(text, params, k, r) ==
    text[k].result = "scope" /\ Holds(text[k].places, Bound(text, params, k), r)

Selects(s, r) ==
    /\ \E k \in 1 .. s.allows : PartHolds(s.text, s.params, k, r)
    /\ \A k \in s.allows + 1 .. Len(s.text) : ~PartHolds(s.text, s.params, k, r)

Columns(m) ==
    {m.head[f].name : f \in {g \in HeadFields : m.head[g].kind = "column"}}
        \cup {m.path[i].name : i \in {j \in DOMAIN m.path : m.path[j].kind = "column"}}
RemainderColumns(m) ==
    {m.path[i].name : i \in {j \in DOMAIN m.path : m.path[j].kind = "remainder"}}

Remainders == UNION {[1 .. n -> Segments] : n \in 1 .. MaxRemainder}

Rows(m) ==
    {r \in [Columns(m) \cup RemainderColumns(m) -> Segments \cup Remainders] :
        \A c \in DOMAIN r : r[c] \in IF c \in Columns(m) THEN Segments ELSE Remainders}

(* The URN a row stands for, as the mapping describes it.                  *)
HasRemainder(m) == m.path # <<>> /\ m.path[Len(m.path)].kind = "remainder"
Fixed(m) == IF HasRemainder(m) THEN Len(m.path) - 1 ELSE Len(m.path)
Remainder(m, r) == IF HasRemainder(m) THEN r[m.path[Len(m.path)].name] ELSE <<>>

UrnOf(m, r) ==
    [head |-> [f \in HeadFields |->
                  IF m.head[f].kind = "column" THEN r[m.head[f].name] ELSE m.head[f].name],
     path |-> [i \in 1 .. Fixed(m) + Len(Remainder(m, r)) |->
                  IF i > Fixed(m) THEN Remainder(m, r)[i - Fixed(m)]
                  ELSE IF m.path[i].kind = "column" THEN r[m.path[i].name] ELSE m.path[i].name]]

(* The remainder of a path comes last, in a column of its own.             *)
ASSUME MappingAssumption ==
    /\ MaxRemainder \in Nat
    /\ \A m \in Mappings :
          /\ m.path \in Seq(ToSet(m.path))
          /\ \A i \in DOMAIN m.path :
                /\ m.path[i].kind \in {"literal", "column", "remainder"}
                /\ m.path[i].kind = "remainder" => i = Len(m.path)
          /\ Columns(m) \cap RemainderColumns(m) = {}

(* A context carries patterns that were parsed.                            *)
ASSUME GrantAssumption ==
    \A g \in Grants : \A patterns \in {g.allow, g.deny} :
        /\ patterns \in Seq(ToSet(patterns))
        /\ \A p \in ToSet(patterns) : p \in UrnPattern(Len(p.path))

-----------------------------------------------------------------------------
Init ==
    /\ mapping \in Mappings
    /\ grant \in Grants
    /\ scope = Failure
    /\ row = NoRow
    /\ selected = FALSE

(* current_scope: compile the grants of the request being served.          *)
Compile ==
    /\ row = NoRow
    /\ scope' = CompileScope(mapping, grant.allow, grant.deny)
    /\ UNCHANGED <<mapping, grant, row, selected>>

(* The query runs with the compiled condition over some row.               *)
Query(r) ==
    /\ scope # Failure
    /\ row' = r
    /\ selected' = Selects(scope, r)
    /\ UNCHANGED <<mapping, grant, scope>>

Next == Compile \/ \E r \in Rows(mapping) : Query(r)

Spec == Init /\ [][Next]_vars

-----------------------------------------------------------------------------
Granted(u) ==
    /\ \E i \in DOMAIN grant.allow : Matches(grant.allow[i], u)
    /\ ~ \E i \in DOMAIN grant.deny : Matches(grant.deny[i], u)

(* compile_scope selects exactly the rows whose URN the same patterns      *)
(* grant when the gateway evaluates them (UrnPattern::matches): no row     *)
(* more, no row less, whatever the mapping, the number of patterns and the *)
(* order the parameters end up in.                                         *)
ScopeIsExact == row # NoRow => (selected <=> Granted(UrnOf(mapping, row)))

(* The claim fails in two places, both on a remainder column: a pattern    *)
(* that ends where the column begins adds no condition on it, and a prefix *)
(* goes to LIKE without escaping.                                          *)
EndsAtRemainder(m, path) ==
    HasRemainder(m) /\ Len(path) = Fixed(m) /\ ~EndsInGlobStar(path)

LikeGap(m, pattern, path) ==
    /\ HasRemainder(m) /\ EndsInGlobStar(pattern) /\ Len(pattern) > Fixed(m) + 1
    /\ <<Front(Rest(pattern, Fixed(m) + 1)), Rest(path, Fixed(m) + 1)>> \in LikeAlso

PathWidened(m, pattern, path) ==
    /\ EndsAtRemainder(m, pattern) \/ LikeGap(m, pattern, path)
    /\ \A i \in 1 .. Fixed(m) : SegmentMatches(pattern[i], path[i])

Widened(m, pattern, urn) ==
    /\ \A f \in HeadFields : SegmentMatches(pattern.head[f], urn.head[f])
    /\ PathWidened(m, pattern.path, urn.path)

Reaches(m, pattern, urn) == Matches(pattern, urn) \/ Widened(m, pattern, urn)

(* Those two are all there is: compile_scope selects exactly the rows that *)
(* an allow pattern reaches and no deny pattern does, where a pattern      *)
(* reaches what UrnPattern::matches accepts and what the two places add.   *)
(* So a row that a deny pattern matches is never selected, and a scope     *)
(* none of whose patterns is widened on a row decides it as the gateway.   *)
ScopeIsExactButForGaps ==
    row # NoRow =>
        LET reached(patterns) ==
                \E i \in DOMAIN patterns : Reaches(mapping, patterns[i], UrnOf(mapping, row))
        IN selected <=> reached(grant.allow) /\ ~reached(grant.deny)
=============================================================================
