------------------------ MODULE ScopePushdownProofs ------------------------
(***************************************************************************)
(* The SQL condition a scope compiles to selects the rows the patterns     *)
(* grant, for every table mapping and every list of patterns: each place   *)
(* of the text gets its own operand, and the clauses of a pattern hold of  *)
(* a row where the URN matcher accepts the row's URN.                      *)
(***************************************************************************)
EXTENDS ScopePushdown, TLAPS, WellFoundedInduction

(* A set of naturals that is not empty has a least member.                 *)
LEMMA LeastNatural ==
    ASSUME NEW T \in SUBSET Nat, T # {}
    PROVE  \E n \in T : \A m \in T : n <= m
  <1> DEFINE L == OpToRel(<, Nat)
  <1>1. IsWellFoundedOn(L, Nat)
    BY NatLessThanWellFounded
  <1>2. \A x \in Nat : \A y \in Nat : ~ (<<x, y>> \in L) => ~ (x < y)
    BY DEF OpToRel
  <1> HIDE DEF L
  <1>3. PICK n \in T : \A m \in T : ~ (<<m, n>> \in L)
    BY WFMin, <1>1
  <1>4. \A m \in T : ~ (m < n)
    BY <1>2, <1>3, Zenon
  <1>5. QED
    BY <1>4

-----------------------------------------------------------------------------
(* Sequences of sequences, and where their members end up in the flat one. *)

(* Two sequences, one behind the other.                                    *)
LEMMA Joined ==
    ASSUME NEW S, NEW s \in Seq(S), NEW t \in Seq(S)
    PROVE  /\ s \o t \in Seq(S) /\ Len(s \o t) = Len(s) + Len(t)
           /\ \A i \in 1 .. Len(s) : (s \o t)[i] = s[i]
           /\ \A i \in 1 .. Len(t) : (s \o t)[Len(s) + i] = t[i]
  OBVIOUS

Flattens(seqs, n, f) ==
    f = [i \in 1 .. n |-> IF i = 1 THEN seqs[i] ELSE f[i - 1] \o seqs[i]]

(* The recursion that flattens a sequence has a solution.                  *)
LEMMA FlatteningExists ==
    ASSUME NEW seqs, NEW n \in Nat
    PROVE  \E f : Flattens(seqs, n, f)
  <1> DEFINE T == {k \in Nat : ~ \E f : Flattens(seqs, k, f)}
  <1> SUFFICES ASSUME T # {} PROVE FALSE
    OBVIOUS
  <1>1. PICK k \in T : \A m \in T : k <= m
    BY LeastNatural
  <1>2. k \in Nat /\ ~ \E f : Flattens(seqs, k, f)
    OBVIOUS
  <1>3. CASE k = 0
    <2>1. PICK f : f = [i \in 1 .. 0 |-> seqs[i]]
      OBVIOUS
    <2>2. f = [i \in 1 .. 0 |-> IF i = 1 THEN seqs[i] ELSE f[i - 1] \o seqs[i]]
      BY <2>1
    <2>3. QED
      BY <1>2, <1>3, <2>2 DEF Flattens
  <1>4. CASE k # 0
    <2>1. k - 1 \in Nat /\ k - 1 \notin T
      BY <1>1, <1>2, <1>4
    <2>2. PICK g : Flattens(seqs, k - 1, g)
      BY <2>1
    <2>3. \A i \in 1 .. k - 1 : g[i] = IF i = 1 THEN seqs[i] ELSE g[i - 1] \o seqs[i]
      BY <2>2 DEF Flattens
    <2>4. PICK f : f = [i \in 1 .. k |-> IF i = k THEN (IF k = 1 THEN seqs[k] ELSE g[k - 1] \o seqs[k])
                                         ELSE g[i]]
      OBVIOUS
    <2>5. \A i \in 1 .. k : f[i] = IF i = 1 THEN seqs[i] ELSE f[i - 1] \o seqs[i]
      <3> SUFFICES ASSUME NEW i \in 1 .. k
                   PROVE  f[i] = IF i = 1 THEN seqs[i] ELSE f[i - 1] \o seqs[i]
        OBVIOUS
      <3>1. i # 1 => i - 1 \in 1 .. k /\ i - 1 # k /\ f[i - 1] = g[i - 1]
        BY <1>2, <2>4
      <3>2. CASE i = k
        BY <2>4, <3>1, <3>2
      <3>3. CASE i # k
        <4>1. i \in 1 .. k - 1 /\ f[i] = g[i]
          BY <1>2, <2>4, <3>3
        <4>2. QED
          BY <2>3, <3>1, <4>1
      <3>4. QED
        BY <3>2, <3>3
    <2>6. Flattens(seqs, k, f)
      <3>1. f = [i \in 1 .. k |-> f[i]]
        BY <2>4
      <3>2. QED
        BY <2>5, <3>1 DEF Flattens
    <2>7. QED
      BY <1>2, <2>6
  <1>5. QED
    BY <1>3, <1>4

AgreeUpto(s, t, n) == \A i \in 1 .. n : s[i] = t[i]

(* Only one, and a shorter sequence has the beginning of it.               *)
LEMMA FlatteningUnique ==
    ASSUME NEW seqs, NEW t, NEW n \in Nat, NEW l \in Nat, l <= n, AgreeUpto(t, seqs, l),
           NEW f, Flattens(seqs, n, f), NEW g, Flattens(t, l, g)
    PROVE  AgreeUpto(g, f, l)
  <1> DEFINE T == {i \in 1 .. l : g[i] # f[i]}
  <1> SUFFICES ASSUME T # {} PROVE FALSE
    BY DEF AgreeUpto
  <1>1. T \in SUBSET Nat
    OBVIOUS
  <1>2. PICK i \in T : \A m \in T : i <= m
    BY <1>1, LeastNatural
  <1>3. i \in 1 .. l /\ g[i] # f[i] /\ i \in 1 .. n
    OBVIOUS
  <1>4. i # 1 => g[i - 1] = f[i - 1]
    BY <1>2, <1>3
  <1>5. f[i] = IF i = 1 THEN seqs[i] ELSE f[i - 1] \o seqs[i]
    BY <1>3 DEF Flattens
  <1>6. g[i] = IF i = 1 THEN t[i] ELSE g[i - 1] \o t[i]
    BY <1>3 DEF Flattens
  <1> HIDE DEF T
  <1>7. QED
    BY <1>3, <1>4, <1>5, <1>6 DEF AgreeUpto

(* The first n of them, flat.                                              *)
Upto(seqs, n) == FlattenSeq(SubSeq(seqs, 1, n))

(* One more sequence adds its members behind the others.                   *)
LEMMA UptoIs ==
    ASSUME NEW S, NEW seqs \in Seq(Seq(S))
    PROVE  /\ Upto(seqs, 0) = <<>>
           /\ \A n \in 1 .. Len(seqs) : Upto(seqs, n) = Upto(seqs, n - 1) \o seqs[n]
           /\ Upto(seqs, Len(seqs)) = FlattenSeq(seqs)
  <1>1. PICK L \in Nat : L = Len(seqs)
    OBVIOUS
  <1>2. PICK f : Flattens(seqs, L, f)
    BY FlatteningExists
  <1>3. Upto(seqs, 0) = <<>>
    <2>1. SubSeq(seqs, 1, 0) = <<>>
      OBVIOUS
    <2>2. QED
      BY <2>1 DEF Upto, FlattenSeq
  <1>4. ASSUME NEW n \in 1 .. L PROVE Upto(seqs, n) = f[n]
    <2>1. PICK t : t = SubSeq(seqs, 1, n)
      OBVIOUS
    <2>2. Len(t) = n /\ n # 0 /\ \A i \in 1 .. n : t[i] = seqs[i]
      BY <1>1, <2>1
    <2>3. FlattenSeq(t) = (CHOOSE g : Flattens(t, n, g))[n]
      BY <2>2 DEF FlattenSeq, Flattens
    <2>4. PICK g : g = CHOOSE h : Flattens(t, n, h)
      OBVIOUS
    <2>5. n \in Nat /\ n <= L
      BY <1>1
    <2>6. Flattens(t, n, g)
      BY <2>4, <2>5, FlatteningExists
    <2>7. AgreeUpto(g, f, n)
      <3>1. AgreeUpto(t, seqs, n)
        BY <2>2 DEF AgreeUpto
      <3>2. QED
        BY <1>2, <2>5, <2>6, <3>1, FlatteningUnique
    <2>8. n \in 1 .. n
      BY <2>5
    <2>9. QED
      BY <2>1, <2>3, <2>4, <2>7, <2>8 DEF Upto, AgreeUpto
  <1>5. ASSUME NEW n \in 1 .. L PROVE f[n] = Upto(seqs, n - 1) \o seqs[n]
    <2>1. f[n] = IF n = 1 THEN seqs[n] ELSE f[n - 1] \o seqs[n]
      BY <1>2 DEF Flattens
    <2>2. CASE n = 1
      <3>1. seqs[1] \in Seq(S)
        BY <1>1, <2>2
      <3>2. <<>> \o seqs[1] = seqs[1]
        BY <3>1
      <3>3. n - 1 = 0
        BY <2>2
      <3>4. QED
        BY <1>3, <2>1, <2>2, <3>2, <3>3
    <2>3. CASE n # 1
      <3>1. n - 1 \in 1 .. L
        BY <2>3
      <3>2. QED
        BY <1>4, <2>1, <2>3, <3>1
    <2>4. QED
      BY <2>2, <2>3
  <1>6. Upto(seqs, Len(seqs)) = FlattenSeq(seqs)
    <2>1. SubSeq(seqs, 1, Len(seqs)) = seqs
      OBVIOUS
    <2>2. QED
      BY <2>1 DEF Upto
  <1>7. QED
    BY <1>1, <1>3, <1>4, <1>5, <1>6

(* Where the n-th begins.                                                  *)
Before(seqs, n) == Len(Upto(seqs, n - 1))

(* Every member of a member has its place, and every place one of them.    *)
Placed(seqs, flat, n) ==
    /\ \A k \in 1 .. n : \A i \in 1 .. Len(seqs[k]) :
          Before(seqs, k) + i \in 1 .. Len(flat) /\ flat[Before(seqs, k) + i] = seqs[k][i]
    /\ \A j \in 1 .. Len(flat) :
          \E k \in 1 .. n : \E i \in 1 .. Len(seqs[k]) : j = Before(seqs, k) + i

(* In the flat sequence every member of a member has its place.            *)
LEMMA UptoPlaced ==
    ASSUME NEW S, NEW seqs \in Seq(Seq(S))
    PROVE  \A n \in 0 .. Len(seqs) :
              Upto(seqs, n) \in Seq(S) /\ Placed(seqs, Upto(seqs, n), n)
  <1> DEFINE Good(n) == Upto(seqs, n) \in Seq(S) /\ Placed(seqs, Upto(seqs, n), n)
             T == {n \in 0 .. Len(seqs) : ~Good(n)}
  <1> SUFFICES ASSUME T # {} PROVE FALSE
    OBVIOUS
  <1>1. T \in SUBSET Nat
    OBVIOUS
  <1>2. PICK n \in T : \A m \in T : n <= m
    BY <1>1, LeastNatural
  <1>3. n \in 0 .. Len(seqs) /\ ~Good(n) /\ n \in Nat /\ Len(seqs) \in Nat
    OBVIOUS
  <1>4. CASE n = 0
    <2>1. Upto(seqs, 0) = <<>>
      BY UptoIs
    <2>2. 1 .. Len(<<>>) = {} /\ 1 .. 0 = {} /\ <<>> \in Seq(S)
      OBVIOUS
    <2>3. Good(0)
      BY <2>1, <2>2 DEF Placed
    <2>4. QED
      BY <1>3, <1>4, <2>3
  <1>5. CASE n # 0
    <2>1. n - 1 \in 0 .. Len(seqs) /\ n - 1 \notin T
      BY <1>2, <1>3, <1>5
    <2>2. PICK u : u = Upto(seqs, n - 1)
      OBVIOUS
    <2>3. u \in Seq(S) /\ Placed(seqs, u, n - 1)
      BY <2>1, <2>2
    <2>4. n \in 1 .. Len(seqs) /\ seqs[n] \in Seq(S)
      BY <1>3, <1>5
    <2>5. PICK w : w = u \o seqs[n]
      OBVIOUS
    <2>6. Upto(seqs, n) = w
      BY <2>2, <2>4, <2>5, UptoIs
    <2>7. PICK a \in Nat : a = Len(u)
      BY <2>3
    <2>8. PICK b \in Nat : b = Len(seqs[n])
      BY <2>4
    <2>9. /\ w \in Seq(S) /\ Len(w) = a + b
          /\ \A i \in 1 .. a : w[i] = u[i]
          /\ \A i \in 1 .. b : w[a + i] = seqs[n][i]
      <3>1. PICK v : v = seqs[n]
        OBVIOUS
      <3>2. v \in Seq(S)
        BY <2>4, <3>1
      <3>3. /\ u \o v \in Seq(S) /\ Len(u \o v) = Len(u) + Len(v)
            /\ \A i \in 1 .. Len(u) : (u \o v)[i] = u[i]
            /\ \A i \in 1 .. Len(v) : (u \o v)[Len(u) + i] = v[i]
        BY <2>3, <3>2, Joined
      <3>4. QED
        BY <2>5, <2>7, <2>8, <3>1, <3>3, Zenon
    <2>10. Before(seqs, n) = a
      BY <2>2, <2>7 DEF Before
    <2>11. ASSUME NEW k \in 1 .. n, NEW i \in 1 .. Len(seqs[k])
           PROVE  Before(seqs, k) + i \in 1 .. Len(w) /\ w[Before(seqs, k) + i] = seqs[k][i]
      <3>1. CASE k = n
        <4>1. i \in 1 .. b /\ a + i \in 1 .. a + b
          BY <2>8, <3>1
        <4>2. QED
          BY <2>9, <2>10, <3>1, <4>1
      <3>2. CASE k # n
        <4>1. k \in 1 .. n - 1
          BY <1>3, <3>2
        <4>2. Before(seqs, k) + i \in 1 .. a /\ u[Before(seqs, k) + i] = seqs[k][i]
          BY <2>3, <2>7, <4>1 DEF Placed
        <4>3. PICK j \in 1 .. a : j = Before(seqs, k) + i
          BY <4>2
        <4>4. j \in 1 .. a + b /\ w[j] = u[j]
          BY <2>9
        <4>5. QED
          BY <2>9, <4>2, <4>3, <4>4
      <3>3. QED
        BY <3>1, <3>2
    <2>12. ASSUME NEW j \in 1 .. Len(w)
           PROVE  \E k \in 1 .. n : \E i \in 1 .. Len(seqs[k]) : j = Before(seqs, k) + i
      <3>1. CASE j <= a
        <4>1. j \in 1 .. Len(u)
          BY <2>7, <2>9, <3>1
        <4>2. PICK k \in 1 .. n - 1 : \E i \in 1 .. Len(seqs[k]) : j = Before(seqs, k) + i
          BY <2>3, <4>1 DEF Placed
        <4>3. k \in 1 .. n
          BY <1>3
        <4>4. QED
          BY <4>2, <4>3
      <3>2. CASE ~ (j <= a)
        <4>1. j - a \in 1 .. b /\ j = a + (j - a)
          BY <2>9, <3>2
        <4>2. n \in 1 .. n
          BY <1>3, <1>5
        <4>3. QED
          BY <2>8, <2>10, <4>1, <4>2
      <3>3. QED
        BY <3>1, <3>2
    <2>13. Placed(seqs, w, n)
      BY <2>11, <2>12 DEF Placed
    <2>14. QED
      BY <1>3, <2>6, <2>9, <2>13
  <1>6. QED
    BY <1>4, <1>5

(* Sequences of the same lengths have their members in the same places.    *)
LEMMA SamePlaces ==
    ASSUME NEW S, NEW seqs \in Seq(Seq(S)), NEW R, NEW others \in Seq(Seq(R)),
           Len(seqs) = Len(others), \A k \in 1 .. Len(seqs) : Len(seqs[k]) = Len(others[k])
    PROVE  \A n \in 0 .. Len(seqs) : Len(Upto(seqs, n)) = Len(Upto(others, n))
  <1> DEFINE T == {n \in 0 .. Len(seqs) : Len(Upto(seqs, n)) # Len(Upto(others, n))}
  <1> SUFFICES ASSUME T # {} PROVE FALSE
    OBVIOUS
  <1>1. T \in SUBSET Nat
    OBVIOUS
  <1>2. PICK n \in T : \A m \in T : n <= m
    BY <1>1, LeastNatural
  <1>3. /\ n \in 0 .. Len(seqs) /\ Len(seqs) \in Nat
        /\ Len(Upto(seqs, n)) # Len(Upto(others, n))
    OBVIOUS
  <1>4. n # 0
    BY <1>3, UptoIs
  <1>5. /\ n - 1 \in 0 .. Len(seqs) /\ n \in 1 .. Len(seqs)
        /\ Len(Upto(seqs, n - 1)) = Len(Upto(others, n - 1))
    BY <1>2, <1>3, <1>4
  <1>6. Upto(seqs, n - 1) \in Seq(S) /\ Upto(others, n - 1) \in Seq(R)
    BY <1>5, UptoPlaced
  <1>7. /\ Upto(seqs, n) = Upto(seqs, n - 1) \o seqs[n]
        /\ Upto(others, n) = Upto(others, n - 1) \o others[n]
    BY <1>5, UptoIs
  <1>8. seqs[n] \in Seq(S) /\ others[n] \in Seq(R) /\ Len(seqs[n]) = Len(others[n])
    BY <1>5
  <1>9. /\ Len(Upto(seqs, n)) = Len(Upto(seqs, n - 1)) + Len(seqs[n])
        /\ Len(Upto(others, n)) = Len(Upto(others, n - 1)) + Len(others[n])
    <2>1. Len(Upto(seqs, n - 1) \o seqs[n]) = Len(Upto(seqs, n - 1)) + Len(seqs[n])
      BY <1>6, <1>8, Joined, Zenon
    <2>2. Len(Upto(others, n - 1) \o others[n]) = Len(Upto(others, n - 1)) + Len(others[n])
      BY <1>6, <1>8, Joined, Zenon
    <2>3. QED
      BY <1>7, <2>1, <2>2, Zenon
  <1>10. QED
    BY <1>3, <1>5, <1>8, <1>9, Zenon
-----------------------------------------------------------------------------
(* What is compiled, piece by piece.                                       *)

IsSeq(s) == s \in Seq(ToSet(s))

(* Clauses and operands in step; a clause has its second place.            *)
InStep(p) ==
    /\ IsSeq(p.places) /\ IsSeq(p.params) /\ Len(p.places) = Len(p.params)
    /\ \A i \in 1 .. Len(p.places) : p.places[i].test = "= OR" => i + 1 \in 1 .. Len(p.places)

Piece(p) == InStep(p) /\ (p = Failure \/ p = Nothing \/ p.result = "scope")

Accepts(p, r) == p.result = "scope" /\ Holds(p.places, p.params, r)

(* A function whose members are sequences is a sequence of sequences over  *)
(* one set.                                                                *)
LEMMA SequencesOf ==
    ASSUME NEW n \in Nat, NEW f, f = [k \in 1 .. n |-> f[k]], \A k \in 1 .. n : IsSeq(f[k])
    PROVE  \E S : f \in Seq(Seq(S)) /\ Len(f) = n
  <1>1. PICK S : S = UNION {ToSet(f[k]) : k \in 1 .. n}
    OBVIOUS
  <1>2. ASSUME NEW k \in 1 .. n PROVE f[k] \in Seq(S)
    <2>1. PICK s : s = f[k]
      OBVIOUS
    <2>2. s \in Seq(ToSet(s)) /\ ToSet(s) \subseteq S
      BY <1>1, <2>1 DEF IsSeq
    <2>3. QED
      BY <2>1, <2>2
  <1>3. f \in [1 .. n -> Seq(S)]
    BY <1>2
  <1>4. f \in Seq(Seq(S)) /\ Len(f) = n
    BY <1>3
  <1>5. QED
    BY <1>4

Offset(parts, k) == Before([n \in DOMAIN parts |-> parts[n].places], k)

(* Each place of the text has the operand that was compiled with it.       *)
LaidOut(parts, n) ==
    /\ IsSeq(PlacesOf(parts)) /\ IsSeq(ParamsOf(parts))
    /\ Len(PlacesOf(parts)) = Len(ParamsOf(parts))
    /\ \A k \in 1 .. n : Offset(parts, k) \in Nat
    /\ \A k \in 1 .. n : \A i \in 1 .. Len(parts[k].places) :
          /\ Offset(parts, k) + i \in 1 .. Len(PlacesOf(parts))
          /\ PlacesOf(parts)[Offset(parts, k) + i] = parts[k].places[i]
          /\ ParamsOf(parts)[Offset(parts, k) + i] = parts[k].params[i]
    /\ \A j \in 1 .. Len(PlacesOf(parts)) :
          \E k \in 1 .. n : \E i \in 1 .. Len(parts[k].places) : j = Offset(parts, k) + i

(* Parts compiled in step stay in step when they are put together.         *)
LEMMA PartsAreLaidOut ==
    ASSUME NEW n \in Nat, NEW parts, DOMAIN parts = 1 .. n,
           \A k \in 1 .. n : InStep(parts[k])
    PROVE  LaidOut(parts, n)
  <1>1. PICK P : P = [k \in DOMAIN parts |-> parts[k].places]
    OBVIOUS
  <1>2. PICK Q : Q = [k \in DOMAIN parts |-> parts[k].params]
    OBVIOUS
  <1>3. /\ P = [k \in 1 .. n |-> P[k]] /\ Q = [k \in 1 .. n |-> Q[k]]
        /\ \A k \in 1 .. n : P[k] = parts[k].places
        /\ \A k \in 1 .. n : Q[k] = parts[k].params
    BY <1>1, <1>2
  <1>4. /\ \A k \in 1 .. n : IsSeq(P[k])
        /\ \A k \in 1 .. n : IsSeq(Q[k])
        /\ \A k \in 1 .. n : Len(P[k]) = Len(Q[k])
    BY <1>3 DEF InStep
  <1>5. PICK S : P \in Seq(Seq(S)) /\ Len(P) = n
    BY <1>3, <1>4, SequencesOf
  <1>6. PICK R : Q \in Seq(Seq(R)) /\ Len(Q) = n
    BY <1>3, <1>4, SequencesOf
  <1>7. PICK u : u = Upto(P, n)
    OBVIOUS
  <1>8. PICK w : w = Upto(Q, n)
    OBVIOUS
  <1>9. u = PlacesOf(parts) /\ w = ParamsOf(parts)
    BY <1>1, <1>2, <1>5, <1>6, <1>7, <1>8, UptoIs DEF PlacesOf, ParamsOf
  <1>10. n \in 0 .. n
    OBVIOUS
  <1>11. u \in Seq(S) /\ Placed(P, u, n) /\ w \in Seq(R) /\ Placed(Q, w, n)
    <2>1. u \in Seq(S) /\ Placed(P, u, n)
      BY <1>5, <1>7, <1>10, UptoPlaced
    <2>2. w \in Seq(R) /\ Placed(Q, w, n)
      BY <1>6, <1>8, <1>10, UptoPlaced
    <2>3. QED
      BY <2>1, <2>2
  <1>12. \A m \in 0 .. n : Len(Upto(P, m)) = Len(Upto(Q, m))
    BY <1>4, <1>5, <1>6, SamePlaces
  <1>13. ASSUME NEW k \in 1 .. n
         PROVE  /\ Offset(parts, k) = Before(P, k) /\ Before(P, k) = Before(Q, k)
                /\ Before(P, k) \in Nat
    <2>1. k - 1 \in 0 .. n
      OBVIOUS
    <2>2. Upto(P, k - 1) \in Seq(S)
      BY <1>5, <2>1, UptoPlaced
    <2>3. Len(Upto(P, k - 1)) \in Nat
      BY <2>2
    <2>4. QED
      BY <1>1, <1>12, <2>1, <2>3 DEF Offset, Before
  <1>14. IsSeq(u) /\ IsSeq(w) /\ Len(u) = Len(w)
    BY <1>7, <1>8, <1>10, <1>11, <1>12 DEF IsSeq, ToSet
  <1>15. ASSUME NEW k \in 1 .. n, NEW i \in 1 .. Len(parts[k].places)
         PROVE  /\ Offset(parts, k) + i \in 1 .. Len(u)
                /\ u[Offset(parts, k) + i] = parts[k].places[i]
                /\ w[Offset(parts, k) + i] = parts[k].params[i]
    <2>1. i \in 1 .. Len(P[k]) /\ i \in 1 .. Len(Q[k])
      BY <1>3, <1>4
    <2>2. Before(P, k) + i \in 1 .. Len(u) /\ u[Before(P, k) + i] = P[k][i]
      BY <1>11, <2>1 DEF Placed
    <2>3. w[Before(Q, k) + i] = Q[k][i]
      BY <1>11, <2>1 DEF Placed
    <2>4. QED
      BY <1>3, <1>13, <2>2, <2>3
  <1>16. ASSUME NEW j \in 1 .. Len(u)
         PROVE  \E k \in 1 .. n : \E i \in 1 .. Len(parts[k].places) : j = Offset(parts, k) + i
    <2>1. PICK k \in 1 .. n : \E i \in 1 .. Len(P[k]) : j = Before(P, k) + i
      BY <1>11 DEF Placed
    <2>2. PICK i \in 1 .. Len(P[k]) : j = Before(P, k) + i
      BY <2>1
    <2>3. QED
      BY <1>3, <1>13, <2>2
  <1>17. QED
    BY <1>9, <1>13, <1>14, <1>15, <1>16 DEF LaidOut
Clause(places, bound, r, i) ==
    \/ places[i].test = "LIKE"
    \/ r[places[i].column] = bound[i]
    \/ places[i].test = "= OR" /\ LikeMatches(bound[i + 1][2], r[places[i].column])

(* The clauses of a conjunction, one by one.                               *)
LEMMA HoldsClauses ==
    ASSUME NEW places, NEW bound, NEW r, IsSeq(places)
    PROVE  Holds(places, bound, r) <=> \A i \in 1 .. Len(places) : Clause(places, bound, r, i)
  <1>1. DOMAIN places = 1 .. Len(places)
    BY DEF IsSeq
  <1>2. QED
    BY <1>1 DEF Holds, Clause

(* A clause means the same in the text as in the part it comes from.       *)
LEMMA ClauseLaidOut ==
    ASSUME NEW n \in Nat, NEW parts, NEW r, LaidOut(parts, n),
           \A k \in 1 .. n : InStep(parts[k]),
           NEW k \in 1 .. n, NEW i \in 1 .. Len(parts[k].places)
    PROVE  /\ Offset(parts, k) + i \in 1 .. Len(PlacesOf(parts))
           /\ Clause(PlacesOf(parts), ParamsOf(parts), r, Offset(parts, k) + i)
                 <=> Clause(parts[k].places, parts[k].params, r, i)
           /\ PlacesOf(parts)[Offset(parts, k) + i].test = "= OR"
                 => Offset(parts, k) + i + 1 \in 1 .. Len(PlacesOf(parts))
  <1>1. PICK u : u = PlacesOf(parts)
    OBVIOUS
  <1>2. PICK w : w = ParamsOf(parts)
    OBVIOUS
  <1>3. PICK o \in Nat : o = Offset(parts, k)
    BY DEF LaidOut
  <1>4. PICK p : p = parts[k]
    OBVIOUS
  <1>5. \A h \in 1 .. Len(p.places) :
           o + h \in 1 .. Len(u) /\ u[o + h] = p.places[h] /\ w[o + h] = p.params[h]
    BY <1>1, <1>2, <1>3, <1>4 DEF LaidOut
  <1>6. o + i \in 1 .. Len(u) /\ u[o + i] = p.places[i] /\ w[o + i] = p.params[i]
    BY <1>4, <1>5
  <1>7. ASSUME p.places[i].test = "= OR"
        PROVE  o + i + 1 \in 1 .. Len(u) /\ w[o + i + 1] = p.params[i + 1]
    <2>1. i + 1 \in 1 .. Len(p.places)
      BY <1>4, <1>7 DEF InStep
    <2>2. o + (i + 1) = o + i + 1
      BY <1>3
    <2>3. QED
      BY <1>5, <2>1, <2>2
  <1>8. Clause(u, w, r, o + i) <=> Clause(p.places, p.params, r, i)
    BY <1>6, <1>7 DEF Clause
  <1>9. QED
    BY <1>1, <1>2, <1>3, <1>4, <1>6, <1>7, <1>8

(* Nothing and a failure have no clauses and accept no row.                *)
LEMMA NoPiece ==
    /\ Piece(Nothing) /\ Piece(Failure) /\ Nothing # Failure
    /\ \A r : ~Accepts(Nothing, r) /\ ~Accepts(Failure, r)
  <1>1. IsSeq(<<>>) /\ Len(<<>>) = 0 /\ 1 .. 0 = {}
    BY DEF IsSeq, ToSet
  <1>2. QED
    BY <1>1 DEF Piece, InStep, Nothing, Failure, Accepts

(* A conjunction of parts is compiled in step and holds where each part    *)
(* does.                                                                   *)
LEMMA AllOfParts ==
    ASSUME NEW n \in Nat, NEW parts, DOMAIN parts = 1 .. n,
           \A k \in 1 .. n : Piece(parts[k])
    PROVE  /\ Piece(AllOf(parts))
           /\ \A r : AllOf(parts) # Failure
                 => (Accepts(AllOf(parts), r) <=> \A k \in 1 .. n : Accepts(parts[k], r))
           /\ AllOf(parts) # Failure => \/ \A k \in 1 .. n : parts[k] # Failure
                                        \/ \E k \in 1 .. n : parts[k] = Nothing
  <1>1. \A k \in 1 .. n : InStep(parts[k])
    BY DEF Piece
  <1>2. LaidOut(parts, n)
    BY <1>1, PartsAreLaidOut
  <1>3. Nothing # Failure /\ \A r : ~Accepts(Nothing, r)
    BY NoPiece
  <1>4. Piece(Nothing) /\ Piece(Failure)
    BY NoPiece
  <1>5. CASE \E k \in 1 .. n : parts[k] = Nothing
    <2>1. AllOf(parts) = Nothing
      BY <1>5 DEF AllOf
    <2>2. QED
      BY <1>3, <1>4, <1>5, <2>1
  <1>6. CASE /\ ~ \E k \in 1 .. n : parts[k] = Nothing
             /\ \E k \in 1 .. n : parts[k] = Failure
    <2>1. AllOf(parts) = Failure
      BY <1>6 DEF AllOf
    <2>2. QED
      BY <1>4, <2>1
  <1>7. CASE ~ \E k \in 1 .. n : parts[k] = Nothing \/ parts[k] = Failure
    <2>1. AllOf(parts) = Conjunction(PlacesOf(parts), ParamsOf(parts))
      BY <1>7 DEF AllOf
    <2>2. PICK c : c = AllOf(parts)
      OBVIOUS
    <2>3. c.result = "scope" /\ c.places = PlacesOf(parts) /\ c.params = ParamsOf(parts)
      BY <2>1, <2>2 DEF Conjunction
    <2>4. InStep(c)
      <3>1. IsSeq(c.places) /\ IsSeq(c.params) /\ Len(c.places) = Len(c.params)
        BY <1>2, <2>3 DEF LaidOut
      <3>2. ASSUME NEW j \in 1 .. Len(c.places), c.places[j].test = "= OR"
            PROVE  j + 1 \in 1 .. Len(c.places)
        <4>1. PICK k \in 1 .. n : \E i \in 1 .. Len(parts[k].places) : j = Offset(parts, k) + i
          BY <1>2, <2>3 DEF LaidOut
        <4>2. PICK i \in 1 .. Len(parts[k].places) : j = Offset(parts, k) + i
          BY <4>1
        <4>3. QED
          BY <1>1, <1>2, <2>3, <3>2, <4>2, ClauseLaidOut
      <3>3. QED
        BY <3>1, <3>2 DEF InStep
    <2>5. ASSUME NEW r
          PROVE  Accepts(c, r) <=> \A k \in 1 .. n : Accepts(parts[k], r)
      <3>1. Accepts(c, r) <=> \A j \in 1 .. Len(c.places) : Clause(c.places, c.params, r, j)
        BY <2>3, <2>4, HoldsClauses DEF Accepts, InStep
      <3>2. ASSUME NEW k \in 1 .. n
            PROVE  Accepts(parts[k], r) <=> \A i \in 1 .. Len(parts[k].places) :
                                               Clause(parts[k].places, parts[k].params, r, i)
        <4>1. parts[k].result = "scope" /\ IsSeq(parts[k].places)
          BY <1>7 DEF Piece, InStep
        <4>2. PICK p : p = parts[k]
          OBVIOUS
        <4>3. QED
          BY <4>1, <4>2, HoldsClauses DEF Accepts
      <3>3. ASSUME NEW k \in 1 .. n, NEW i \in 1 .. Len(parts[k].places)
            PROVE  /\ Offset(parts, k) + i \in 1 .. Len(c.places)
                   /\ Clause(c.places, c.params, r, Offset(parts, k) + i)
                         <=> Clause(parts[k].places, parts[k].params, r, i)
        BY <1>1, <1>2, <2>3, ClauseLaidOut
      <3>4. ASSUME NEW j \in 1 .. Len(c.places)
            PROVE  \E k \in 1 .. n : \E i \in 1 .. Len(parts[k].places) : j = Offset(parts, k) + i
        BY <1>2, <2>3 DEF LaidOut
      <3>5. ASSUME Accepts(c, r), NEW k \in 1 .. n PROVE Accepts(parts[k], r)
        BY <3>1, <3>2, <3>3, <3>5
      <3>6. ASSUME \A k \in 1 .. n : Accepts(parts[k], r), NEW j \in 1 .. Len(c.places)
            PROVE  Clause(c.places, c.params, r, j)
        <4>1. PICK k \in 1 .. n : \E i \in 1 .. Len(parts[k].places) : j = Offset(parts, k) + i
          BY <3>4
        <4>2. PICK i \in 1 .. Len(parts[k].places) : j = Offset(parts, k) + i
          BY <4>1
        <4>3. QED
          BY <3>2, <3>3, <3>6, <4>2
      <3>7. QED
        BY <3>1, <3>5, <3>6
    <2>6. QED
      BY <1>7, <2>2, <2>3, <2>4, <2>5 DEF Piece
  <1>8. QED
    BY <1>5, <1>6, <1>7
-----------------------------------------------------------------------------
(* The parts of a pattern.                                                 *)

(* The value a head field or a fixed path segment has in a row's URN.      *)
Value(map, r) == IF map.kind = "column" THEN r[map.name] ELSE map.name

(* No operands, no clauses: every row.                                     *)
LEMMA UnconditionalPiece ==
    /\ Piece(Unconditional) /\ Unconditional # Failure /\ Unconditional # Nothing
    /\ \A r : Accepts(Unconditional, r)
  <1>1. IsSeq(<<>>) /\ Len(<<>>) = 0 /\ 1 .. 0 = {} /\ DOMAIN <<>> = {}
    BY DEF IsSeq, ToSet
  <1>2. /\ Unconditional.places = <<>> /\ Unconditional.params = <<>>
        /\ Unconditional.result = "scope"
    BY DEF Unconditional, Conjunction
  <1>3. Failure.result # "scope" /\ Nothing.result # "scope"
    BY DEF Failure, Nothing
  <1>4. QED
    BY <1>1, <1>2, <1>3 DEF Piece, InStep, Accepts, Holds

(* c = ? holds of the rows with the operand in that column.                *)
LEMMA EqualsPiece ==
    ASSUME NEW column, NEW value
    PROVE  /\ Piece(Equals(column, value)) /\ Equals(column, value) # Failure
           /\ \A r : Accepts(Equals(column, value), r) <=> r[column] = value
  <1>1. PICK c : c = Equals(column, value)
    OBVIOUS
  <1>2. PICK a : a = c.places
    OBVIOUS
  <1>3. PICK b : b = c.params
    OBVIOUS
  <1>4. a = <<[column |-> column, test |-> "="]>> /\ b = <<value>> /\ c.result = "scope"
    BY <1>1, <1>2, <1>3 DEF Equals, Conjunction, Place
  <1>5. /\ IsSeq(a) /\ IsSeq(b) /\ Len(a) = 1 /\ Len(b) = 1
        /\ a[1].column = column /\ a[1].test = "=" /\ b[1] = value
    BY <1>4 DEF IsSeq, ToSet
  <1>6. \A i \in 1 .. Len(a) : i = 1
    BY <1>5
  <1>7. InStep(c)
    BY <1>2, <1>3, <1>5, <1>6 DEF InStep
  <1>8. ASSUME NEW r PROVE Accepts(c, r) <=> r[column] = value
    <2>1. Holds(a, b, r) <=> \A i \in 1 .. Len(a) : Clause(a, b, r, i)
      BY <1>5, HoldsClauses
    <2>2. 1 \in 1 .. Len(a)
      BY <1>5
    <2>3. Clause(a, b, r, 1) <=> r[column] = value
      BY <1>5 DEF Clause
    <2>4. QED
      BY <1>2, <1>3, <1>4, <1>6, <2>1, <2>2, <2>3 DEF Accepts
  <1>9. c # Failure
    BY <1>4 DEF Failure
  <1>10. QED
    BY <1>1, <1>4, <1>7, <1>8, <1>9 DEF Piece

(* compile_segment tests what the matcher tests of one field or segment.   *)
LEMMA SegmentPiece ==
    ASSUME NEW map, NEW pattern
    PROVE  /\ Piece(CompileSegment(map, pattern)) /\ CompileSegment(map, pattern) # Failure
           /\ \A r : Accepts(CompileSegment(map, pattern), r)
                        <=> SegmentMatches(pattern, Value(map, r))
  <1>1. Piece(Nothing) /\ Nothing # Failure /\ \A r : ~Accepts(Nothing, r)
    BY NoPiece
  <1>2. CASE pattern = Star
    BY <1>2, UnconditionalPiece DEF CompileSegment, SegmentMatches
  <1>3. CASE pattern # Star /\ map.kind = "column"
    <2>1. CompileSegment(map, pattern) = Equals(map.name, pattern)
      BY <1>3 DEF CompileSegment
    <2>2. ASSUME NEW r PROVE SegmentMatches(pattern, Value(map, r)) <=> r[map.name] = pattern
      BY <1>3 DEF SegmentMatches, Value
    <2>3. QED
      BY <2>1, <2>2, EqualsPiece
  <1>4. CASE pattern # Star /\ map.kind # "column"
    <2>1. ASSUME NEW r PROVE SegmentMatches(pattern, Value(map, r)) <=> map.name = pattern
      BY <1>4 DEF SegmentMatches, Value
    <2>2. CompileSegment(map, pattern) = IF map.name = pattern THEN Unconditional ELSE Nothing
      BY <1>4 DEF CompileSegment
    <2>3. QED
      BY <1>1, <2>1, <2>2, UnconditionalPiece
  <1>5. QED
    BY <1>2, <1>3, <1>4
(* A sequence over any set is one over its own members.                    *)
LEMMA SequenceIsSeq ==
    ASSUME NEW S, NEW s \in Seq(S)
    PROVE  IsSeq(s)
  BY DEF IsSeq, ToSet

(* (c = ? OR c LIKE ?) holds of the prefix and of what it is a prefix of.  *)
LEMMA EqualsOrLikePiece ==
    ASSUME NEW column, NEW prefix
    PROVE  /\ Piece(EqualsOrLike(column, prefix)) /\ EqualsOrLike(column, prefix) # Failure
           /\ \A r : Accepts(EqualsOrLike(column, prefix), r)
                        <=> r[column] = prefix \/ LikeMatches(prefix, r[column])
  <1>1. PICK c : c = EqualsOrLike(column, prefix)
    OBVIOUS
  <1>2. PICK a : a = c.places
    OBVIOUS
  <1>3. PICK b : b = c.params
    OBVIOUS
  <1>4. /\ a = <<[column |-> column, test |-> "= OR"], [column |-> column, test |-> "LIKE"]>>
        /\ b = <<prefix, <<"like", prefix>>>> /\ c.result = "scope"
    BY <1>1, <1>2, <1>3 DEF EqualsOrLike, Conjunction, Place
  <1>5. IsSeq(a) /\ Len(a) = 2
    <2>1. PICK x : x = [column |-> column, test |-> "= OR"]
      OBVIOUS
    <2>2. PICK y : y = [column |-> column, test |-> "LIKE"]
      OBVIOUS
    <2>3. <<x, y>> \in Seq({x, y}) /\ Len(<<x, y>>) = 2
      OBVIOUS
    <2>4. QED
      BY <1>4, <2>1, <2>2, <2>3, SequenceIsSeq
  <1>6. IsSeq(b) /\ Len(b) = 2
    <2>1. PICK y : y = <<"like", prefix>>
      OBVIOUS
    <2>2. <<prefix, y>> \in Seq({prefix, y}) /\ Len(<<prefix, y>>) = 2
      OBVIOUS
    <2>3. QED
      BY <1>4, <2>1, <2>2, SequenceIsSeq
  <1>7. /\ a[1].column = column /\ a[1].test = "= OR" /\ a[2].test = "LIKE"
        /\ b[1] = prefix /\ b[2][2] = prefix
    BY <1>4
  <1>8. \A i \in 1 .. Len(a) : i = 1 \/ i = 2
    BY <1>5
  <1>9. 1 \in 1 .. Len(a) /\ 2 \in 1 .. Len(a) /\ 1 + 1 = 2
    BY <1>5
  <1>10. InStep(c)
    BY <1>2, <1>3, <1>5, <1>6, <1>7, <1>8, <1>9 DEF InStep
  <1>11. ASSUME NEW r
         PROVE  Accepts(c, r) <=> r[column] = prefix \/ LikeMatches(prefix, r[column])
    <2>1. Holds(a, b, r) <=> \A i \in 1 .. Len(a) : Clause(a, b, r, i)
      BY <1>5, HoldsClauses
    <2>2. Clause(a, b, r, 1) <=> r[column] = prefix \/ LikeMatches(prefix, r[column])
      BY <1>7, <1>9 DEF Clause
    <2>3. Clause(a, b, r, 2)
      BY <1>7 DEF Clause
    <2>4. QED
      BY <1>2, <1>3, <1>4, <1>8, <1>9, <2>1, <2>2, <2>3 DEF Accepts
  <1>12. c # Failure
    <2>1. Failure.result = "unsupported"
      BY DEF Failure
    <2>2. QED
      BY <1>4, <2>1
  <1>13. QED
    BY <1>1, <1>4, <1>10, <1>11, <1>12 DEF Piece

(* Sequences are equal when they have the same members in the same places. *)
LEMMA SameSequence ==
    ASSUME NEW s, IsSeq(s), NEW t, IsSeq(t)
    PROVE  s = t <=> Len(s) = Len(t) /\ \A i \in 1 .. Len(s) : s[i] = t[i]
  <1>1. /\ Len(s) \in Nat /\ s = [i \in 1 .. Len(s) |-> s[i]]
        /\ Len(t) \in Nat /\ t = [i \in 1 .. Len(t) |-> t[i]]
    BY DEF IsSeq
  <1>2. QED
    BY <1>1

(* What LIKE accepts of a remainder column besides what lies below the     *)
(* prefix.                                                                 *)
LikeToo(rest, v) ==
    EndsInGlobStar(rest) /\ Len(rest) # 1 /\ <<Front(rest), v>> \in LikeAlso

(* compile_remainder tests what the matcher tests of the rest of a path,   *)
(* but for the texts a prefix means to LIKE.                               *)
LEMMA RemainderPiece ==
    ASSUME NEW column, NEW rest, IsSeq(rest), Len(rest) # 0,
           \A i \in 1 .. Len(rest) - 1 : rest[i] # GlobStar,
           NEW r, IsSeq(r[column])
    PROVE  /\ Piece(CompileRemainder(column, rest))
           /\ CompileRemainder(column, rest) # Failure
                 => (Accepts(CompileRemainder(column, rest), r)
                        <=> PathMatches(rest, r[column]) \/ LikeToo(rest, r[column]))
  <1>1. PICK v : v = r[column]
    OBVIOUS
  <1>2. IsSeq(v)
    BY <1>1
  <1>3. PICK n \in Nat : n = Len(rest)
    BY DEF IsSeq
  <1>4. PICK l \in Nat : l = Len(v)
    BY <1>2 DEF IsSeq
  <1>5. rest # <<>> /\ n # 0 /\ DOMAIN rest = 1 .. n
    BY <1>3 DEF IsSeq
  <1>6. EndsInGlobStar(rest) <=> rest[n] = GlobStar
    BY <1>3, <1>5 DEF EndsInGlobStar
  <1>7. CASE rest = <<GlobStar>>
    <2>1. CompileRemainder(column, rest) = Unconditional
      BY <1>7 DEF CompileRemainder
    <2>2. n = 1 /\ rest[1] = GlobStar
      BY <1>3, <1>7
    <2>3. PathMatches(rest, v)
      BY <1>3, <1>4, <1>6, <2>2 DEF PathMatches
    <2>4. QED
      BY <1>1, <2>1, <2>3, UnconditionalPiece
  <1>8. CASE \E i \in 1 .. n : rest[i] = Star
    <2>1. rest # <<GlobStar>>
      BY <1>3, <1>8 DEF Star, GlobStar
    <2>2. CompileRemainder(column, rest) = Failure
      BY <1>5, <1>8, <2>1 DEF CompileRemainder
    <2>3. QED
      BY <2>2, NoPiece
  <1>9. CASE ~ (rest = <<GlobStar>>) /\ (\A i \in 1 .. n : rest[i] # Star) /\ EndsInGlobStar(rest)
    <2>1. CompileRemainder(column, rest) = EqualsOrLike(column, Front(rest))
      BY <1>5, <1>9 DEF CompileRemainder
    <2>2. PICK p : p = Front(rest)
      OBVIOUS
    <2>3. IsSeq(p) /\ Len(p) = n - 1 /\ \A i \in 1 .. n - 1 : p[i] = rest[i]
      <3>1. PICK S : rest \in Seq(S)
        BY DEF IsSeq
      <3>2. p = SubSeq(rest, 1, n - 1)
        BY <1>3, <2>2 DEF Front
      <3>3. p \in Seq(S) /\ Len(p) = n - 1 /\ \A i \in 1 .. n - 1 : p[i] = rest[i]
        BY <1>3, <1>5, <3>1, <3>2
      <3>4. QED
        BY <3>3, SequenceIsSeq
    <2>4. v = p <=> l = n - 1 /\ \A i \in 1 .. n - 1 : v[i] = rest[i]
      <3>1. v = p <=> Len(v) = Len(p) /\ \A i \in 1 .. Len(v) : v[i] = p[i]
        BY <1>2, <2>3, SameSequence
      <3>2. QED
        BY <1>4, <2>3, <3>1
    <2>5. LikeMatches(p, v) <=> \/ l > n - 1 /\ \A i \in 1 .. n - 1 : v[i] = rest[i]
                                \/ <<p, v>> \in LikeAlso
      <3>1. DOMAIN p = 1 .. n - 1
        BY <2>3 DEF IsSeq
      <3>2. QED
        BY <1>4, <2>3, <3>1 DEF LikeMatches
    <2>6. PathMatches(rest, v) <=> l >= n - 1 /\ \A i \in 1 .. n - 1 : v[i] = rest[i]
      BY <1>3, <1>4, <1>9 DEF PathMatches, SegmentMatches
    <2>7. v = p \/ LikeMatches(p, v) <=> PathMatches(rest, v) \/ LikeToo(rest, v)
      <3>1. n # 1
        <4>1. PICK g : g = <<GlobStar>>
          OBVIOUS
        <4>2. g \in Seq({GlobStar}) /\ Len(g) = 1 /\ g[1] = GlobStar
          BY <4>1
        <4>3. IsSeq(g)
          BY <4>2, SequenceIsSeq
        <4>4. rest = g <=> Len(rest) = Len(g) /\ \A i \in 1 .. Len(rest) : rest[i] = g[i]
          BY <4>3, SameSequence
        <4>5. SUFFICES ASSUME n = 1 PROVE rest = g
          BY <1>9, <4>1
        <4>6. rest[1] = GlobStar /\ Len(rest) = 1
          BY <1>3, <1>6, <1>9, <4>5
        <4>7. QED
          BY <4>2, <4>4, <4>6
      <3>2. LikeToo(rest, v) <=> <<p, v>> \in LikeAlso
        BY <1>3, <1>9, <2>2, <3>1 DEF LikeToo
      <3>3. QED
        BY <1>3, <1>4, <2>4, <2>5, <2>6, <3>2
    <2>8. QED
      BY <1>1, <2>1, <2>2, <2>7, EqualsOrLikePiece
  <1>10. CASE (\A i \in 1 .. n : rest[i] # Star) /\ ~EndsInGlobStar(rest)
    <2>1. rest # <<GlobStar>>
      BY <1>3, <1>6, <1>10
    <2>2. CompileRemainder(column, rest) = Equals(column, rest)
      BY <1>5, <1>10, <2>1 DEF CompileRemainder
    <2>3. v = rest <=> Len(v) = Len(rest) /\ \A i \in 1 .. Len(v) : v[i] = rest[i]
      BY <1>2, SameSequence
    <2>4. PathMatches(rest, v) <=> l = n /\ \A i \in 1 .. n : v[i] = rest[i]
      BY <1>3, <1>4, <1>10 DEF PathMatches, SegmentMatches
    <2>5. v = rest <=> PathMatches(rest, v) \/ LikeToo(rest, v)
      BY <1>3, <1>4, <1>10, <2>3, <2>4 DEF LikeToo
    <2>6. QED
      BY <1>1, <2>2, <2>5, EqualsPiece
  <1>11. QED
    BY <1>7, <1>8, <1>9, <1>10
-----------------------------------------------------------------------------
(* A path pattern against the path of a row's URN.                         *)

RemainderLast(maps) ==
    IsSeq(maps) /\ \A i \in 1 .. Len(maps) : maps[i].kind = "remainder" => i = Len(maps)

GlobStarLast(p) ==
    IsSeq(p) /\ Len(p) # 0 /\ \A i \in 1 .. Len(p) - 1 : p[i] # GlobStar

Stops(maps, p, s) ==
    /\ s \in 1 .. Len(maps) + 1
    /\ StopsAt(maps, p, s)
    /\ \A j \in 1 .. s - 1 : ~StopsAt(maps, p, j)

(* compile_path always stops: at the end of the mapping at the latest.     *)
LEMMA FirstStopIs ==
    ASSUME NEW maps, NEW p, Len(maps) \in Nat
    PROVE  Stops(maps, p, FirstStop(maps, p))
  <1> DEFINE T == {i \in 1 .. Len(maps) + 1 : StopsAt(maps, p, i)}
  <1>1. T \in SUBSET Nat
    OBVIOUS
  <1>2. Len(maps) + 1 \in T
    BY DEF StopsAt
  <1>3. PICK i \in T : \A j \in T : i <= j
    BY <1>1, <1>2, LeastNatural
  <1>4. Stops(maps, p, i)
    <2>1. ASSUME NEW j \in 1 .. i - 1 PROVE ~StopsAt(maps, p, j)
      <3>1. j \in 1 .. Len(maps) + 1 /\ ~ (i <= j)
        BY <1>3
      <3>2. QED
        BY <1>3, <3>1
    <2>2. QED
      BY <1>3, <2>1 DEF Stops
  <1>5. QED
    BY <1>4 DEF Stops, FirstStop

(* What is known of the fixed part of a row's path and of what follows.    *)
RowPath(m, r, q, F, l) ==
    /\ F = Fixed(m) /\ l = Len(Remainder(m, r))
    /\ IsSeq(q) /\ Len(q) = F + l
    /\ \A i \in 1 .. F : q[i] = Value(m.path[i], r)
    /\ \A i \in 1 .. l : q[F + i] = Remainder(m, r)[i]

(* The path of a row has the mapped segments, then the remainder.          *)
LEMMA RowPathIs ==
    ASSUME NEW m, NEW r, RemainderLast(m.path), IsSeq(Remainder(m, r))
    PROVE  \E F \in Nat : \E l \in Nat : RowPath(m, r, UrnOf(m, r).path, F, l)
  <1>1. Len(m.path) \in Nat /\ (Len(m.path) = 0 => m.path = <<>>)
    BY DEF RemainderLast, IsSeq
  <1>2. PICK F \in Nat : F = Fixed(m)
    <2>1. HasRemainder(m) => Len(m.path) # 0
      BY <1>1 DEF HasRemainder
    <2>2. Fixed(m) \in Nat
      BY <1>1, <2>1 DEF Fixed
    <2>3. QED
      BY <2>2
  <1>3. PICK l \in Nat : l = Len(Remainder(m, r))
    BY DEF IsSeq
  <1>4. PICK q : q = UrnOf(m, r).path
    OBVIOUS
  <1>5. q = [i \in 1 .. F + l |-> IF i > F THEN Remainder(m, r)[i - F] ELSE Value(m.path[i], r)]
    BY <1>2, <1>3, <1>4 DEF UrnOf, Value
  <1>6. IsSeq(q) /\ Len(q) = F + l
    <2>1. PICK S : S = {q[i] : i \in 1 .. F + l}
      OBVIOUS
    <2>2. q \in [1 .. F + l -> S] /\ F + l \in Nat
      BY <1>5, <2>1
    <2>3. q \in Seq(S) /\ Len(q) = F + l
      BY <2>2
    <2>4. QED
      BY <2>3, SequenceIsSeq
  <1>7. \A i \in 1 .. F : i \in 1 .. F + l /\ ~ (i > F)
    OBVIOUS
  <1>8. \A i \in 1 .. l : F + i \in 1 .. F + l /\ F + i > F /\ F + i - F = i
    OBVIOUS
  <1>9. \A i \in 1 .. F : q[i] = Value(m.path[i], r)
    BY <1>5, <1>7
  <1>10. \A i \in 1 .. l : q[F + i] = Remainder(m, r)[i]
    BY <1>5, <1>8
  <1>11. RowPath(m, r, q, F, l)
    BY <1>2, <1>3, <1>6, <1>9, <1>10 DEF RowPath
  <1>12. QED
    BY <1>4, <1>11

FitsBefore(p, q, s) == \A j \in 1 .. s - 1 : SegmentMatches(p[j], q[j])
(* How far the matcher goes through a pattern before its **.               *)
Reach(p) == IF p[Len(p)] = GlobStar THEN Len(p) - 1 ELSE Len(p)

(* path_matches, said with how far it reaches.                             *)
LEMMA PathMatchesIs ==
    ASSUME NEW p, GlobStarLast(p), NEW q
    PROVE  /\ Reach(p) \in Nat /\ Len(p) \in Nat /\ Len(p) # 0
           /\ EndsInGlobStar(p) <=> p[Len(p)] = GlobStar
           /\ \A i \in 1 .. Reach(p) : p[i] # GlobStar
           /\ PathMatches(p, q)
                 <=> /\ IF p[Len(p)] = GlobStar THEN Len(q) >= Reach(p) ELSE Len(q) = Reach(p)
                     /\ \A i \in 1 .. Reach(p) : SegmentMatches(p[i], q[i])
  <1>1. Len(p) \in Nat /\ Len(p) # 0 /\ p # <<>>
    BY DEF GlobStarLast, IsSeq
  <1>2. EndsInGlobStar(p) <=> p[Len(p)] = GlobStar
    BY <1>1 DEF EndsInGlobStar
  <1>3. Reach(p) = IF EndsInGlobStar(p) THEN Len(p) - 1 ELSE Len(p)
    BY <1>2 DEF Reach
  <1>4. Reach(p) \in Nat
    BY <1>1, <1>3
  <1>5. ASSUME NEW i \in 1 .. Reach(p) PROVE p[i] # GlobStar
    <2>1. CASE i = Len(p)
      BY <1>1, <2>1 DEF Reach
    <2>2. CASE i # Len(p)
      <3>1. i \in 1 .. Len(p) - 1
        BY <1>1, <2>2 DEF Reach
      <3>2. QED
        BY <3>1 DEF GlobStarLast
    <2>3. QED
      BY <2>1, <2>2
  <1>6. PathMatches(p, q)
           <=> /\ IF p[Len(p)] = GlobStar THEN Len(q) >= Reach(p) ELSE Len(q) = Reach(p)
               /\ \A i \in 1 .. Reach(p) : SegmentMatches(p[i], q[i])
    BY <1>2, <1>3 DEF PathMatches
  <1>7. QED
    BY <1>1, <1>2, <1>4, <1>5, <1>6

(* Where compile_path stops: neither the fixed part of the mapping nor     *)
(* the pattern before its ** has ended earlier.                            *)
LEMMA StopIsWithin ==
    ASSUME NEW m, RemainderLast(m.path), NEW p, GlobStarLast(p), NEW s, Stops(m.path, p, s)
    PROVE  /\ s \in Nat /\ s # 0 /\ s - 1 <= Fixed(m) /\ s - 1 <= Reach(p)
           /\ s = Len(m.path) + 1 => Fixed(m) = Len(m.path) /\ ~HasRemainder(m)
           /\ s <= Len(m.path) /\ m.path[s].kind = "remainder"
                 => HasRemainder(m) /\ s = Len(m.path) /\ Fixed(m) = s - 1
           /\ s <= Len(m.path) /\ m.path[s].kind # "remainder" => s <= Fixed(m)
  <1>1. PICK maps : maps = m.path
    OBVIOUS
  <1>2. PICK M \in Nat : M = Len(maps)
    BY <1>1 DEF RemainderLast, IsSeq
  <1>3. PICK N \in Nat : N = Len(p) /\ N # 0
    BY PathMatchesIs
  <1>4. s \in 1 .. M + 1 /\ s \in Nat /\ s # 0
    BY <1>1, <1>2 DEF Stops
  <1>5. ASSUME NEW j \in 1 .. s - 1
        PROVE  j <= N /\ p[j] # GlobStar /\ maps[j].kind # "remainder"
    BY <1>1, <1>2, <1>3, <1>4 DEF Stops, StopsAt
  <1>6. maps # <<>> <=> M # 0
    <2>1. IsSeq(maps)
      BY <1>1 DEF RemainderLast
    <2>2. QED
      BY <1>2, <2>1 DEF IsSeq
  <1>7. HasRemainder(m) <=> M # 0 /\ maps[M].kind = "remainder"
    BY <1>1, <1>2, <1>6 DEF HasRemainder
  <1>8. Fixed(m) = IF HasRemainder(m) THEN M - 1 ELSE M
    BY <1>1, <1>2 DEF Fixed
  <1>9. HasRemainder(m) => s <= M
    <2>1. SUFFICES ASSUME HasRemainder(m), ~ (s <= M) PROVE FALSE
      BY <1>2, <1>4
    <2>2. M \in 1 .. s - 1
      BY <1>4, <1>7, <2>1
    <2>3. QED
      BY <1>5, <1>7, <2>1, <2>2
  <1>10. s - 1 <= Fixed(m)
    BY <1>4, <1>7, <1>8, <1>9
  <1>11. s - 1 <= Reach(p)
    <2>1. s - 1 <= N
      <3>1. s # 1 => s - 1 \in 1 .. s - 1
        BY <1>4
      <3>2. QED
        BY <1>3, <1>4, <1>5, <3>1
    <2>2. CASE p[N] = GlobStar
      <3>1. N \notin 1 .. s - 1
        BY <1>5, <2>2
      <3>2. QED
        BY <1>3, <1>4, <2>1, <2>2, <3>1 DEF Reach
    <2>3. CASE p[N] # GlobStar
      BY <1>3, <2>1, <2>3 DEF Reach
    <2>4. QED
      BY <2>2, <2>3
  <1>12. s = M + 1 => Fixed(m) = M /\ ~HasRemainder(m)
    BY <1>2, <1>8, <1>9
  <1>13. ASSUME s <= M, maps[s].kind = "remainder"
         PROVE  HasRemainder(m) /\ s = M /\ Fixed(m) = s - 1
    <2>1. s \in 1 .. Len(maps)
      BY <1>2, <1>4, <1>13
    <2>2. s = M
      BY <1>1, <1>2, <1>13, <2>1 DEF RemainderLast
    <2>3. QED
      BY <1>4, <1>7, <1>8, <1>13, <2>2
  <1>14. ASSUME s <= M, maps[s].kind # "remainder" PROVE s <= Fixed(m)
    <2>1. CASE HasRemainder(m)
      <3>1. s # M
        BY <1>7, <1>14, <2>1
      <3>2. QED
        BY <1>4, <1>8, <1>14, <2>1, <3>1
    <2>2. CASE ~HasRemainder(m)
      BY <1>8, <1>14, <2>2
    <2>3. QED
      BY <2>1, <2>2
  <1>15. QED
    BY <1>1, <1>2, <1>4, <1>10, <1>11, <1>12, <1>13, <1>14
(* The rest of a pattern against the remainder of the path.                *)
LEMMA RestMatches ==
    ASSUME NEW p, GlobStarLast(p), NEW s \in Nat, s # 0, s <= Len(p), s - 1 <= Reach(p),
           NEW q, NEW v, NEW l \in Nat, Len(v) = l, Len(q) = s - 1 + l,
           \A i \in 1 .. l : q[s - 1 + i] = v[i]
    PROVE  /\ IsSeq(Rest(p, s)) /\ Len(Rest(p, s)) # 0 /\ GlobStarLast(Rest(p, s))
           /\ EndsInGlobStar(Rest(p, s)) <=> EndsInGlobStar(p)
           /\ Len(Rest(p, s)) = 1 <=> Len(p) = s
           /\ PathMatches(p, q) <=> FitsBefore(p, q, s) /\ PathMatches(Rest(p, s), v)
  <1>1. PICK N \in Nat : N = Len(p)
    BY PathMatchesIs
  <1>2. PICK t : t = Rest(p, s)
    OBVIOUS
  <1>3. PICK S : p \in Seq(S)
    BY DEF GlobStarLast, IsSeq
  <1>4. PICK n \in Nat : n = N - s + 1 /\ n # 0
    <2>1. N - s + 1 \in Nat /\ N - s + 1 # 0
      BY <1>1
    <2>2. QED
      BY <2>1
  <1>5. t \in Seq(S) /\ Len(t) = n /\ \A i \in 1 .. n : t[i] = p[s - 1 + i]
    <2>1. t = SubSeq(p, s, N)
      BY <1>1, <1>2 DEF Rest
    <2>2. QED
      BY <1>1, <1>3, <1>4, <2>1
  <1>6. \A i \in 1 .. n - 1 : t[i] # GlobStar
    <2>1. ASSUME NEW i \in 1 .. n - 1 PROVE t[i] # GlobStar
      <3>1. PICK j : j = s - 1 + i
        OBVIOUS
      <3>2. j \in 1 .. N - 1 /\ i \in 1 .. n
        BY <1>4, <3>1
      <3>3. QED
        BY <1>1, <1>5, <3>1, <3>2 DEF GlobStarLast
    <2>2. QED
      BY <2>1
  <1>7. IsSeq(t) /\ Len(t) # 0 /\ GlobStarLast(t)
    BY <1>4, <1>5, <1>6, SequenceIsSeq DEF GlobStarLast
  <1>8. t[n] = p[N]
    <2>1. s - 1 + n = N
      BY <1>4
    <2>2. n \in 1 .. n
      BY <1>4
    <2>3. QED
      BY <1>5, <2>1, <2>2
  <1>9. PICK k \in Nat : k = Reach(t)
    BY <1>7, PathMatchesIs
  <1>10. PICK K \in Nat : K = Reach(p)
    BY PathMatchesIs
  <1>11. K = s - 1 + k /\ k <= n
    BY <1>1, <1>4, <1>5, <1>8, <1>9, <1>10 DEF Reach
  <1>12. PathMatches(p, q)
            <=> /\ IF p[N] = GlobStar THEN s - 1 + l >= K ELSE s - 1 + l = K
                /\ \A i \in 1 .. K : SegmentMatches(p[i], q[i])
    BY <1>1, <1>10, PathMatchesIs
  <1>13. PathMatches(t, v)
            <=> /\ IF p[N] = GlobStar THEN l >= k ELSE l = k
                /\ \A i \in 1 .. k : SegmentMatches(t[i], v[i])
    BY <1>5, <1>7, <1>8, <1>9, PathMatchesIs
  <1>14. (IF p[N] = GlobStar THEN s - 1 + l >= K ELSE s - 1 + l = K)
            <=> (IF p[N] = GlobStar THEN l >= k ELSE l = k)
    BY <1>11
  <1>15. ASSUME IF p[N] = GlobStar THEN l >= k ELSE l = k
         PROVE  (\A i \in 1 .. K : SegmentMatches(p[i], q[i]))
                   <=> FitsBefore(p, q, s) /\ \A i \in 1 .. k : SegmentMatches(t[i], v[i])
    <2>1. k <= l
      BY <1>15
    <2>2. ASSUME NEW i \in 1 .. k
          PROVE  s - 1 + i \in 1 .. K /\ t[i] = p[s - 1 + i] /\ v[i] = q[s - 1 + i]
      <3>1. i \in 1 .. n /\ i \in 1 .. l /\ s - 1 + i \in 1 .. K
        BY <1>11, <2>1
      <3>2. QED
        BY <1>5, <3>1
    <2>3. ASSUME NEW j \in 1 .. K, j \notin 1 .. s - 1
          PROVE  \E i \in 1 .. k : j = s - 1 + i
      <3>1. j - (s - 1) \in 1 .. k /\ j = s - 1 + (j - (s - 1))
        BY <1>11, <2>3
      <3>2. QED
        BY <3>1
    <2>4. 1 .. s - 1 \subseteq 1 .. K
      BY <1>11
    <2>5. ASSUME \A i \in 1 .. K : SegmentMatches(p[i], q[i])
          PROVE  FitsBefore(p, q, s) /\ \A i \in 1 .. k : SegmentMatches(t[i], v[i])
      BY <2>2, <2>4, <2>5 DEF FitsBefore
    <2>6. ASSUME FitsBefore(p, q, s), \A i \in 1 .. k : SegmentMatches(t[i], v[i]),
                 NEW j \in 1 .. K
          PROVE  SegmentMatches(p[j], q[j])
      <3>1. CASE j \in 1 .. s - 1
        BY <2>6, <3>1 DEF FitsBefore
      <3>2. CASE j \notin 1 .. s - 1
        <4>1. PICK i \in 1 .. k : j = s - 1 + i
          BY <2>3, <3>2
        <4>2. QED
          BY <2>2, <2>6, <4>1
      <3>3. QED
        BY <3>1, <3>2
    <2>7. QED
      BY <2>5, <2>6
  <1>16. EndsInGlobStar(t) <=> EndsInGlobStar(p)
    BY <1>1, <1>5, <1>7, <1>8, PathMatchesIs
  <1>17. Len(t) = 1 <=> N = s
    BY <1>4, <1>5
  <1>18. QED
    BY <1>1, <1>2, <1>7, <1>12, <1>13, <1>14, <1>15, <1>16, <1>17

(* The path of a row reaches a pattern as the matcher says, or through one *)
(* of the two places where the compiler says less than the pattern.        *)
PathReached(m, p, q) == PathMatches(p, q) \/ PathWidened(m, p, q)

(* What compile_path makes of the place where it stops, together with the  *)
(* segments before it, decides whether the path is reached.                *)
LEMMA StopPiece ==
    ASSUME NEW m, RemainderLast(m.path), NEW p, GlobStarLast(p),
           NEW r, IsSeq(Remainder(m, r)),
           NEW q, NEW F \in Nat, NEW l \in Nat, RowPath(m, r, q, F, l),
           NEW s, Stops(m.path, p, s)
    PROVE  /\ Piece(CompileStop(m.path, p, s))
           /\ PathReached(m, p, q) => FitsBefore(p, q, s)
           /\ CompileStop(m.path, p, s) # Failure
                 => (PathReached(m, p, q)
                        <=> FitsBefore(p, q, s) /\ Accepts(CompileStop(m.path, p, s), r))
  <1>1. PICK maps : maps = m.path
    OBVIOUS
  <1>2. PICK M \in Nat : M = Len(maps)
    BY <1>1 DEF RemainderLast, IsSeq
  <1>3. PICK N \in Nat : N = Len(p) /\ N # 0
    BY PathMatchesIs
  <1>4. PICK K \in Nat : K = Reach(p)
    BY PathMatchesIs
  <1>5. /\ s \in Nat /\ s # 0 /\ s - 1 <= F /\ s - 1 <= K
        /\ s = M + 1 => F = M /\ ~HasRemainder(m)
        /\ s <= M /\ maps[s].kind = "remainder" => HasRemainder(m) /\ s = M /\ F = s - 1
        /\ s <= M /\ maps[s].kind # "remainder" => s <= F
    BY <1>1, <1>2, <1>4, StopIsWithin DEF RowPath
  <1>6. /\ s \in 1 .. M + 1
        /\ s = M + 1 \/ s > N \/ p[s] = GlobStar \/ maps[s].kind = "remainder"
    BY <1>1, <1>2, <1>3 DEF Stops, StopsAt
  <1>7. /\ EndsInGlobStar(p) <=> p[N] = GlobStar
        /\ K = IF p[N] = GlobStar THEN N - 1 ELSE N
        /\ \A i \in 1 .. K : p[i] # GlobStar
    BY <1>3, <1>4, PathMatchesIs DEF Reach
  <1>8. PathMatches(p, q)
           <=> /\ IF p[N] = GlobStar THEN F + l >= K ELSE F + l = K
               /\ \A i \in 1 .. K : SegmentMatches(p[i], q[i])
    BY <1>3, <1>4, PathMatchesIs DEF RowPath
  <1>9. PathReached(m, p, q) => FitsBefore(p, q, s)
    <2>1. 1 .. s - 1 \subseteq 1 .. K /\ 1 .. s - 1 \subseteq 1 .. F
      BY <1>5
    <2>2. PathMatches(p, q) => FitsBefore(p, q, s)
      BY <1>8, <2>1 DEF FitsBefore
    <2>3. PathWidened(m, p, q) => \A i \in 1 .. F : SegmentMatches(p[i], q[i])
      BY DEF PathWidened, RowPath
    <2>4. QED
      BY <2>1, <2>2, <2>3 DEF FitsBefore, PathReached
  <1>10. CASE s <= N /\ p[s] = GlobStar
    <2>1. CompileStop(maps, p, s) = Unconditional
      BY <1>3, <1>10 DEF CompileStop
    <2>2. s = N /\ K = s - 1
      <3>1. s \notin 1 .. K
        BY <1>7, <1>10
      <3>2. QED
        BY <1>3, <1>5, <1>7, <1>10, <3>1
    <2>3. PathMatches(p, q) <=> FitsBefore(p, q, s)
      BY <1>5, <1>8, <1>10, <2>2 DEF FitsBefore
    <2>4. QED
      BY <1>1, <1>9, <2>1, <2>3, UnconditionalPiece DEF PathReached
  <1>11. CASE ~ (s <= N /\ p[s] = GlobStar) /\ s <= M /\ maps[s].kind = "remainder"
    <2>1. CompileStop(maps, p, s) = CompileRemainder(maps[s].name, Rest(p, s))
      BY <1>2, <1>3, <1>11 DEF CompileStop
    <2>2. HasRemainder(m) /\ s = M /\ F = s - 1
      BY <1>5, <1>11
    <2>3. F = Fixed(m)
      BY DEF RowPath
    <2>4. Remainder(m, r) = r[maps[s].name]
      BY <1>1, <1>2, <2>2 DEF Remainder
    <2>5. PICK v : v = r[maps[s].name]
      OBVIOUS
    <2>6. /\ IsSeq(v) /\ Len(v) = l /\ Len(q) = s - 1 + l
          /\ \A i \in 1 .. l : q[s - 1 + i] = v[i]
      BY <2>2, <2>4, <2>5 DEF RowPath
    <2>7. PICK t : t = Rest(p, s)
      OBVIOUS
    <2>8. CASE s > N
      <3>1. N = s - 1 /\ K = N
        BY <1>3, <1>5, <1>7, <2>8
      <3>2. ~EndsInGlobStar(p)
        BY <1>3, <1>7, <3>1
      <3>3. EndsAtRemainder(m, p)
        BY <1>3, <2>2, <2>3, <3>1, <3>2 DEF EndsAtRemainder
      <3>4. FitsBefore(p, q, s) => PathReached(m, p, q)
        BY <2>2, <2>3, <3>3 DEF FitsBefore, PathReached, PathWidened
      <3>5. t = <<>>
        <4>1. PICK S : p \in Seq(S)
          BY DEF GlobStarLast, IsSeq
        <4>2. t = SubSeq(p, s, N)
          BY <1>3, <2>7 DEF Rest
        <4>3. QED
          BY <1>3, <1>5, <3>1, <4>1, <4>2
      <3>6. CompileRemainder(maps[s].name, t) = Unconditional
        BY <3>5 DEF CompileRemainder
      <3>7. QED
        BY <1>1, <1>9, <2>1, <2>7, <3>4, <3>6, UnconditionalPiece
    <2>9. CASE s <= N
      <3>1. /\ IsSeq(t) /\ Len(t) # 0 /\ GlobStarLast(t)
            /\ EndsInGlobStar(t) <=> EndsInGlobStar(p)
            /\ Len(t) = 1 <=> N = s
            /\ PathMatches(p, q) <=> FitsBefore(p, q, s) /\ PathMatches(t, v)
        <4>1. s \in Nat /\ s # 0 /\ s <= Len(p) /\ s - 1 <= Reach(p)
          BY <1>3, <1>4, <1>5, <2>9
        <4>2. /\ IsSeq(Rest(p, s)) /\ Len(Rest(p, s)) # 0 /\ GlobStarLast(Rest(p, s))
              /\ EndsInGlobStar(Rest(p, s)) <=> EndsInGlobStar(p)
              /\ Len(Rest(p, s)) = 1 <=> Len(p) = s
              /\ PathMatches(p, q) <=> FitsBefore(p, q, s) /\ PathMatches(Rest(p, s), v)
          BY <2>6, <4>1, RestMatches
        <4>3. QED
          BY <1>3, <2>7, <4>2
      <3>2. /\ Piece(CompileRemainder(maps[s].name, t))
            /\ CompileRemainder(maps[s].name, t) # Failure
                  => (Accepts(CompileRemainder(maps[s].name, t), r)
                         <=> PathMatches(t, v) \/ LikeToo(t, v))
        BY <2>5, <2>6, <3>1, RemainderPiece DEF GlobStarLast
      <3>3. Rest(q, s) = v
        <4>1. PICK S : q \in Seq(S)
          BY DEF RowPath, IsSeq
        <4>2. PICK w : w = SubSeq(q, s, Len(q))
          OBVIOUS
        <4>3. w \in Seq(S) /\ Len(w) = l /\ \A i \in 1 .. l : w[i] = q[s - 1 + i]
          <5>1. PICK e \in Nat : e = s - 1 + l
            BY <1>5
          <5>2. Len(q) = e /\ w = SubSeq(q, s, e)
            BY <2>6, <4>2, <5>1
          <5>3. e - s + 1 = l
            BY <1>5, <5>1
          <5>4. w \in Seq(S) /\ Len(w) = e - s + 1
            BY <1>5, <4>1, <5>1, <5>2
          <5>5. \A i \in 1 .. e - s + 1 : w[i] = q[s + i - 1]
            BY <1>5, <4>1, <5>1, <5>2
          <5>6. \A i \in 1 .. l : s + i - 1 = s - 1 + i
            BY <1>5
          <5>7. QED
            BY <5>3, <5>4, <5>5, <5>6
        <4>4. IsSeq(w)
          BY <4>3, SequenceIsSeq
        <4>5. w = v
          BY <2>6, <4>3, <4>4, SameSequence
        <4>6. QED
          BY <2>6, <4>2, <4>5 DEF Rest
      <3>4. Fixed(m) + 1 = s
        BY <1>5, <2>2, <2>3
      <3>5. LikeGap(m, p, q) <=> LikeToo(t, v)
        <4>1. Len(p) > s <=> Len(t) # 1
          BY <1>3, <1>5, <2>9, <3>1
        <4>2. QED
          BY <2>2, <2>7, <3>1, <3>3, <3>4, <4>1 DEF LikeGap, LikeToo
      <3>6. ~EndsAtRemainder(m, p)
        BY <1>3, <1>5, <2>2, <2>3, <2>9 DEF EndsAtRemainder
      <3>7. PathWidened(m, p, q) <=> FitsBefore(p, q, s) /\ LikeToo(t, v)
        BY <2>2, <2>3, <3>5, <3>6 DEF PathWidened, FitsBefore
      <3>8. QED
        BY <1>1, <1>9, <2>1, <2>7, <3>1, <3>2, <3>7 DEF PathReached
    <2>10. QED
      BY <1>3, <1>5, <2>8, <2>9
  <1>12. CASE s = M + 1 /\ s > N
    <2>1. CompileStop(maps, p, s) = Unconditional
      BY <1>2, <1>3, <1>12 DEF CompileStop
    <2>2. N = s - 1 /\ K = N /\ F = N
      BY <1>3, <1>5, <1>7, <1>12
    <2>3. l = 0
      BY <1>5, <1>12 DEF RowPath, Remainder
    <2>4. PathMatches(p, q) <=> FitsBefore(p, q, s)
      <3>1. p[N] # GlobStar
        BY <1>3, <1>7, <2>2
      <3>2. QED
        BY <1>8, <2>2, <2>3, <3>1 DEF FitsBefore
    <2>5. ~PathWidened(m, p, q)
      BY <1>5, <1>12 DEF PathWidened, EndsAtRemainder, LikeGap
    <2>6. QED
      BY <1>1, <1>9, <2>1, <2>4, <2>5, UnconditionalPiece DEF PathReached
  <1>13. CASE /\ ~ (s <= N /\ p[s] = GlobStar) /\ ~ (s <= M /\ maps[s].kind = "remainder")
              /\ ~ (s = M + 1 /\ s > N)
    <2>1. CompileStop(maps, p, s) = Nothing
      BY <1>2, <1>3, <1>13 DEF CompileStop
    <2>2. ~PathMatches(p, q)
      <3>1. CASE s = M + 1
        <4>1. s <= N /\ p[s] # GlobStar /\ F = M
          BY <1>3, <1>5, <1>13, <3>1
        <4>2. K > M
          BY <1>3, <1>7, <3>1, <4>1
        <4>3. l = 0
          BY <1>5, <3>1 DEF RowPath, Remainder
        <4>4. QED
          BY <1>8, <4>1, <4>2, <4>3
      <3>2. CASE s # M + 1
        <4>1. s > N /\ s <= M /\ s <= F
          BY <1>2, <1>3, <1>5, <1>6, <1>13, <3>2
        <4>2. N = s - 1 /\ K = N
          BY <1>3, <1>5, <1>7, <4>1
        <4>3. p[N] # GlobStar
          BY <1>3, <1>7, <4>2
        <4>4. QED
          BY <1>5, <1>8, <4>1, <4>2, <4>3
      <3>3. QED
        BY <3>1, <3>2
    <2>3. ~PathWidened(m, p, q)
      <3>1. CASE s = M + 1
        BY <1>5, <3>1 DEF PathWidened, EndsAtRemainder, LikeGap
      <3>2. CASE s # M + 1
        <4>1. s > N /\ s <= F
          BY <1>2, <1>3, <1>5, <1>6, <1>13, <3>2
        <4>2. F = Fixed(m)
          BY DEF RowPath
        <4>3. N # F /\ ~ (N > F + 1)
          BY <1>3, <1>5, <4>1
        <4>4. QED
          BY <1>3, <4>2, <4>3 DEF PathWidened, EndsAtRemainder, LikeGap
      <3>3. QED
        BY <3>1, <3>2
    <2>4. QED
      BY <1>1, <1>9, <2>1, <2>2, <2>3, NoPiece DEF PathReached
  <1>14. QED
    BY <1>10, <1>11, <1>12, <1>13

(* compile_path accepts the rows whose path the pattern reaches.           *)
LEMMA PathPiece ==
    ASSUME NEW m, RemainderLast(m.path), NEW p, GlobStarLast(p),
           NEW r, IsSeq(Remainder(m, r))
    PROVE  /\ Piece(CompilePath(m.path, p))
           /\ CompilePath(m.path, p) # Failure
                 => (Accepts(CompilePath(m.path, p), r) <=> PathReached(m, p, UrnOf(m, r).path))
  <1>1. PICK maps : maps = m.path
    OBVIOUS
  <1>2. PICK q : q = UrnOf(m, r).path
    OBVIOUS
  <1>3. PICK F \in Nat : \E l \in Nat : RowPath(m, r, q, F, l)
    BY <1>2, RowPathIs
  <1>4. PICK l \in Nat : RowPath(m, r, q, F, l)
    BY <1>3
  <1>5. Len(maps) \in Nat
    BY <1>1 DEF RemainderLast, IsSeq
  <1>6. PICK s : s = FirstStop(maps, p)
    OBVIOUS
  <1>7. Stops(maps, p, s)
    BY <1>5, <1>6, FirstStopIs
  <1>8. s \in Nat /\ s # 0 /\ s - 1 <= F
    BY <1>1, <1>4, <1>7, StopIsWithin DEF RowPath
  <1>9. PICK c : c = CompileStop(maps, p, s)
    OBVIOUS
  <1>10. /\ Piece(c)
         /\ PathReached(m, p, q) => FitsBefore(p, q, s)
         /\ c # Failure => (PathReached(m, p, q) <=> FitsBefore(p, q, s) /\ Accepts(c, r))
    BY <1>1, <1>4, <1>7, <1>9, StopPiece
  <1>11. PICK parts : parts = [i \in 1 .. s |-> IF i < s THEN CompileSegment(maps[i], p[i]) ELSE c]
    OBVIOUS
  <1>12. CompilePath(maps, p) = AllOf(parts)
    BY <1>6, <1>9, <1>11 DEF CompilePath
  <1>13. DOMAIN parts = 1 .. s /\ parts[s] = c /\ s \in 1 .. s
    BY <1>8, <1>11
  <1>14. ASSUME NEW i \in 1 .. s - 1
         PROVE  /\ Piece(parts[i]) /\ parts[i] # Failure
                /\ Accepts(parts[i], r) <=> SegmentMatches(p[i], q[i])
    <2>1. i \in 1 .. s /\ i < s /\ i \in 1 .. F
      BY <1>8
    <2>2. parts[i] = CompileSegment(maps[i], p[i])
      BY <1>11, <2>1
    <2>3. q[i] = Value(maps[i], r)
      BY <1>1, <1>4, <2>1 DEF RowPath
    <2>4. QED
      BY <2>2, <2>3, SegmentPiece
  <1>15. \A i \in 1 .. s : i \in 1 .. s - 1 \/ i = s
    BY <1>8
  <1>16. \A i \in 1 .. s : Piece(parts[i])
    BY <1>10, <1>13, <1>14, <1>15
  <1>17. /\ Piece(AllOf(parts))
         /\ AllOf(parts) # Failure
               => (Accepts(AllOf(parts), r) <=> \A i \in 1 .. s : Accepts(parts[i], r))
         /\ AllOf(parts) # Failure => \/ \A i \in 1 .. s : parts[i] # Failure
                                      \/ \E i \in 1 .. s : parts[i] = Nothing
    BY <1>8, <1>13, <1>16, AllOfParts
  <1>18. (\A i \in 1 .. s : Accepts(parts[i], r)) <=> FitsBefore(p, q, s) /\ Accepts(c, r)
    <2>1. 1 .. s - 1 \subseteq 1 .. s
      BY <1>8
    <2>2. QED
      BY <1>13, <1>14, <1>15, <2>1 DEF FitsBefore
  <1>19. ASSUME NEW i \in 1 .. s, parts[i] = Nothing PROVE ~PathReached(m, p, q)
    <2>1. ~Accepts(parts[i], r) /\ parts[i] # Failure
      BY <1>19, NoPiece
    <2>2. CASE i = s
      BY <1>10, <1>13, <2>1, <2>2
    <2>3. CASE i \in 1 .. s - 1
      BY <1>10, <1>14, <2>1, <2>3 DEF FitsBefore
    <2>4. QED
      BY <1>15, <2>2, <2>3
  <1>20. ASSUME AllOf(parts) # Failure PROVE Accepts(AllOf(parts), r) <=> PathReached(m, p, q)
    <2>1. CASE \E i \in 1 .. s : parts[i] = Nothing
      <3>1. ~PathReached(m, p, q)
        BY <1>19, <2>1
      <3>2. ~ \A i \in 1 .. s : Accepts(parts[i], r)
        BY <2>1, NoPiece
      <3>3. QED
        BY <1>17, <1>20, <3>1, <3>2
    <2>2. CASE \A i \in 1 .. s : parts[i] # Failure
      BY <1>10, <1>13, <1>17, <1>18, <1>20, <2>2
    <2>3. QED
      BY <1>17, <1>20, <2>1, <2>2
  <1>21. QED
    BY <1>1, <1>2, <1>12, <1>17, <1>20

(* compile_pattern accepts the rows whose URN the pattern reaches.         *)
LEMMA PatternPiece ==
    ASSUME NEW m, RemainderLast(m.path), NEW p, GlobStarLast(p.path),
           NEW r, IsSeq(Remainder(m, r))
    PROVE  /\ Piece(CompilePattern(m, p))
           /\ CompilePattern(m, p) # Failure
                 => (Accepts(CompilePattern(m, p), r) <=> Reaches(m, p, UrnOf(m, r)))
  <1>1. PICK h \in Nat : h = Len(HeadOrder)
    BY HeadAssumption
  <1>2. DOMAIN HeadOrder = 1 .. h /\ HeadFields = {HeadOrder[i] : i \in 1 .. h}
    BY <1>1, HeadAssumption DEF ToSet
  <1>3. PICK c : c = CompilePath(m.path, p.path)
    OBVIOUS
  <1>4. PICK u : u = UrnOf(m, r)
    OBVIOUS
  <1>5. /\ Piece(c)
        /\ c # Failure => (Accepts(c, r) <=> PathReached(m, p.path, u.path))
    BY <1>3, <1>4, PathPiece
  <1>6. PICK parts : parts = [i \in 1 .. h + 1 |->
                                IF i <= h THEN CompileSegment(m.head[HeadOrder[i]], p.head[HeadOrder[i]])
                                ELSE c]
    OBVIOUS
  <1>7. CompilePattern(m, p) = AllOf(parts)
    BY <1>1, <1>3, <1>6 DEF CompilePattern
  <1>8. PICK n \in Nat : n = h + 1
    OBVIOUS
  <1>9. DOMAIN parts = 1 .. n /\ parts[n] = c /\ n \in 1 .. n
    BY <1>6, <1>8
  <1>10. ASSUME NEW i \in 1 .. h
         PROVE  /\ Piece(parts[i]) /\ parts[i] # Failure
                /\ Accepts(parts[i], r) <=> SegmentMatches(p.head[HeadOrder[i]], u.head[HeadOrder[i]])
    <2>1. PICK f \in HeadFields : f = HeadOrder[i]
      BY <1>2
    <2>2. parts[i] = CompileSegment(m.head[f], p.head[f])
      BY <1>6, <2>1
    <2>3. u.head[f] = Value(m.head[f], r)
      BY <1>4 DEF UrnOf, Value
    <2>4. QED
      BY <2>1, <2>2, <2>3, SegmentPiece
  <1>11. \A i \in 1 .. n : i \in 1 .. h \/ i = n
    BY <1>8
  <1>12. \A i \in 1 .. n : Piece(parts[i])
    BY <1>5, <1>9, <1>10, <1>11
  <1>13. /\ Piece(AllOf(parts))
         /\ AllOf(parts) # Failure
               => (Accepts(AllOf(parts), r) <=> \A i \in 1 .. n : Accepts(parts[i], r))
         /\ AllOf(parts) # Failure => \/ \A i \in 1 .. n : parts[i] # Failure
                                      \/ \E i \in 1 .. n : parts[i] = Nothing
    BY <1>9, <1>12, AllOfParts
  <1>14. (\A i \in 1 .. h : Accepts(parts[i], r))
            <=> \A f \in HeadFields : SegmentMatches(p.head[f], u.head[f])
    BY <1>2, <1>10
  <1>15. (\A i \in 1 .. n : Accepts(parts[i], r))
            <=> (\A f \in HeadFields : SegmentMatches(p.head[f], u.head[f])) /\ Accepts(c, r)
    <2>1. 1 .. h \subseteq 1 .. n
      BY <1>8
    <2>2. QED
      BY <1>9, <1>11, <1>14, <2>1
  <1>16. ASSUME NEW i \in 1 .. n, parts[i] = Nothing PROVE ~Reaches(m, p, u)
    <2>1. ~Accepts(parts[i], r) /\ parts[i] # Failure
      BY <1>16, NoPiece
    <2>2. CASE i = n
      BY <1>5, <1>9, <2>1, <2>2 DEF Reaches, Matches, Widened, PathReached
    <2>3. CASE i \in 1 .. h
      BY <1>14, <2>1, <2>3 DEF Reaches, Matches, Widened, PathReached
    <2>4. QED
      BY <1>11, <2>2, <2>3
  <1>17. ASSUME AllOf(parts) # Failure PROVE Accepts(AllOf(parts), r) <=> Reaches(m, p, u)
    <2>1. CASE \E i \in 1 .. n : parts[i] = Nothing
      <3>1. ~Reaches(m, p, u)
        BY <1>16, <2>1
      <3>2. ~ \A i \in 1 .. n : Accepts(parts[i], r)
        BY <2>1, NoPiece
      <3>3. QED
        BY <1>13, <1>17, <3>1, <3>2
    <2>2. CASE \A i \in 1 .. n : parts[i] # Failure
      BY <1>5, <1>9, <1>13, <1>15, <1>17, <2>2 DEF Reaches, Matches, Widened, PathReached
    <2>3. QED
      BY <1>13, <1>17, <2>1, <2>2
  <1>18. QED
    BY <1>4, <1>7, <1>13, <1>17
-----------------------------------------------------------------------------
(* The condition as a whole.                                               *)

(* The database binds each part of the text to the operands that were      *)
(* compiled for it.                                                        *)
LEMMA BoundIs ==
    ASSUME NEW n \in Nat, NEW parts, DOMAIN parts = 1 .. n,
           \A k \in 1 .. n : InStep(parts[k]), NEW k \in 1 .. n
    PROVE  Bound(Text(parts), ParamsOf(parts), k) = parts[k].params
  <1>1. LaidOut(parts, n)
    BY PartsAreLaidOut
  <1>2. PICK T : T = Text(parts)
    OBVIOUS
  <1>3. PICK P : P = [j \in DOMAIN parts |-> parts[j].places]
    OBVIOUS
  <1>4. T = [j \in 1 .. n |-> T[j]] /\ \A j \in 1 .. n : T[j].places = P[j]
    BY <1>2, <1>3 DEF Text
  <1>5. PICK S : S = {T[j] : j \in 1 .. n}
    OBVIOUS
  <1>6. T \in Seq(S) /\ Len(T) = n
    <2>1. T \in [1 .. n -> S]
      BY <1>4, <1>5
    <2>2. QED
      BY <2>1
  <1>7. PICK R : R = {P[j] : j \in 1 .. n}
    OBVIOUS
  <1>8. P \in Seq(R) /\ Len(P) = n
    <2>1. P \in [1 .. n -> R]
      BY <1>3, <1>7
    <2>2. QED
      BY <2>1
  <1>9. PICK c : c = SubSeq(T, 1, k - 1)
    OBVIOUS
  <1>10. c \in Seq(S) /\ DOMAIN c = 1 .. k - 1 /\ \A j \in 1 .. k - 1 : c[j] = T[j]
    BY <1>6, <1>9
  <1>11. PICK d : d = SubSeq(P, 1, k - 1)
    OBVIOUS
  <1>12. d = [j \in 1 .. k - 1 |-> P[j]]
    BY <1>8, <1>11
  <1>13. [j \in DOMAIN c |-> c[j].places] = d
    <2>1. 1 .. k - 1 \subseteq 1 .. n
      OBVIOUS
    <2>2. \A j \in 1 .. k - 1 : c[j].places = P[j]
      BY <1>4, <1>10, <2>1
    <2>3. QED
      BY <1>10, <1>12, <2>2
  <1>14. Len(PlacesOf(c)) = Offset(parts, k)
    BY <1>3, <1>11, <1>13 DEF PlacesOf, Offset, Before, Upto
  <1>15. PICK o \in Nat : o = Offset(parts, k)
    BY <1>1 DEF LaidOut
  <1>16. PICK w : w = ParamsOf(parts)
    OBVIOUS
  <1>17. PICK p : p = parts[k]
    OBVIOUS
  <1>18. PICK l \in Nat : /\ l = Len(p.params) /\ l = Len(p.places)
                          /\ p.params = [i \in 1 .. l |-> p.params[i]]
                          /\ DOMAIN p.places = 1 .. l
    <2>1. InStep(p)
      BY <1>17
    <2>2. PICK a : a = p.params
      OBVIOUS
    <2>3. PICK b : b = p.places
      OBVIOUS
    <2>4. a \in Seq(ToSet(a)) /\ b \in Seq(ToSet(b)) /\ Len(a) = Len(b)
      BY <2>1, <2>2, <2>3 DEF InStep, IsSeq
    <2>5. Len(a) \in Nat /\ a = [i \in 1 .. Len(a) |-> a[i]] /\ DOMAIN b = 1 .. Len(b)
      BY <2>4
    <2>6. QED
      BY <2>2, <2>3, <2>4, <2>5
  <1>19. DOMAIN T[k].places = 1 .. l
    BY <1>3, <1>4, <1>17, <1>18
  <1>20. Bound(T, w, k) = [i \in 1 .. l |-> w[o + i]]
    BY <1>9, <1>14, <1>15, <1>19 DEF Bound
  <1>21. \A i \in 1 .. l : w[o + i] = p.params[i]
    BY <1>1, <1>15, <1>16, <1>17, <1>18 DEF LaidOut
  <1>22. Bound(T, w, k) = p.params
    BY <1>18, <1>20, <1>21
  <1>23. QED
    BY <1>2, <1>16, <1>17, <1>22

(* (allow) AND NOT (deny): some alternative accepts the row and no         *)
(* exception does.                                                         *)
LEMMA SelectsParts ==
    ASSUME NEW A, IsSeq(A), NEW B, IsSeq(B), NEW r,
           \A k \in 1 .. Len(A) : InStep(A[k]),
           \A k \in 1 .. Len(B) : InStep(B[k])
    PROVE  Selects(Scope(A \o B, A, A \o B), r)
              <=> /\ \E k \in 1 .. Len(A) : Accepts(A[k], r)
                  /\ \A k \in 1 .. Len(B) : ~Accepts(B[k], r)
  <1>1. PICK a \in Nat : a = Len(A)
    BY DEF IsSeq
  <1>2. PICK b \in Nat : b = Len(B)
    BY DEF IsSeq
  <1>3. PICK S : A \in Seq(S) /\ B \in Seq(S)
    <2>1. PICK S : S = ToSet(A) \cup ToSet(B)
      OBVIOUS
    <2>2. A \in Seq(S) /\ B \in Seq(S)
      BY <2>1 DEF IsSeq
    <2>3. QED
      BY <2>2
  <1>4. PICK c : c = A \o B
    OBVIOUS
  <1>5. /\ c \in Seq(S) /\ Len(c) = a + b
        /\ \A i \in 1 .. a : c[i] = A[i]
        /\ \A i \in 1 .. b : c[a + i] = B[i]
    BY <1>1, <1>2, <1>3, <1>4, Joined
  <1>6. PICK n \in Nat : n = a + b
    OBVIOUS
  <1>7. DOMAIN c = 1 .. n
    BY <1>5, <1>6
  <1>8. \A k \in a + 1 .. n : k - a \in 1 .. b /\ k = a + (k - a)
    BY <1>6
  <1>9. \A k \in 1 .. n : k \in 1 .. a \/ k \in a + 1 .. n
    BY <1>6
  <1>10. ASSUME NEW k \in 1 .. n PROVE InStep(c[k])
    BY <1>1, <1>2, <1>5, <1>8, <1>9
  <1>11. PICK x : x = Scope(A \o B, A, A \o B)
    OBVIOUS
  <1>12. x.text = Text(c) /\ x.allows = a /\ x.params = ParamsOf(c)
    BY <1>1, <1>4, <1>11 DEF Scope
  <1>13. PICK T : T = Text(c)
    OBVIOUS
  <1>14. /\ T = [k \in 1 .. n |-> T[k]]
         /\ \A k \in 1 .. n : T[k].result = c[k].result /\ T[k].places = c[k].places
    BY <1>7, <1>13 DEF Text
  <1>15. Len(T) = n
    BY <1>14
  <1>16. ASSUME NEW k \in 1 .. n PROVE PartHolds(T, x.params, k, r) <=> Accepts(c[k], r)
    <2>1. Bound(T, x.params, k) = c[k].params
      BY <1>7, <1>10, <1>12, <1>13, BoundIs
    <2>2. QED
      BY <1>14, <2>1 DEF PartHolds, Accepts
  <1>17. (\E k \in 1 .. a : PartHolds(T, x.params, k, r)) <=> \E k \in 1 .. a : Accepts(A[k], r)
    <2>1. 1 .. a \subseteq 1 .. n
      BY <1>6
    <2>2. QED
      BY <1>5, <1>16, <2>1
  <1>18. (\A k \in a + 1 .. n : ~PartHolds(T, x.params, k, r)) <=> \A k \in 1 .. b : ~Accepts(B[k], r)
    <2>1. a + 1 .. n \subseteq 1 .. n
      BY <1>6
    <2>2. \A i \in 1 .. b : a + i \in a + 1 .. n
      BY <1>6
    <2>3. ASSUME NEW k \in a + 1 .. n
          PROVE  \E i \in 1 .. b : k = a + i
      BY <1>8
    <2>4. ASSUME NEW i \in 1 .. b PROVE PartHolds(T, x.params, a + i, r) <=> Accepts(B[i], r)
      BY <1>5, <1>16, <2>1, <2>2
    <2>5. QED
      BY <2>2, <2>3, <2>4
  <1>19. Selects(x, r) <=> /\ \E k \in 1 .. a : PartHolds(T, x.params, k, r)
                           /\ \A k \in a + 1 .. n : ~PartHolds(T, x.params, k, r)
    BY <1>12, <1>13, <1>15 DEF Selects
  <1>20. QED
    BY <1>1, <1>2, <1>11, <1>17, <1>18, <1>19
(* or_scopes drops alternatives only when one accepts every row.           *)
LEMMA OrScopesParts ==
    ASSUME NEW C, IsSeq(C), \A k \in 1 .. Len(C) : Piece(C[k]), NEW r
    PROVE  /\ IsSeq(OrScopes(C))
           /\ \A k \in 1 .. Len(OrScopes(C)) : InStep(OrScopes(C)[k])
           /\ (\E k \in 1 .. Len(OrScopes(C)) : Accepts(OrScopes(C)[k], r))
                 <=> \E k \in 1 .. Len(C) : Accepts(C[k], r)
  <1>1. DOMAIN C = 1 .. Len(C)
    BY DEF IsSeq
  <1>2. CASE \E k \in 1 .. Len(C) : C[k] = Unconditional
    <2>1. PICK o : o = <<Unconditional>>
      OBVIOUS
    <2>2. OrScopes(C) = o
      BY <1>1, <1>2, <2>1 DEF OrScopes
    <2>3. o \in Seq({Unconditional}) /\ Len(o) = 1 /\ o[1] = Unconditional
      BY <2>1
    <2>4. \A k \in 1 .. Len(o) : k = 1
      BY <2>3
    <2>5. IsSeq(o) /\ 1 \in 1 .. Len(o)
      BY <2>3, SequenceIsSeq
    <2>6. InStep(Unconditional) /\ Accepts(Unconditional, r)
      BY UnconditionalPiece DEF Piece
    <2>7. QED
      BY <1>2, <2>2, <2>3, <2>4, <2>5, <2>6
  <1>3. CASE ~ \E k \in 1 .. Len(C) : C[k] = Unconditional
    <2>1. OrScopes(C) = C
      BY <1>1, <1>3 DEF OrScopes
    <2>2. QED
      BY <2>1 DEF Piece
  <1>4. QED
    BY <1>2, <1>3

(* A mapping ends with its remainder, and a row has a path there.          *)
LEMMA MappingShape ==
    ASSUME NEW m \in Mappings, NEW r \in Rows(m)
    PROVE  RemainderLast(m.path) /\ IsSeq(Remainder(m, r))
  <1>1. RemainderLast(m.path)
    <2>1. PICK maps : maps = m.path
      OBVIOUS
    <2>2. /\ maps \in Seq(ToSet(maps))
          /\ \A i \in DOMAIN maps : maps[i].kind = "remainder" => i = Len(maps)
      BY <2>1, MappingAssumption
    <2>3. QED
      BY <2>1, <2>2 DEF RemainderLast, IsSeq
  <1>2. CASE HasRemainder(m)
    <2>1. PICK n \in DOMAIN m.path : n = Len(m.path) /\ m.path[n].kind = "remainder"
      <3>1. PICK maps : maps = m.path
        OBVIOUS
      <3>2. maps # <<>> /\ maps[Len(maps)].kind = "remainder" /\ IsSeq(maps)
        BY <1>1, <1>2, <3>1 DEF HasRemainder, RemainderLast
      <3>3. Len(maps) \in DOMAIN maps
        BY <3>2 DEF IsSeq
      <3>4. QED
        BY <3>1, <3>2, <3>3
    <2>2. PICK c : c = m.path[n].name
      OBVIOUS
    <2>3. c \in RemainderColumns(m)
      BY <2>1, <2>2 DEF RemainderColumns
    <2>4. c \notin Columns(m)
      BY <2>3, MappingAssumption
    <2>5. r[c] \in Remainders
      BY <2>3, <2>4 DEF Rows
    <2>6. PICK k \in 1 .. MaxRemainder : r[c] \in [1 .. k -> Segments]
      BY <2>5 DEF Remainders
    <2>7. r[c] \in Seq(Segments)
      <3>1. k \in Nat
        BY MappingAssumption
      <3>2. QED
        BY <2>6, <3>1
    <2>8. Remainder(m, r) = r[c]
      BY <1>2, <2>1, <2>2 DEF Remainder
    <2>9. QED
      BY <1>1, <2>7, <2>8, SequenceIsSeq
  <1>3. CASE ~HasRemainder(m)
    <2>1. Remainder(m, r) = <<>> /\ <<>> \in Seq({})
      BY <1>3 DEF Remainder
    <2>2. QED
      BY <1>1, <2>1, SequenceIsSeq
  <1>4. QED
    BY <1>2, <1>3

(* A parsed pattern has ** at its end only.                                *)
LEMMA PatternShape ==
    ASSUME NEW p, p \in UrnPattern(Len(p.path))
    PROVE  GlobStarLast(p.path)
  <1>1. PICK q : q = p.path
    OBVIOUS
  <1>2. q \in PathPattern(Len(q))
    BY <1>1 DEF UrnPattern
  <1>3. PICK n \in 1 .. Len(q) : q \in [1 .. n -> Segments \cup {Star, GlobStar}]
    BY <1>2 DEF PathPattern
  <1>4. n \in Nat /\ n # 0
    BY <1>3
  <1>5. q \in Seq(Segments \cup {Star, GlobStar}) /\ Len(q) = n
    BY <1>3, <1>4
  <1>6. \A i \in 1 .. Len(q) - 1 : q[i] # GlobStar
    BY <1>2 DEF PathPattern
  <1>7. QED
    BY <1>1, <1>4, <1>5, <1>6, SequenceIsSeq DEF GlobStarLast

(* A list of compiled patterns, one by one.                                *)
Decided(C, patterns, m, r) ==
    /\ IsSeq(C) /\ DOMAIN C = DOMAIN patterns /\ DOMAIN C = 1 .. Len(C)
    /\ \A i \in 1 .. Len(C) :
          /\ Piece(C[i])
          /\ C[i] # Failure => (Accepts(C[i], r) <=> Reaches(m, patterns[i], UrnOf(m, r)))

(* Each compiled pattern accepts the rows whose URN it matches.            *)
LEMMA CompiledDecides ==
    ASSUME NEW m \in Mappings, NEW r \in Rows(m),
           NEW g \in Grants, NEW patterns \in {g.allow, g.deny}
    PROVE  Decided(Compiled(m, patterns), patterns, m, r)
  <1>1. patterns \in Seq(ToSet(patterns)) /\ \A p \in ToSet(patterns) : p \in UrnPattern(Len(p.path))
    BY GrantAssumption
  <1>2. PICK n \in Nat : n = Len(patterns) /\ DOMAIN patterns = 1 .. n
    BY <1>1
  <1>3. PICK C : C = Compiled(m, patterns)
    OBVIOUS
  <1>4. C = [i \in 1 .. n |-> CompilePattern(m, patterns[i])]
    BY <1>2, <1>3 DEF Compiled
  <1>5. PICK S : S = {C[i] : i \in 1 .. n}
    OBVIOUS
  <1>6. C \in Seq(S) /\ Len(C) = n /\ DOMAIN C = 1 .. n
    <2>1. C \in [1 .. n -> S]
      BY <1>4, <1>5
    <2>2. QED
      BY <2>1
  <1>7. ASSUME NEW i \in 1 .. n
        PROVE  /\ Piece(C[i])
               /\ C[i] # Failure => (Accepts(C[i], r) <=> Reaches(m, patterns[i], UrnOf(m, r)))
    <2>1. PICK p : p = patterns[i]
      OBVIOUS
    <2>2. p \in ToSet(patterns)
      BY <1>2, <2>1 DEF ToSet
    <2>3. GlobStarLast(p.path)
      BY <1>1, <2>2, PatternShape
    <2>4. RemainderLast(m.path) /\ IsSeq(Remainder(m, r))
      BY MappingShape
    <2>5. C[i] = CompilePattern(m, p)
      BY <1>4, <2>1
    <2>6. QED
      BY <2>1, <2>3, <2>4, <2>5, PatternPiece
  <1>8. IsSeq(C)
    BY <1>6, SequenceIsSeq
  <1>9. QED
    BY <1>2, <1>3, <1>6, <1>7, <1>8 DEF Decided

GrantedBy(m, g, u) ==
    /\ \E i \in DOMAIN g.allow : Reaches(m, g.allow[i], u)
    /\ ~ \E i \in DOMAIN g.deny : Reaches(m, g.deny[i], u)

(* The condition of a context selects a row exactly when an allow pattern  *)
(* reaches its URN and no deny pattern does.                               *)
LEMMA ScopeDecides ==
    ASSUME NEW m \in Mappings, NEW r \in Rows(m),
           NEW g \in Grants, CompileScope(m, g.allow, g.deny) # Failure
    PROVE  Selects(CompileScope(m, g.allow, g.deny), r) <=> GrantedBy(m, g, UrnOf(m, r))
  <1>1. PICK u : u = UrnOf(m, r)
    OBVIOUS
  <1>2. PICK A : A = Compiled(m, g.allow)
    OBVIOUS
  <1>3. PICK D : D = Compiled(m, g.deny)
    OBVIOUS
  <1>4. Decided(A, g.allow, m, r) /\ Decided(D, g.deny, m, r)
    BY <1>2, <1>3, CompiledDecides
  <1>5. /\ IsSeq(A) /\ DOMAIN A = 1 .. Len(A) /\ DOMAIN g.allow = 1 .. Len(A)
        /\ IsSeq(D) /\ DOMAIN D = 1 .. Len(D) /\ DOMAIN g.deny = 1 .. Len(D)
        /\ \A i \in 1 .. Len(A) : Piece(A[i])
        /\ \A i \in 1 .. Len(D) : Piece(D[i])
    BY <1>4 DEF Decided
  <1>6. /\ \A i \in 1 .. Len(A) : A[i] # Failure => (Accepts(A[i], r) <=> Reaches(m, g.allow[i], u))
        /\ \A i \in 1 .. Len(D) : D[i] # Failure => (Accepts(D[i], r) <=> Reaches(m, g.deny[i], u))
    BY <1>1, <1>4 DEF Decided
  <1>7. PICK x : x = CompileScope(m, g.allow, g.deny)
    OBVIOUS
  <1>8. /\ \A i \in 1 .. Len(A) : A[i] # Failure
        /\ x = IF (\A i \in 1 .. Len(A) : A[i] = Nothing) \/ FirstUnconditional(D) THEN DenyAll
               ELSE IF Fails(D) THEN Failure ELSE CombineScope(A, D)
    BY <1>2, <1>3, <1>5, <1>7 DEF CompileScope, Fails
  <1>9. CASE (\A i \in 1 .. Len(A) : A[i] = Nothing) \/ FirstUnconditional(D)
    <2>1. ~Selects(x, r)
      <3>1. x.allows = 0
        BY <1>8, <1>9 DEF DenyAll
      <3>2. 1 .. 0 = {}
        OBVIOUS
      <3>3. QED
        BY <3>1, <3>2 DEF Selects
    <2>2. ~GrantedBy(m, g, u)
      <3>1. CASE \A i \in 1 .. Len(A) : A[i] = Nothing
        <4>1. \A i \in 1 .. Len(A) : ~Reaches(m, g.allow[i], u)
          BY <1>6, <1>8, <3>1, NoPiece
        <4>2. QED
          BY <1>5, <4>1 DEF GrantedBy
      <3>2. CASE FirstUnconditional(D)
        <4>1. PICK i \in 1 .. Len(D) : D[i] = Unconditional
          BY <1>5, <3>2 DEF FirstUnconditional
        <4>2. Reaches(m, g.deny[i], u)
          BY <1>6, <4>1, UnconditionalPiece
        <4>3. QED
          BY <1>5, <4>2 DEF GrantedBy
      <3>3. QED
        BY <1>9, <3>1, <3>2
    <2>3. QED
      BY <1>1, <1>7, <2>1, <2>2
  <1>10. CASE ~ ((\A i \in 1 .. Len(A) : A[i] = Nothing) \/ FirstUnconditional(D))
    <2>1. x = CombineScope(A, D) /\ \A i \in 1 .. Len(D) : D[i] # Failure
      BY <1>5, <1>7, <1>8, <1>10 DEF Fails
    <2>2. PICK O : O = OrScopes(A)
      OBVIOUS
    <2>3. /\ IsSeq(O) /\ \A k \in 1 .. Len(O) : InStep(O[k])
          /\ (\E k \in 1 .. Len(O) : Accepts(O[k], r)) <=> \E k \in 1 .. Len(A) : Accepts(A[k], r)
      BY <1>5, <2>2, OrScopesParts
    <2>4. x = Scope(O \o D, O, O \o D)
      BY <2>1, <2>2 DEF CombineScope
    <2>5. \A k \in 1 .. Len(D) : InStep(D[k])
      BY <1>5 DEF Piece
    <2>6. Selects(x, r) <=> /\ \E k \in 1 .. Len(O) : Accepts(O[k], r)
                            /\ \A k \in 1 .. Len(D) : ~Accepts(D[k], r)
      BY <1>5, <2>3, <2>4, <2>5, SelectsParts
    <2>7. (\E k \in 1 .. Len(A) : Accepts(A[k], r)) <=> \E k \in 1 .. Len(A) : Reaches(m, g.allow[k], u)
      BY <1>6, <1>8
    <2>8. (\A k \in 1 .. Len(D) : ~Accepts(D[k], r)) <=> \A k \in 1 .. Len(D) : ~Reaches(m, g.deny[k], u)
      BY <1>6, <2>1
    <2>9. QED
      BY <1>1, <1>5, <1>7, <2>3, <2>6, <2>7, <2>8 DEF GrantedBy
  <1>11. QED
    BY <1>9, <1>10

-----------------------------------------------------------------------------
(* The condition in use is the one the grants of the request compile to,   *)
(* and the last answer is that of the last row.                            *)
QueryInv ==
    /\ mapping \in Mappings /\ grant \in Grants
    /\ row # NoRow => /\ row \in Rows(mapping)
                      /\ scope # Failure
                      /\ selected <=> Selects(scope, row)
    /\ scope # Failure => scope = CompileScope(mapping, grant.allow, grant.deny)

(* compile_scope and the query keep the condition and its answer together. *)
LEMMA QueryInvStep == QueryInv /\ [Next]_vars => QueryInv'
  <1> SUFFICES ASSUME QueryInv, [Next]_vars PROVE QueryInv'
    OBVIOUS
  <1>1. CASE Compile
    BY <1>1 DEF QueryInv, Compile
  <1>2. ASSUME NEW r \in Rows(mapping), Query(r) PROVE QueryInv'
    BY <1>2 DEF QueryInv, Query
  <1>3. CASE UNCHANGED vars
    BY <1>3 DEF QueryInv, vars
  <1>4. QED
    BY <1>1, <1>2, <1>3 DEF Next

(* The answer for the row in hand is decided by what the patterns reach.   *)
LEMMA QueryDecides == QueryInv => ScopeIsExactButForGaps
  <1> SUFFICES ASSUME QueryInv, row # NoRow
               PROVE  selected <=> GrantedBy(mapping, grant, UrnOf(mapping, row))
    BY DEF ScopeIsExactButForGaps, GrantedBy
  <1>1. /\ mapping \in Mappings /\ grant \in Grants /\ row \in Rows(mapping)
        /\ CompileScope(mapping, grant.allow, grant.deny) # Failure
        /\ selected <=> Selects(CompileScope(mapping, grant.allow, grant.deny), row)
    BY DEF QueryInv
  <1>2. Selects(CompileScope(mapping, grant.allow, grant.deny), row)
           <=> GrantedBy(mapping, grant, UrnOf(mapping, row))
    BY <1>1, ScopeDecides
  <1>3. QED
    BY <1>1, <1>2

(* compile_scope selects, for every table mapping, every list of allow and *)
(* deny patterns, every row and whatever LIKE makes of a prefix, exactly   *)
(* the rows that an allow pattern reaches and no deny pattern does; a      *)
(* pattern reaches what UrnPattern::matches accepts, and what a pattern    *)
(* that ends at the remainder column or an unescaped prefix adds to it.    *)
THEOREM ScopeIsAlwaysExactButForGaps == Spec => []ScopeIsExactButForGaps
  <1>1. Init => QueryInv
    BY DEF Init, QueryInv
  <1>2. QueryInv /\ [Next]_vars => QueryInv'
    BY QueryInvStep
  <1>3. QueryInv => ScopeIsExactButForGaps
    BY QueryDecides
  <1>4. QED
    BY <1>1, <1>2, <1>3, PTL DEF Spec

(* A pattern of the request that the compiler widens on the row in hand.   *)
SomeWidened ==
    \E patterns \in {grant.allow, grant.deny} : \E i \in DOMAIN patterns :
        Widened(mapping, patterns[i], UrnOf(mapping, row))

(* Where neither place widens a pattern of the request on a row, the       *)
(* condition decides that row as the gateway does, whatever the mapping    *)
(* and the lists: the claim of compile_scope's documentation holds there.  *)
THEOREM ScopeIsExactWhereNothingWidens == Spec => [](SomeWidened \/ ScopeIsExact)
  <1>1. ScopeIsExactButForGaps => SomeWidened \/ ScopeIsExact
    BY DEF ScopeIsExactButForGaps, ScopeIsExact, SomeWidened, Reaches, Granted
  <1>2. QED
    BY <1>1, ScopeIsAlwaysExactButForGaps, PTL
=============================================================================
