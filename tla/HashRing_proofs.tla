-------------------------- MODULE HashRing_proofs --------------------------
(***************************************************************************)
(* The consistent hash ring for any nodes, numbers of tokens, circle and   *)
(* positions: the tokens of a ring, and what Lookup and RemoveNode make of *)
(* them.                                                                   *)
(***************************************************************************)
EXTENDS HashRing, FiniteSetTheorems, SequenceTheorems, WellFoundedInduction, TLAPS

\* The naturals are well founded, and their sets have least elements.
LEMMA LessThan ==
  \E R : IsWellFoundedOn(R, Nat) /\ \A i, j \in Nat : i < j => <<i, j>> \in R
<1>1. \A i, j \in Nat : i < j => <<i, j>> \in OpToRel(<, Nat)
  BY Zenon DEF OpToRel
<1> QED
  BY <1>1, NatLessThanWellFounded, Zenon

LEMMA Minimal ==
  \A S, R, T : IsWellFoundedOn(R, S) /\ T \subseteq S /\ T # {}
                 => \E x \in T : \A y \in T : ~(<<y, x>> \in R)
BY WFMin

LEMMA Least ==
  ASSUME NEW T \in SUBSET Nat, T # {}
  PROVE  \E i \in T : \A j \in T : i <= j
<1>1. PICK R : IsWellFoundedOn(R, Nat) /\ \A i, j \in Nat : i < j => <<i, j>> \in R
  BY LessThan
<1>2. \E i \in T : \A j \in T : ~(<<j, i>> \in R)
  <2>1. T \subseteq Nat /\ T # {} /\ IsWellFoundedOn(R, Nat)
    BY <1>1
  <2> QED
    BY <2>1, Minimal, Zenon
<1>3. \E i \in T : \A j \in T : ~(j < i)
  BY <1>1, <1>2, Zenon
<1> QED
  BY <1>3

LEMMA UpTo ==
  ASSUME NEW T \in SUBSET Nat, NEW m \in Nat, 0 \in T, \A i \in T : i < m => i + 1 \in T
  PROVE  \A i \in 0..m : i \in T
<1> SUFFICES ASSUME NEW k \in 0..m, k \notin T PROVE FALSE
  OBVIOUS
<1> DEFINE Rest == {i \in 0..m : i \notin T}
<1>1. PICK i \in Rest : \A j \in Rest : i <= j
  <2>1. Rest \in SUBSET Nat /\ Rest # {}
    OBVIOUS
  <2> HIDE DEF Rest
  <2> QED
    BY <2>1, Least
<1>2. i # 0 /\ i - 1 \in 0..m /\ i - 1 \notin Rest
  BY <1>1
<1>3. i - 1 \in T /\ i - 1 < m
  BY <1>2
<1> QED
  BY <1>1, <1>3
-----------------------------------------------------------------------------
\* How many come before an element.
Before(S, by, x) == {y \in S : by[y] < by[x]}

LEMMA BeforeSize ==
  ASSUME NEW S, IsFiniteSet(S), NEW by \in [S -> Int], NEW x \in S
  PROVE  /\ IsFiniteSet(Before(S, by, x))
         /\ Cardinality(Before(S, by, x)) + 1 \in 1..Cardinality(S)
         /\ Cardinality(S) \in Nat
<1>1. Before(S, by, x) \subseteq S \ {x}
  BY DEF Before
<1>2. IsFiniteSet(S \ {x}) /\ Cardinality(S \ {x}) = Cardinality(S) - 1
  BY FS_RemoveElement
<1>3. /\ IsFiniteSet(Before(S, by, x))
      /\ Cardinality(Before(S, by, x)) <= Cardinality(S \ {x})
  BY <1>1, <1>2, FS_Subset
<1>4. Cardinality(Before(S, by, x)) \in Nat /\ Cardinality(S) \in Nat
  BY <1>3, FS_CardinalityType
<1> QED
  BY <1>2, <1>3, <1>4

LEMMA BeforeGrows ==
  ASSUME NEW S, IsFiniteSet(S), NEW by \in [S -> Int], NEW x \in S, NEW y \in S, by[x] < by[y]
  PROVE  Cardinality(Before(S, by, x)) < Cardinality(Before(S, by, y))
<1>1. Before(S, by, x) \subseteq Before(S, by, y)
  BY DEF Before
<1>2. x \in Before(S, by, y) /\ x \notin Before(S, by, x)
  BY DEF Before
<1>3. IsFiniteSet(Before(S, by, y)) /\ IsFiniteSet(Before(S, by, x))
  BY BeforeSize
<1>4. /\ Cardinality(Before(S, by, x)) <= Cardinality(Before(S, by, y))
      /\ Cardinality(Before(S, by, x)) # Cardinality(Before(S, by, y))
  BY <1>1, <1>2, <1>3, FS_Subset
<1>5. Cardinality(Before(S, by, x)) \in Nat /\ Cardinality(Before(S, by, y)) \in Nat
  BY <1>3, FS_CardinalityType
<1> QED
  BY <1>4, <1>5

\* InOrder lists a finite set, each element once, by increasing values.
LEMMA InOrderLists ==
  ASSUME NEW S, IsFiniteSet(S), NEW by \in [S -> Int],
         \A x, y \in S : by[x] = by[y] => x = y
  PROVE  /\ Cardinality(S) \in Nat
         /\ InOrder(S, by) \in [1..Cardinality(S) -> S]
         /\ \A k \in 1..Cardinality(S) : Cardinality(Before(S, by, InOrder(S, by)[k])) = k - 1
         /\ \A x \in S : InOrder(S, by)[Cardinality(Before(S, by, x)) + 1] = x
         /\ \A i, j \in 1..Cardinality(S) :
              i < j => by[InOrder(S, by)[i]] < by[InOrder(S, by)[j]]
<1> DEFINE n == Cardinality(S)
           rank == [x \in S |-> Cardinality(Before(S, by, x)) + 1]
<1>1. n \in Nat /\ IsFiniteSet(1..n) /\ Cardinality(1..n) = n
  BY FS_CardinalityType, FS_Interval
<1>2. rank \in [S -> 1..n]
  BY BeforeSize
<1>3. ASSUME NEW x \in S, NEW y \in S, by[x] < by[y] PROVE rank[x] < rank[y]
  <2>1. Cardinality(Before(S, by, x)) < Cardinality(Before(S, by, y))
    BY <1>3, BeforeGrows
  <2>2. Cardinality(Before(S, by, x)) \in Nat /\ Cardinality(Before(S, by, y)) \in Nat
    BY BeforeSize, FS_CardinalityType
  <2> QED
    BY <2>1, <2>2
<1>4. ASSUME NEW x \in S, NEW y \in S, rank[x] = rank[y] PROVE x = y
  <2>1. rank[x] \in Int /\ ~(rank[x] < rank[y]) /\ ~(rank[y] < rank[x])
    BY <1>2, <1>4
  <2>2. ~(by[x] < by[y]) /\ ~(by[y] < by[x])
    BY <1>3, <2>1, Zenon
  <2> QED
    BY <2>2
<1>5. \A k \in 1..n : \E x \in S : rank[x] = k
  <2>1. rank \in Injection(S, 1..n)
    BY <1>2, <1>4 DEF Injection, IsInjective
  <2>2. rank \in Surjection(S, 1..n)
    BY <1>1, <2>1, FS_Injection
  <2> QED
    BY <2>2 DEF Surjection
<1>6. ASSUME NEW k \in 1..n
      PROVE  InOrder(S, by)[k] \in S /\ rank[InOrder(S, by)[k]] = k
  <2>1. InOrder(S, by)[k] = CHOOSE x \in S : Cardinality(Before(S, by, x)) = k - 1
    BY DEF InOrder, Nth, Before
  <2>2. PICK x \in S : rank[x] = k
    BY <1>5
  <2>3. Cardinality(Before(S, by, x)) = k - 1
    BY <2>2, BeforeSize, FS_CardinalityType
  <2>4. /\ InOrder(S, by)[k] \in S
        /\ Cardinality(Before(S, by, InOrder(S, by)[k])) = k - 1
    BY <2>1, <2>3
  <2> QED
    BY <2>4
<1> QED
  <2>1. InOrder(S, by) \in [1..n -> S]
    BY <1>6 DEF InOrder
  <2>2. ASSUME NEW k \in 1..n PROVE Cardinality(Before(S, by, InOrder(S, by)[k])) = k - 1
    <3>1. PICK x \in S : x = InOrder(S, by)[k] /\ rank[x] = k
      BY <1>6
    <3>2. Cardinality(Before(S, by, x)) \in Nat
      BY BeforeSize, FS_CardinalityType
    <3> QED
      BY <3>1, <3>2
  <2>3. ASSUME NEW x \in S PROVE InOrder(S, by)[Cardinality(Before(S, by, x)) + 1] = x
    BY <1>2, <1>4, <1>6
  <2>4. ASSUME NEW i \in 1..n, NEW j \in 1..n, i < j
        PROVE  by[InOrder(S, by)[i]] < by[InOrder(S, by)[j]]
    <3>1. PICK x \in S : x = InOrder(S, by)[i] /\ rank[x] = i
      BY <1>6, <2>4
    <3>2. PICK y \in S : y = InOrder(S, by)[j] /\ rank[y] = j
      BY <1>6, <2>4
    <3>3. ~(by[y] < by[x])
      BY <1>3, <2>4, <3>1, <3>2
    <3>4. x # y
      BY <2>4, <3>1, <3>2
    <3> QED
      BY <3>1, <3>2, <3>3, <3>4
  <2> QED
    BY <1>1, <2>1, <2>2, <2>3, <2>4

\* A list of a finite set by increasing values is the one in order.
LEMMA OneOrder ==
  ASSUME NEW S, IsFiniteSet(S), NEW by \in [S -> Int],
         \A x, y \in S : by[x] = by[y] => x = y,
         NEW f \in [1..Cardinality(S) -> S],
         \A i, j \in 1..Cardinality(S) : i < j => by[f[i]] < by[f[j]]
  PROVE  f = InOrder(S, by)
<1> DEFINE n == Cardinality(S)
<1>1. n \in Nat /\ IsFiniteSet(1..n) /\ Cardinality(1..n) = n
  BY FS_CardinalityType, FS_Interval
<1>2. ASSUME NEW i \in 1..n, NEW j \in 1..n, f[i] = f[j] PROVE i = j
  <2>1. by[f[i]] \in Int
    OBVIOUS
  <2>2. ~(i < j) /\ ~(j < i)
    BY <1>2, <2>1
  <2> QED
    BY <1>1, <2>2
<1>3. f \in Surjection(1..n, S)
  <2>1. f \in Injection(1..n, S)
    BY <1>2 DEF Injection, IsInjective
  <2> QED
    BY <1>1, <2>1, FS_Injection
<1>4. ASSUME NEW k \in 1..n PROVE Cardinality(Before(S, by, f[k])) = k - 1
  <2> DEFINE g == [i \in 1..(k - 1) |-> f[i]]
  <2>1. Before(S, by, f[k]) = {f[i] : i \in 1..(k - 1)}
    <3>1. ASSUME NEW i \in 1..(k - 1) PROVE f[i] \in Before(S, by, f[k])
      BY <1>1 DEF Before
    <3>2. ASSUME NEW x \in Before(S, by, f[k]) PROVE \E i \in 1..(k - 1) : x = f[i]
      <4>1. PICK i \in 1..n : x = f[i]
        BY <1>3, <3>2 DEF Surjection, Before
      <4>2. by[f[i]] < by[f[k]]
        BY <3>2, <4>1 DEF Before
      <4>3. by[f[i]] \in Int /\ by[f[k]] \in Int
        OBVIOUS
      <4>4. ~(k < i) /\ i # k
        BY <4>2, <4>3
      <4> QED
        BY <1>1, <4>1, <4>4
    <3> QED
      BY <3>1, <3>2
  <2>2. g \in Bijection(1..(k - 1), Before(S, by, f[k]))
    <3>1. g \in [1..(k - 1) -> Before(S, by, f[k])]
      BY <2>1
    <3>2. \A i, j \in 1..(k - 1) : g[i] = g[j] => i = j
      BY <1>1, <1>2
    <3>3. \A x \in Before(S, by, f[k]) : \E i \in 1..(k - 1) : g[i] = x
      BY <2>1
    <3> QED
      BY <3>1, <3>2, <3>3 DEF Bijection, Injection, Surjection, IsInjective
  <2>3. IsFiniteSet(1..(k - 1)) /\ Cardinality(1..(k - 1)) = k - 1
    <3>1. k - 1 \in Int /\ 1 \in Int /\ k >= 1
      BY <1>1
    <3> QED
      BY <3>1, FS_Interval
  <2> HIDE DEF g
  <2> QED
    BY <2>2, <2>3, FS_Bijection DEF ExistsBijection
<1>5. ASSUME NEW k \in 1..n PROVE f[k] = InOrder(S, by)[k]
  <2>1. InOrder(S, by)[Cardinality(Before(S, by, f[k])) + 1] = f[k]
    BY InOrderLists
  <2> QED
    BY <1>4, <2>1
<1>6. InOrder(S, by) = [k \in 1..n |-> InOrder(S, by)[k]]
  BY DEF InOrder
<1> QED
  BY <1>5, <1>6

LEMMA SeqOfMore ==
  ASSUME NEW T, NEW s \in Seq(T), NEW U, T \subseteq U
  PROVE  s \in Seq(U)
<1>1. \A i \in 1..Len(s) : s[i] \in U
  OBVIOUS
<1> QED
  BY <1>1

\* The positions P from first to last.
Rising(P) == InOrder(P, [i \in P |-> i])

\* Kept lists the positions P of a sequence from first to last.
IsKept(T, s, P) ==
  /\ IsFiniteSet(P) /\ Cardinality(P) \in Nat
  /\ Rising(P) \in [1..Cardinality(P) -> P]
  /\ \A i, j \in 1..Cardinality(P) : i < j => Rising(P)[i] < Rising(P)[j]
  /\ \A p \in P : \E k \in 1..Cardinality(P) : Rising(P)[k] = p
  /\ Kept(s, P) \in Seq(T) /\ Len(Kept(s, P)) = Cardinality(P)
  /\ \A k \in 1..Cardinality(P) : Kept(s, P)[k] = s[Rising(P)[k]]

LEMMA KeptLists ==
  ASSUME NEW T, NEW s \in Seq(T), NEW P \in SUBSET (1..Len(s))
  PROVE  IsKept(T, s, P)
<1> DEFINE by == [i \in P |-> i]
           at == InOrder(P, by)
           n == Cardinality(P)
<1>1. IsFiniteSet(P)
  <2>1. IsFiniteSet(1..Len(s))
    <3>1. Len(s) \in Int /\ 1 \in Int
      OBVIOUS
    <3> QED
      BY <3>1, FS_Interval
  <2> QED
    BY <2>1, FS_Subset
<1>2. by \in [P -> Int] /\ \A i, j \in P : by[i] = by[j] => i = j
  OBVIOUS
<1>3. \A p \in P : by[p] = p
  OBVIOUS
<1> HIDE DEF by
<1>4. /\ n \in Nat /\ at \in [1..n -> P]
      /\ \A p \in P : at[Cardinality(Before(P, by, p)) + 1] = p
      /\ \A i, j \in 1..n : i < j => by[at[i]] < by[at[j]]
  BY <1>1, <1>2, InOrderLists
<1>5. \A i, j \in 1..n : i < j => at[i] < at[j]
  BY <1>3, <1>4
<1>6. ASSUME NEW p \in P PROVE \E k \in 1..n : at[k] = p
  BY <1>1, <1>2, <1>4, BeforeSize
<1>7. Kept(s, P) = [k \in 1..n |-> s[at[k]]]
  <2>1. DOMAIN at = 1..n
    BY <1>4
  <2> QED
    BY <2>1 DEF Kept, by
<1> HIDE DEF at
<1>8. ASSUME NEW k \in 1..n PROVE s[at[k]] \in T
  <2>1. at[k] \in 1..Len(s)
    BY <1>4
  <2> QED
    BY <2>1
<1>9. Kept(s, P) \in Seq(T) /\ Len(Kept(s, P)) = n
  BY <1>4, <1>7, <1>8
<1> QED
  BY <1>1, <1>4, <1>5, <1>6, <1>7, <1>9 DEF at, by, Rising, IsKept
-----------------------------------------------------------------------------
\* The tokens of the nodes S.
TokensOf(S) == {[hash |-> Position[x], node |-> x[1]] : x \in S \X (0..(VNodes - 1))}

LEMMA TokenIs ==
  ASSUME NEW S
  PROVE  /\ \A t \in TokensOf(S) : \E n \in S, i \in 0..(VNodes - 1) :
              t = [hash |-> Position[<<n, i>>], node |-> n]
         /\ \A n \in S, i \in 0..(VNodes - 1) :
              [hash |-> Position[<<n, i>>], node |-> n] \in TokensOf(S)
BY DEF TokensOf

\* A sequence of just these, by increasing hashes.
IsRing(tokens, S) ==
  /\ tokens \in Seq(TokensOf(S))
  /\ \A t \in TokensOf(S) : \E i \in 1..Len(tokens) : tokens[i] = t
  /\ \A i, j \in 1..Len(tokens) : i < j => tokens[i].hash < tokens[j].hash

LEMMA TokenFacts ==
  ASSUME NEW S \in SUBSET ToSet(RingNodes)
  PROVE  /\ \A t \in TokensOf(S) : t.hash \in 0..Top /\ t.hash \in Int /\ t.node \in S
         /\ \A t, u \in TokensOf(S) : t.hash = u.hash => t = u
<1>1. ASSUME NEW t \in TokensOf(S)
      PROVE  \E i \in 0..(VNodes - 1) :
               /\ t = [hash |-> Position[<<t.node, i>>], node |-> t.node]
               /\ <<t.node, i>> \in DOMAIN Position /\ t.node \in S
               /\ t.hash = Position[<<t.node, i>>] /\ t.hash \in 0..Top
  <2>1. PICK n \in S, i \in 0..(VNodes - 1) : t = [hash |-> Position[<<n, i>>], node |-> n]
    BY DEF TokensOf
  <2>2. <<n, i>> \in DOMAIN Position /\ Position[<<n, i>>] \in 0..Top
    BY <2>1, PositionAssumption
  <2> QED
    BY <2>1, <2>2
<1>2. ASSUME NEW t \in TokensOf(S), NEW u \in TokensOf(S), t.hash = u.hash
      PROVE  t = u
  <2>1. PICK i \in 0..(VNodes - 1) :
               /\ t = [hash |-> Position[<<t.node, i>>], node |-> t.node]
               /\ <<t.node, i>> \in DOMAIN Position /\ t.hash = Position[<<t.node, i>>]
    BY <1>1
  <2>2. PICK j \in 0..(VNodes - 1) :
               /\ u = [hash |-> Position[<<u.node, j>>], node |-> u.node]
               /\ <<u.node, j>> \in DOMAIN Position /\ u.hash = Position[<<u.node, j>>]
    BY <1>1
  <2>3. <<t.node, i>> = <<u.node, j>>
    BY <1>2, <2>1, <2>2, PositionAssumption
  <2> QED
    BY <2>1, <2>2, <2>3
<1>3. \A t \in TokensOf(S) : t.hash \in 0..Top /\ t.node \in S
  BY <1>1
<1>4. \A t \in TokensOf(S) : t.hash \in Int
  BY <1>3, VNodesAssumption
<1> QED
  BY <1>2, <1>3, <1>4

\* sort.Slice: the same tokens, by increasing hashes.
LEMMA SortSorts ==
  ASSUME NEW T, \A t \in T : t.hash \in Int, NEW s \in Seq(T),
         \A i, j \in 1..Len(s) : s[i].hash = s[j].hash => i = j
  PROVE  /\ SortedByHash(s) \in Seq(T) /\ Len(SortedByHash(s)) = Len(s)
         /\ \A i \in 1..Len(s) : \E k \in 1..Len(s) : SortedByHash(s)[k] = s[i]
         /\ \A i, j \in 1..Len(s) : i < j => SortedByHash(s)[i].hash < SortedByHash(s)[j].hash
<1> DEFINE P == 1..Len(s)
           by == [i \in P |-> s[i].hash]
           at == InOrder(P, by)
<1>1. IsFiniteSet(P) /\ Cardinality(P) = Len(s) /\ Len(s) \in Nat
  <2>1. Len(s) \in Int /\ 1 \in Int /\ Len(s) >= 0
    OBVIOUS
  <2>2. IsFiniteSet(P) /\ Cardinality(P) = IF 1 > Len(s) THEN 0 ELSE Len(s) - 1 + 1
    BY <2>1, FS_Interval
  <2> QED
    BY <2>1, <2>2
<1>2. by \in [P -> Int] /\ \A i, j \in P : by[i] = by[j] => i = j
  OBVIOUS
<1>3. \A i \in P : by[i] = s[i].hash
  OBVIOUS
<1>4. DOMAIN s = P
  OBVIOUS
<1>5. SortedByHash(s) = [k \in DOMAIN at |-> s[at[k]]]
  BY <1>4 DEF SortedByHash
<1> HIDE DEF by, P
<1>6. /\ at \in [1..Len(s) -> P]
      /\ \A i \in P : at[Cardinality(Before(P, by, i)) + 1] = i
      /\ \A i, j \in 1..Len(s) : i < j => by[at[i]] < by[at[j]]
  BY <1>1, <1>2, InOrderLists
<1>7. \A i \in P : Cardinality(Before(P, by, i)) + 1 \in 1..Len(s)
  BY <1>1, <1>2, BeforeSize
<1> HIDE DEF at
<1>8. SortedByHash(s) = [k \in 1..Len(s) |-> s[at[k]]]
  BY <1>5, <1>6
<1>9. \A i \in P : s[i] \in T
  BY DEF P
<1>10. SortedByHash(s) \in Seq(T) /\ Len(SortedByHash(s)) = Len(s)
  BY <1>1, <1>6, <1>8, <1>9
<1>11. ASSUME NEW i \in 1..Len(s) PROVE \E k \in 1..Len(s) : SortedByHash(s)[k] = s[i]
  <2>1. PICK k \in 1..Len(s) : at[k] = i
    BY <1>6, <1>7 DEF P
  <2> QED
    BY <1>8, <2>1
<1>12. ASSUME NEW i \in 1..Len(s), NEW j \in 1..Len(s), i < j
       PROVE  SortedByHash(s)[i].hash < SortedByHash(s)[j].hash
  <2>1. at[i] \in P /\ at[j] \in P /\ by[at[i]] < by[at[j]]
    BY <1>6, <1>12
  <2> QED
    BY <1>3, <1>8, <2>1
<1> QED
  BY <1>10, <1>11, <1>12

LEMMA EmptyRing == IsRing(<<>>, {})
BY DEF IsRing, TokensOf

\* AddNode: a ring with one node more.
LEMMA AddRing ==
  ASSUME NEW S \in SUBSET ToSet(RingNodes), NEW tokens, IsRing(tokens, S),
         NEW n \in ToSet(RingNodes), n \notin S
  PROVE  IsRing(AddNode(tokens, n), S \cup {n})
<1> DEFINE T == TokensOf(S \cup {n})
           new == NodeTokens(n)
           all == tokens \o new
<1>1. /\ \A t \in T : t.hash \in Int
      /\ \A t, u \in T : t.hash = u.hash => t = u
      /\ \A t \in TokensOf(S) : t.node # n
  BY TokenFacts
<1>2. TokensOf(S) \subseteq T
  BY DEF TokensOf
<1>3. tokens \in Seq(T)
  <2>1. tokens \in Seq(TokensOf(S))
    BY DEF IsRing
  <2> QED
    BY <1>2, <2>1, SeqOfMore
<1>4. VNodes \in Nat
  BY VNodesAssumption
<1>5. \A i \in 1..VNodes : i - 1 \in 0..(VNodes - 1)
  BY <1>4
<1>6. ASSUME NEW i \in 1..VNodes PROVE new[i] \in T /\ new[i].node = n /\ new[i].hash = Position[<<n, i - 1>>]
  BY <1>5 DEF NodeTokens, TokensOf
<1>7. new \in Seq(T) /\ Len(new) = VNodes
  BY <1>4, <1>6 DEF NodeTokens
<1>8. ASSUME NEW i \in 1..VNodes, NEW j \in 1..VNodes, new[i].hash = new[j].hash PROVE i = j
  <2>1. <<n, i - 1>> \in DOMAIN Position /\ <<n, j - 1>> \in DOMAIN Position
    BY <1>5, PositionAssumption
  <2>2. <<n, i - 1>> = <<n, j - 1>>
    BY <1>6, <1>8, <2>1, PositionAssumption
  <2> QED
    BY <1>4, <2>2
<1>9. ASSUME NEW t \in TokensOf(S \cup {n}), t \notin TokensOf(S)
      PROVE  \E i \in 1..VNodes : t = new[i]
  <2>1. PICK m \in S \cup {n}, i \in 0..(VNodes - 1) : t = [hash |-> Position[<<m, i>>], node |-> m]
    BY DEF TokensOf
  <2>2. m = n
    BY <1>9, <2>1 DEF TokensOf
  <2>3. i + 1 \in 1..VNodes /\ (i + 1) - 1 = i
    BY <1>4
  <2>4. new[i + 1] = [hash |-> Position[<<n, (i + 1) - 1>>], node |-> n]
    BY <2>3 DEF NodeTokens
  <2> QED
    BY <2>1, <2>2, <2>3, <2>4
<1> HIDE DEF T, new
<1>10. /\ all \in Seq(T) /\ Len(all) = Len(tokens) + VNodes /\ Len(tokens) \in Nat
       /\ \A i \in 1..Len(tokens) : all[i] = tokens[i]
       /\ \A i \in 1..VNodes : all[Len(tokens) + i] = new[i]
  BY <1>3, <1>4, <1>7
<1>11. ASSUME NEW i \in 1..Len(all), NEW j \in 1..Len(all), all[i].hash = all[j].hash
       PROVE  i = j
  <2>1. \A k \in 1..Len(tokens) : tokens[k] \in TokensOf(S)
    BY DEF IsRing
  <2>2. \A k \in 1..Len(tokens), l \in 1..Len(tokens) : tokens[k].hash = tokens[l].hash => k = l
    <3> SUFFICES ASSUME NEW k \in 1..Len(tokens), NEW l \in 1..Len(tokens),
                        tokens[k].hash = tokens[l].hash
                 PROVE  k = l
      OBVIOUS
    <3>1. tokens[k].hash \in Int
      BY <1>1, <1>2, <2>1
    <3>2. \A a, b \in 1..Len(tokens) : a < b => tokens[a].hash < tokens[b].hash
      BY DEF IsRing
    <3>3. ~(k < l) /\ ~(l < k)
      BY <3>1, <3>2
    <3> QED
      BY <1>10, <3>3
  <2>3. all[i] \in T /\ all[j] \in T
    BY <1>10
  <2>4. all[i] = all[j]
    BY <1>1, <1>11, <2>3
  <2>5. \/ i \in 1..Len(tokens) /\ j \in 1..Len(tokens)
        \/ i - Len(tokens) \in 1..VNodes /\ j - Len(tokens) \in 1..VNodes
    <3>1. \A k \in 1..Len(all) : k \in 1..Len(tokens) \/ k - Len(tokens) \in 1..VNodes
      BY <1>4, <1>10
    <3>2. \A k \in 1..Len(tokens) : all[k].node # n
      BY <1>1, <1>10, <2>1
    <3>3. ASSUME NEW k \in 1..Len(all), k - Len(tokens) \in 1..VNodes PROVE all[k].node = n
      <4>1. all[Len(tokens) + (k - Len(tokens))] = new[k - Len(tokens)]
        BY <1>10, <3>3
      <4>2. Len(tokens) + (k - Len(tokens)) = k
        BY <1>10
      <4> QED
        BY <1>6, <3>3, <4>1, <4>2
    <3> QED
      BY <2>4, <3>1, <3>2, <3>3
  <2>6. CASE i \in 1..Len(tokens) /\ j \in 1..Len(tokens)
    BY <1>10, <1>11, <2>2, <2>6
  <2>7. CASE i - Len(tokens) \in 1..VNodes /\ j - Len(tokens) \in 1..VNodes
    <3>1. /\ all[Len(tokens) + (i - Len(tokens))] = new[i - Len(tokens)]
          /\ all[Len(tokens) + (j - Len(tokens))] = new[j - Len(tokens)]
      BY <1>10, <2>7
    <3>2. Len(tokens) + (i - Len(tokens)) = i /\ Len(tokens) + (j - Len(tokens)) = j
      BY <1>10
    <3>3. i - Len(tokens) = j - Len(tokens)
      BY <1>8, <1>11, <2>7, <3>1, <3>2
    <3> QED
      BY <1>10, <3>3
  <2> QED
    BY <2>5, <2>6, <2>7
<1>12. AddNode(tokens, n) = SortedByHash(all)
  BY DEF AddNode, new
<1> HIDE DEF all
<1>13. /\ SortedByHash(all) \in Seq(T) /\ Len(SortedByHash(all)) = Len(all)
       /\ \A i \in 1..Len(all) : \E k \in 1..Len(all) : SortedByHash(all)[k] = all[i]
       /\ \A i, j \in 1..Len(all) :
            i < j => SortedByHash(all)[i].hash < SortedByHash(all)[j].hash
  BY <1>1, <1>10, <1>11, SortSorts
<1>14. ASSUME NEW t \in T PROVE \E k \in 1..Len(all) : SortedByHash(all)[k] = t
  <2>1. \E i \in 1..Len(all) : all[i] = t
    <3>1. CASE t \in TokensOf(S)
      <4>1. PICK i \in 1..Len(tokens) : tokens[i] = t
        BY <3>1 DEF IsRing
      <4> QED
        BY <1>4, <1>10, <4>1
    <3>2. CASE \E i \in 1..VNodes : t = new[i]
      BY <1>4, <1>10, <3>2
    <3> QED
      BY <1>9, <3>1, <3>2 DEF T
  <2> QED
    BY <1>13, <2>1
<1> QED
  BY <1>12, <1>13, <1>14 DEF IsRing, T
-----------------------------------------------------------------------------
\* rebuildLocked has a value: the rings of the first nodes.
Grown(S, f, i) ==
  IF i = 0 THEN <<>>
  ELSE IF RingNodes[i] \in S THEN AddNode(f[i - 1], RingNodes[i]) ELSE f[i - 1]

LEMMA Grows ==
  ASSUME NEW S, NEW m \in Nat
  PROVE  \E f : f = [i \in 0..m |-> Grown(S, f, i)]
<1> DEFINE T == {k \in Nat : \E f : f = [i \in 0..k |-> Grown(S, f, i)]}
<1>1. 0 \in T
  <2> DEFINE f == [i \in 0..0 |-> <<>>]
  <2>1. f = [i \in 0..0 |-> Grown(S, f, i)]
    <3>1. \A i \in 0..0 : Grown(S, f, i) = <<>>
      BY DEF Grown
    <3> QED
      BY <3>1
  <2> HIDE DEF f
  <2> QED
    BY <2>1
<1>2. ASSUME NEW k \in T, k < m PROVE k + 1 \in T
  <2>1. PICK f : f = [i \in 0..k |-> Grown(S, f, i)]
    BY <1>2
  <2> DEFINE g == [i \in 0..(k + 1) |-> IF i = k + 1 THEN Grown(S, f, i) ELSE f[i]]
  <2>2. k \in Nat
    BY <1>2
  <2>3. ASSUME NEW i \in 0..(k + 1) PROVE g[i] = Grown(S, g, i)
    <3>1. g[i] = Grown(S, f, i)
      <4>1. i \in 0..k \/ i = k + 1
        BY <2>2
      <4> QED
        BY <2>1, <4>1
    <3>2. CASE i = 0
      BY <3>1, <3>2 DEF Grown
    <3>3. CASE i # 0
      <4>1. g[i - 1] = f[i - 1]
        <5>1. i - 1 \in 0..(k + 1) /\ i - 1 # k + 1
          BY <2>2, <3>3
        <5> QED
          BY <5>1
      <4> HIDE DEF g
      <4> QED
        BY <3>1, <4>1, <3>3 DEF Grown
    <3> QED
      BY <3>2, <3>3
  <2>4. g = [i \in 0..(k + 1) |-> g[i]]
    OBVIOUS
  <2> HIDE DEF g
  <2>5. g = [i \in 0..(k + 1) |-> Grown(S, g, i)]
    BY <2>3, <2>4
  <2> QED
    BY <2>2, <2>5
<1>3. T \in SUBSET Nat
  OBVIOUS
<1>4. \A i \in 0..m : i \in T
  <2> HIDE DEF T
  <2> QED
    BY <1>1, <1>2, <1>3, UpTo
<1>5. m \in T
  BY <1>4
<1> QED
  BY <1>5

LEMMA RebuiltRing ==
  ASSUME NEW S \in SUBSET ToSet(RingNodes)
  PROVE  IsRing(Rebuilt(S), S)
<1> DEFINE L == Len(RingNodes)
           Of(i) == {n \in S : \E j \in 1..i : RingNodes[j] = n}
<1>1. L \in Nat /\ \A i \in 1..L : RingNodes[i] \in ToSet(RingNodes)
  BY RingNodesAssumption
<1>2. \A i, j \in 1..L : RingNodes[i] = RingNodes[j] => i = j
  BY RingNodesAssumption DEF IsInjective
<1>3. \A n \in S : \E i \in 1..L : RingNodes[i] = n
  BY RingNodesAssumption DEF ToSet
<1>4. PICK ring : ring = [i \in 0..L |-> Grown(S, ring, i)] /\ Rebuilt(S) = ring[L]
  <2>1. \E f : f = [i \in 0..L |-> Grown(S, f, i)]
    BY <1>1, Grows
  <2> QED
    BY <2>1 DEF Rebuilt, Grown
<1> DEFINE T == {i \in 0..L : IsRing(ring[i], Of(i))}
<1>5. 0 \in T
  <2>1. ring[0] = <<>> /\ Of(0) = {}
    BY <1>1, <1>4 DEF Grown
  <2>2. IsRing(ring[0], Of(0))
    <3>1. \A t, A : t = <<>> /\ A = {} => IsRing(t, A)
      BY EmptyRing, Zenon
    <3> HIDE DEF Of
    <3> QED
      BY <2>1, <3>1, Zenon
  <2>3. 0 \in 0..L
    BY <1>1
  <2> HIDE DEF Of
  <2> QED
    BY <2>2, <2>3
<1>6. ASSUME NEW k \in T, k < L PROVE k + 1 \in T
  <2>1. k \in 0..L /\ k + 1 \in 1..L /\ k + 1 \in 0..L /\ (k + 1) - 1 = k /\ IsRing(ring[k], Of(k))
    BY <1>1, <1>6
  <2>2. ring[k + 1] = Grown(S, ring, k + 1)
    BY <1>4, <2>1
  <2>3. ring[k + 1] = IF RingNodes[k + 1] \in S THEN AddNode(ring[k], RingNodes[k + 1]) ELSE ring[k]
    BY <2>1, <2>2 DEF Grown
  <2>4. CASE RingNodes[k + 1] \in S
    <3>1. Of(k + 1) = Of(k) \cup {RingNodes[k + 1]}
      <4>1. \A j : j \in 1..(k + 1) <=> j \in 1..k \/ j = k + 1
        BY <2>1
      <4> QED
        BY <2>4, <4>1
    <3>2. RingNodes[k + 1] \notin Of(k)
      <4> SUFFICES ASSUME NEW j \in 1..k, RingNodes[j] = RingNodes[k + 1] PROVE FALSE
        OBVIOUS
      <4> QED
        BY <1>1, <1>2, <2>1
    <3>3. Of(k) \in SUBSET ToSet(RingNodes)
      OBVIOUS
    <3> HIDE DEF Of
    <3>4. IsRing(AddNode(ring[k], RingNodes[k + 1]), Of(k) \cup {RingNodes[k + 1]})
      BY <1>1, <2>1, <3>2, <3>3, AddRing
    <3> QED
      BY <2>1, <2>3, <2>4, <3>1, <3>4
  <2>5. CASE RingNodes[k + 1] \notin S
    <3>1. Of(k + 1) = Of(k)
      <4>1. \A j : j \in 1..(k + 1) <=> j \in 1..k \/ j = k + 1
        BY <2>1
      <4> QED
        BY <2>5, <4>1
    <3> HIDE DEF Of
    <3> QED
      BY <2>1, <2>3, <2>5, <3>1
  <2> QED
    BY <2>4, <2>5
<1>7. T \in SUBSET Nat
  BY <1>1
<1>8. L \in T
  <2> HIDE DEF T
  <2>1. \A i \in 0..L : i \in T
    BY <1>1, <1>5, <1>6, <1>7, UpTo
  <2> QED
    BY <1>1, <2>1
<1>9. Of(L) = S
  BY <1>3
<1> HIDE DEF Of
<1> QED
  BY <1>4, <1>8, <1>9
-----------------------------------------------------------------------------
LEMMA RingFacts ==
  ASSUME NEW S \in SUBSET ToSet(RingNodes), NEW tokens, IsRing(tokens, S)
  PROVE  /\ Len(tokens) \in Nat /\ tokens \in [1..Len(tokens) -> TokensOf(S)]
         /\ \A i \in 1..Len(tokens) :
              tokens[i] \in TokensOf(S) /\ tokens[i].hash \in 0..Top /\ tokens[i].node \in S
         /\ \A i, j \in 1..Len(tokens) : i < j => tokens[i].hash < tokens[j].hash
         /\ \A t \in TokensOf(S) : \E i \in 1..Len(tokens) : tokens[i] = t
<1>1. tokens \in Seq(TokensOf(S))
  BY DEF IsRing
<1>2. Len(tokens) \in Nat /\ \A i \in 1..Len(tokens) : tokens[i] \in TokensOf(S)
  BY <1>1
<1>3. \A t \in TokensOf(S) : t.hash \in 0..Top /\ t.node \in S
  BY TokenFacts
<1>4. /\ \A i, j \in 1..Len(tokens) : i < j => tokens[i].hash < tokens[j].hash
      /\ \A t \in TokensOf(S) : \E i \in 1..Len(tokens) : tokens[i] = t
  BY DEF IsRing
<1>5. tokens \in [1..Len(tokens) -> TokensOf(S)]
  BY <1>1
<1> QED
  BY <1>2, <1>3, <1>4, <1>5

LEMMA RingHasToken ==
  ASSUME NEW S \in SUBSET ToSet(RingNodes), NEW tokens, IsRing(tokens, S),
         NEW n \in S, NEW i \in 0..(VNodes - 1)
  PROVE  \E k \in 1..Len(tokens) : tokens[k].node = n /\ tokens[k].hash = Position[<<n, i>>]
<1>1. [hash |-> Position[<<n, i>>], node |-> n] \in TokensOf(S)
  BY TokenIs, Zenon
<1>2. PICK k \in 1..Len(tokens) : tokens[k] = [hash |-> Position[<<n, i>>], node |-> n]
  BY <1>1 DEF IsRing
<1> QED
  BY <1>2

LEMMA RingTokenIs ==
  ASSUME NEW S \in SUBSET ToSet(RingNodes), NEW tokens, IsRing(tokens, S),
         NEW k \in 1..Len(tokens)
  PROVE  \E i \in 0..(VNodes - 1) : tokens[k].hash = Position[<<tokens[k].node, i>>]
<1>1. tokens[k] \in TokensOf(S)
  BY RingFacts
<1>2. PICK n \in S, i \in 0..(VNodes - 1) : tokens[k] = [hash |-> Position[<<n, i>>], node |-> n]
  BY <1>1, TokenIs, Zenon
<1> QED
  BY <1>2

\* RemoveNode: a ring without the node.
LEMMA RemoveRing ==
  ASSUME NEW S \in SUBSET ToSet(RingNodes), NEW tokens, IsRing(tokens, S), NEW n
  PROVE  IsRing(RemoveNode(tokens, n), S \ {n})
<1> DEFINE T == TokensOf(S)
           U == TokensOf(S \ {n})
           P == {i \in 1..Len(tokens) : tokens[i].node # n}
           at == Rising(P)
           m == Cardinality(P)
<1>1. tokens \in Seq(T)
  BY DEF IsRing
<1>2. P \in SUBSET (1..Len(tokens))
  OBVIOUS
<1>3. RemoveNode(tokens, n) = Kept(tokens, P)
  <2>1. DOMAIN tokens = 1..Len(tokens)
    BY <1>1
  <2> QED
    BY <2>1 DEF RemoveNode
<1>4. ASSUME NEW i \in P PROVE tokens[i] \in U
  <2>1. tokens[i] \in T /\ tokens[i].node # n
    BY <1>1
  <2>2. PICK m1 \in S, j \in 0..(VNodes - 1) : tokens[i] = [hash |-> Position[<<m1, j>>], node |-> m1]
    BY <2>1, TokenIs, Zenon
  <2>3. m1 \in S \ {n}
    BY <2>1, <2>2
  <2>4. [hash |-> Position[<<m1, j>>], node |-> m1] \in TokensOf(S \ {n})
    BY <2>3, TokenIs, Zenon
  <2> QED
    BY <2>2, <2>4
<1>5. \A t \in U : t \in T /\ t.node # n
  BY DEF TokensOf
<1>6. \A t \in U : \E i \in P : tokens[i] = t
  <2>1. \A t \in T : \E i \in 1..Len(tokens) : tokens[i] = t
    BY RingFacts
  <2> QED
    BY <1>5, <2>1
<1>7. \A i, j \in P : i < j => tokens[i].hash < tokens[j].hash
  <2>1. \A i, j \in 1..Len(tokens) : i < j => tokens[i].hash < tokens[j].hash
    BY RingFacts
  <2> QED
    BY <2>1
<1>8. /\ m \in Nat /\ at \in [1..m -> P]
      /\ \A i, j \in 1..m : i < j => at[i] < at[j]
      /\ \A p \in P : \E k \in 1..m : at[k] = p
      /\ Kept(tokens, P) \in Seq(T) /\ Len(Kept(tokens, P)) = m
      /\ \A k \in 1..m : Kept(tokens, P)[k] = tokens[at[k]]
  <2> HIDE DEF P, T, U
  <2>1. IsKept(T, tokens, P)
    BY <1>1, <1>2, KeptLists, Zenon
  <2> QED
    BY <2>1, Zenon DEF IsKept, at, m
<1> HIDE DEF P, T, U, at, m
<1> DEFINE kept == Kept(tokens, P)
<1>9. kept \in Seq(U)
  <2>1. \A k \in 1..m : kept[k] \in U
    BY <1>4, <1>8
  <2>2. kept = [k \in 1..m |-> kept[k]]
    BY <1>8
  <2> HIDE DEF kept
  <2> QED
    BY <1>8, <2>1, <2>2
<1>10. \A t \in U : \E k \in 1..m : kept[k] = t
  BY <1>6, <1>8
<1>11. ASSUME NEW i \in 1..m, NEW j \in 1..m, i < j PROVE kept[i].hash < kept[j].hash
  <2>1. at[i] \in P /\ at[j] \in P /\ at[i] < at[j]
    BY <1>8, <1>11
  <2>2. tokens[at[i]].hash < tokens[at[j]].hash
    BY <1>7, <2>1
  <2> QED
    BY <1>8, <2>2
<1> QED
  BY <1>3, <1>8, <1>9, <1>10, <1>11 DEF IsRing, U

\* A set of nodes has one ring.
LEMMA OneRing ==
  ASSUME NEW S \in SUBSET ToSet(RingNodes), NEW a, IsRing(a, S), NEW b, IsRing(b, S)
  PROVE  a = b
<1> DEFINE T == TokensOf(S)
           by == [t \in T |-> t.hash]
<1>1. by \in [T -> Int] /\ \A t, u \in T : by[t] = by[u] => t = u
  BY TokenFacts
<1>2. ASSUME NEW c, IsRing(c, S) PROVE c = InOrder(T, by)
  <2>1. /\ Len(c) \in Nat /\ c \in [1..Len(c) -> T]
        /\ \A i, j \in 1..Len(c) : i < j => c[i].hash < c[j].hash
        /\ \A t \in T : \E i \in 1..Len(c) : c[i] = t
    <3>1. IsRing(c, S)
      BY <1>2
    <3> HIDE DEF T
    <3>2. Len(c) \in Nat /\ c \in [1..Len(c) -> TokensOf(S)]
      BY <3>1, RingFacts
    <3>3. \A i, j \in 1..Len(c) : i < j => c[i].hash < c[j].hash
      BY <3>1, RingFacts
    <3>4. \A t \in TokensOf(S) : \E i \in 1..Len(c) : c[i] = t
      BY <3>1, RingFacts
    <3> QED
      BY <3>2, <3>3, <3>4 DEF T
  <2>2. \A t \in T : by[t] = t.hash /\ by[t] \in Int
    BY <1>1
  <2> HIDE DEF T, by
  <2>3. \A i, j \in 1..Len(c) : i < j => by[c[i]] < by[c[j]]
    BY <2>1, <2>2
  <2>4. \A i, j \in 1..Len(c) : c[i] = c[j] => i = j
    <3> SUFFICES ASSUME NEW i \in 1..Len(c), NEW j \in 1..Len(c), c[i] = c[j] PROVE i = j
      OBVIOUS
    <3>1. by[c[i]] \in Int
      BY <2>1, <2>2
    <3>2. ~(i < j) /\ ~(j < i)
      BY <2>3, <3>1
    <3> QED
      BY <2>1, <3>2
  <2>5. c \in Bijection(1..Len(c), T)
    BY <2>1, <2>4 DEF Bijection, Injection, Surjection, IsInjective
  <2>6. IsFiniteSet(1..Len(c)) /\ Cardinality(1..Len(c)) = Len(c)
    <3>1. Len(c) \in Int /\ 1 \in Int /\ Len(c) >= 0
      BY <2>1
    <3>2. IsFiniteSet(1..Len(c)) /\ Cardinality(1..Len(c)) = IF 1 > Len(c) THEN 0 ELSE Len(c) - 1 + 1
      BY <3>1, FS_Interval
    <3> QED
      BY <3>1, <3>2
  <2>7. IsFiniteSet(T) /\ Cardinality(T) = Len(c)
    BY <2>5, <2>6, FS_Bijection DEF ExistsBijection
  <2> QED
    <3>1. c \in [1..Cardinality(T) -> T]
          /\ \A i, j \in 1..Cardinality(T) : i < j => by[c[i]] < by[c[j]]
      BY <2>1, <2>3, <2>7
    <3>2. /\ by \in [T -> Int] /\ IsFiniteSet(T)
          /\ \A t, u \in T : by[t] = by[u] => t = u
      BY <1>1, <2>7 DEF T, by
    <3> QED
      BY <3>1, <3>2, OneOrder
<1> QED
  BY <1>2
-----------------------------------------------------------------------------
\* How far clockwise from h the position x is.
Reach(x, h) == (x - h) % (Top + 1)

\* Where the k-th step of Lookup is.
At(tokens, h, k) == ((Search(tokens, h) + k - 2) % Len(tokens)) + 1

LEMMA Wrap ==
  ASSUME NEW m \in Nat \ {0}, NEW x \in Int
  PROVE  /\ x \in 0..(m - 1) => x % m = x
         /\ x \in m..(2 * m - 1) => x % m = x - m
         /\ x \in (-m)..(-1) => x % m = x + m
OBVIOUS

LEMMA ReachIs ==
  ASSUME NEW x \in 0..Top, NEW h \in 0..Top
  PROVE  /\ Reach(x, h) = IF x >= h THEN x - h ELSE x - h + Top + 1
         /\ Reach(x, h) \in 0..Top
<1>1. Top + 1 \in Nat \ {0} /\ x - h \in Int
  BY VNodesAssumption
<1>2. x >= h => x - h \in 0..((Top + 1) - 1)
  BY VNodesAssumption
<1>3. ~(x >= h) => x - h \in (-(Top + 1))..(-1)
  BY VNodesAssumption
<1>4. Reach(x, h) = IF x >= h THEN x - h ELSE x - h + (Top + 1)
  BY <1>1, <1>2, <1>3, Wrap DEF Reach
<1> QED
  BY <1>4, VNodesAssumption

\* sort.Search: the first token at or after h, or the first of all.
LEMMA SearchFinds ==
  ASSUME NEW tokens, NEW h \in Int, Len(tokens) \in Nat \ {0},
         \A i \in 1..Len(tokens) : tokens[i].hash \in Int,
         \A i, j \in 1..Len(tokens) : i < j => tokens[i].hash < tokens[j].hash
  PROVE  /\ Search(tokens, h) \in 1..Len(tokens)
         /\ \/ /\ Search(tokens, h) = 1
               /\ \A i \in 1..Len(tokens) : tokens[i].hash < h
            \/ \A i \in 1..Len(tokens) : tokens[i].hash >= h <=> i >= Search(tokens, h)
<1> DEFINE I == {i \in 1..Len(tokens) : tokens[i].hash >= h}
<1>1. Search(tokens, h) = IF I # {} THEN (IF Min(I) = 0 THEN 1 ELSE Min(I)) ELSE 1
  BY DEF Search, SelectInSeq
<1>2. CASE I = {}
  <2>1. Search(tokens, h) = 1
    BY <1>1, <1>2
  <2>2. \A i \in 1..Len(tokens) : tokens[i].hash < h
    BY <1>2
  <2> QED
    BY <2>1, <2>2
<1>3. CASE I # {}
  <2>1. PICK k \in I : \A i \in I : k <= i
    <3>1. I \in SUBSET Nat
      OBVIOUS
    <3> HIDE DEF I
    <3> QED
      BY <1>3, <3>1, Least
  <2>2. Min(I) \in I /\ \A i \in I : Min(I) <= i
    BY <2>1 DEF Min
  <2>3. Min(I) \in 1..Len(tokens) /\ Search(tokens, h) = Min(I)
    <3>1. Min(I) \in 1..Len(tokens) /\ Min(I) # 0
      BY <2>2
    <3> HIDE DEF I
    <3> QED
      BY <1>1, <1>3, <3>1
  <2>4. ASSUME NEW i \in 1..Len(tokens) PROVE tokens[i].hash >= h <=> i >= Min(I)
    <3>1. ASSUME tokens[i].hash >= h PROVE i >= Min(I)
      BY <2>2, <2>3, <3>1
    <3>2. ASSUME i >= Min(I) PROVE tokens[i].hash >= h
      <4> DEFINE m == Min(I)
      <4>1. m \in 1..Len(tokens) /\ tokens[m].hash >= h
        BY <2>2
      <4> HIDE DEF m
      <4>2. CASE i = m
        BY <4>1, <4>2
      <4>3. CASE i # m
        <5>1. m < i
          BY <3>2, <4>1, <4>3 DEF m
        <5>2. tokens[m].hash < tokens[i].hash
          BY <4>1, <5>1
        <5>3. tokens[m].hash \in Int /\ tokens[i].hash \in Int
          BY <4>1
        <5> QED
          BY <4>1, <5>2, <5>3
      <4> QED
        BY <4>2, <4>3
    <3> QED
      BY <3>1, <3>2
  <2> QED
    BY <2>3, <2>4
<1> QED
  BY <1>2, <1>3

\* Once around, every token is met, and farther and farther from h.
LEMMA Around ==
  ASSUME NEW tokens, NEW h \in 0..Top, Len(tokens) \in Nat \ {0},
         \A i \in 1..Len(tokens) : tokens[i].hash \in 0..Top,
         \A i, j \in 1..Len(tokens) : i < j => tokens[i].hash < tokens[j].hash
  PROVE  /\ \A k \in 1..Len(tokens) : At(tokens, h, k) \in 1..Len(tokens)
         /\ \A p \in 1..Len(tokens) : \E k \in 1..Len(tokens) : At(tokens, h, k) = p
         /\ \A j, k \in 1..Len(tokens) :
              j < k => Reach(tokens[At(tokens, h, j)].hash, h)
                         < Reach(tokens[At(tokens, h, k)].hash, h)
<1> DEFINE L == Len(tokens)
           s == Search(tokens, h)
<1>1. \A i \in 1..L : tokens[i].hash \in Int
  BY VNodesAssumption
<1>2. h \in Int
  BY VNodesAssumption
<1>3. /\ s \in 1..L
      /\ \/ s = 1 /\ \A i \in 1..L : tokens[i].hash < h
         \/ \A i \in 1..L : tokens[i].hash >= h <=> i >= s
  BY <1>1, <1>2, SearchFinds
<1>4. ASSUME NEW k \in 1..L
      PROVE  At(tokens, h, k) = IF s + k - 1 <= L THEN s + k - 1 ELSE s + k - 1 - L
  <2>1. L \in Nat \ {0} /\ s \in Int /\ k \in Int
    BY <1>3
  <2>2. PICK x \in Int : x = s + k - 2
    BY <2>1
  <2>3. x \in 0..(L - 1) \/ x \in L..(2 * L - 1)
    BY <1>3, <2>2
  <2>4. At(tokens, h, k) = (x % L) + 1
    BY <2>2, Zenon DEF At
  <2> HIDE DEF s, L
  <2>5. /\ x \in 0..(L - 1) => x % L = x
        /\ x \in L..(2 * L - 1) => x % L = x - L
    BY <2>1, Wrap
  <2>6. CASE x \in 0..(L - 1)
    <3>1. At(tokens, h, k) = x + 1
      BY <2>4, <2>5, <2>6
    <3> QED
      BY <2>1, <2>2, <2>6, <3>1
  <2>7. CASE x \in L..(2 * L - 1)
    <3>1. At(tokens, h, k) = x - L + 1
      BY <2>4, <2>5, <2>7
    <3> QED
      BY <2>1, <2>2, <2>7, <3>1
  <2> QED
    BY <2>3, <2>6, <2>7
<1>5. \A k \in 1..L : At(tokens, h, k) \in 1..L
  BY <1>3, <1>4
<1>6. ASSUME NEW p \in 1..L PROVE \E k \in 1..L : At(tokens, h, k) = p
  <2> DEFINE k == IF p >= s THEN p - s + 1 ELSE p - s + 1 + L
  <2>1. k \in 1..L /\ (IF s + k - 1 <= L THEN s + k - 1 ELSE s + k - 1 - L) = p
    BY <1>3
  <2> HIDE DEF k
  <2> QED
    BY <1>4, <2>1
<1>7. ASSUME NEW j \in 1..L, NEW k \in 1..L, j < k
      PROVE  Reach(tokens[At(tokens, h, j)].hash, h) < Reach(tokens[At(tokens, h, k)].hash, h)
  <2>1. PICK a \in 1..L : a = At(tokens, h, j)
    BY <1>5
  <2>2. PICK b \in 1..L : b = At(tokens, h, k)
    BY <1>5
  <2>3. \/ a < b /\ (a >= s <=> b >= s)
        \/ a >= s /\ b < s
    <3>1. /\ a = IF s + j - 1 <= L THEN s + j - 1 ELSE s + j - 1 - L
          /\ b = IF s + k - 1 <= L THEN s + k - 1 ELSE s + k - 1 - L
      BY <1>4, <2>1, <2>2
    <3>2. L \in Int /\ s \in Int /\ j \in Int /\ k \in Int /\ j >= 1 /\ k <= L /\ j <= L /\ k >= 1
      BY <1>3
    <3> HIDE DEF s, L
    <3> QED
      BY <1>7, <3>1, <3>2
  <2>4. PICK x \in 0..Top : x = tokens[a].hash
    OBVIOUS
  <2>5. PICK y \in 0..Top : y = tokens[b].hash
    OBVIOUS
  <2>6. Reach(x, h) < Reach(y, h)
    <3>1. /\ Reach(x, h) = IF x >= h THEN x - h ELSE x - h + Top + 1
          /\ Reach(y, h) = IF y >= h THEN y - h ELSE y - h + Top + 1
      BY ReachIs
    <3>2. \/ s = 1 /\ x < h /\ y < h
          \/ (x >= h <=> a >= s) /\ (y >= h <=> b >= s)
      BY <1>3, <2>4, <2>5
    <3>3. a < b => x < y
      BY <2>4, <2>5
    <3>4. Top \in Int /\ x \in Int /\ y \in Int /\ h \in Int /\ s \in Int
      BY <1>3, VNodesAssumption
    <3>5. x <= Top /\ y <= Top /\ 0 <= x /\ 0 <= y
      OBVIOUS
    <3> QED
      BY <2>3, <3>1, <3>2, <3>3, <3>4, <3>5
  <2> QED
    BY <2>1, <2>2, <2>4, <2>5, <2>6
<1> QED
  BY <1>5, <1>6, <1>7
-----------------------------------------------------------------------------
Distances(S, h) == [n \in S |-> Distance(n, h)]

\* The nodes of S, from the nearest clockwise on.
Nearest(S, h) == InOrder(S, Distances(S, h))

\* What Lookup meets: tokens of S, at growing distances, all of them.
IsWalk(S, h, met, d, L) ==
  /\ L \in Nat /\ met \in Seq(S) /\ Len(met) = L
  /\ d \in [1..L -> 0..Top]
  /\ \A j, k \in 1..L : j < k => d[j] < d[k]
  /\ \A n \in S, i \in 0..(VNodes - 1) :
       \E k \in 1..L : met[k] = n /\ d[k] = Reach(Position[<<n, i>>], h)
  /\ \A k \in 1..L :
       \E i \in 0..(VNodes - 1) : d[k] = Reach(Position[<<met[k], i>>], h)

LEMMA Meets ==
  ASSUME NEW S \in SUBSET ToSet(RingNodes), NEW tokens, IsRing(tokens, S), NEW h \in 0..Top
  PROVE  \E met, d, L : met = Clockwise(tokens, h) /\ IsWalk(S, h, met, d, L)
<1> DEFINE L == Len(tokens)
           at(k) == At(tokens, h, k)
           met == [k \in 1..L |-> tokens[at(k)].node]
           d == [k \in 1..L |-> Reach(tokens[at(k)].hash, h)]
<1>1. /\ L \in Nat
      /\ \A i \in 1..L : tokens[i].hash \in 0..Top /\ tokens[i].node \in S
  BY RingFacts
<1>2. \A i, j \in 1..L : i < j => tokens[i].hash < tokens[j].hash
  BY RingFacts
<1>3. \A n \in S, i \in 0..(VNodes - 1) :
        \E k \in 1..L : tokens[k].node = n /\ tokens[k].hash = Position[<<n, i>>]
  BY RingHasToken
<1>4. \A k \in 1..L :
        \E i \in 0..(VNodes - 1) : tokens[k].hash = Position[<<tokens[k].node, i>>]
  BY RingTokenIs
<1>5. Clockwise(tokens, h) = met
  BY DEF Clockwise, At
<1>6. /\ \A k \in 1..L : at(k) \in 1..L
      /\ \A p \in 1..L : \E k \in 1..L : at(k) = p
      /\ \A j, k \in 1..L : j < k => Reach(tokens[at(j)].hash, h) < Reach(tokens[at(k)].hash, h)
  <2>1. CASE L = 0
    <3>1. 1..L = {}
      BY <2>1
    <3> HIDE DEF L
    <3> QED
      BY <3>1
  <2>2. CASE L # 0
    <3>1. L \in Nat \ {0}
      BY <1>1, <2>2
    <3> QED
      BY <1>1, <1>2, <3>1, Around
  <2> QED
    BY <2>1, <2>2
<1> HIDE DEF at, L
<1>7. \A k \in 1..L : /\ met[k] = tokens[at(k)].node /\ met[k] \in S
                      /\ d[k] = Reach(tokens[at(k)].hash, h) /\ d[k] \in 0..Top
  BY <1>1, <1>6, ReachIs
<1>8. met \in Seq(S) /\ Len(met) = L /\ d \in [1..L -> 0..Top]
  BY <1>1, <1>7
<1> HIDE DEF met, d
<1>9. ASSUME NEW n \in S, NEW i \in 0..(VNodes - 1)
      PROVE  \E k \in 1..L : met[k] = n /\ d[k] = Reach(Position[<<n, i>>], h)
  <2>1. PICK p \in 1..L : tokens[p].node = n /\ tokens[p].hash = Position[<<n, i>>]
    BY <1>3
  <2>2. PICK k \in 1..L : at(k) = p
    BY <1>6
  <2> QED
    BY <1>7, <2>1, <2>2
<1>10. ASSUME NEW k \in 1..L
       PROVE  \E i \in 0..(VNodes - 1) : d[k] = Reach(Position[<<met[k], i>>], h)
  <2>1. PICK p \in 1..L : at(k) = p
    BY <1>6
  <2>2. PICK i \in 0..(VNodes - 1) : tokens[p].hash = Position[<<tokens[p].node, i>>]
    BY <1>4
  <2> QED
    BY <1>7, <2>1, <2>2
<1>11. \A j, k \in 1..L : j < k => d[j] < d[k]
  BY <1>6, <1>7
<1>12. IsWalk(S, h, met, d, L)
  BY <1>1, <1>8, <1>9, <1>10, <1>11 DEF IsWalk
<1> QED
  BY <1>5, <1>12

LEMMA DistinctNearest ==
  ASSUME NEW S \in SUBSET ToSet(RingNodes), NEW tokens, IsRing(tokens, S), NEW h \in 0..Top
  PROVE  /\ IsFiniteSet(S) /\ Cardinality(S) \in Nat
         /\ Distances(S, h) \in [S -> Int]
         /\ \A n, m \in S : Distances(S, h)[n] = Distances(S, h)[m] => n = m
         /\ Distinct(Clockwise(tokens, h)) \in Seq(S)
         /\ Len(Distinct(Clockwise(tokens, h))) = Cardinality(S)
         /\ Distinct(Clockwise(tokens, h)) = Nearest(S, h)
<1>0. PICK met, d, L : met = Clockwise(tokens, h) /\ IsWalk(S, h, met, d, L)
  BY Meets
<1>1. /\ L \in Nat /\ met \in Seq(S) /\ Len(met) = L
      /\ d \in [1..L -> 0..Top]
      /\ \A j, k \in 1..L : j < k => d[j] < d[k]
      /\ \A n \in S, i \in 0..(VNodes - 1) :
           \E k \in 1..L : met[k] = n /\ d[k] = Reach(Position[<<n, i>>], h)
      /\ \A k \in 1..L :
           \E i \in 0..(VNodes - 1) : d[k] = Reach(Position[<<met[k], i>>], h)
  BY <1>0 DEF IsWalk
<1>2. \A k \in 1..L : d[k] \in Int /\ met[k] \in S
  BY <1>1, VNodesAssumption
<1>3. \A j, k \in 1..L : d[j] = d[k] => j = k
  <2> SUFFICES ASSUME NEW j \in 1..L, NEW k \in 1..L, d[j] = d[k] PROVE j = k
    OBVIOUS
  <2>1. ~(j < k) /\ ~(k < j)
    BY <1>1, <1>2
  <2> QED
    BY <2>1
<1> DEFINE P == {k \in 1..L : \A j \in 1..(k - 1) : met[j] # met[k]}
           by == Distances(S, h)
<1>4. ASSUME NEW k \in P PROVE Distance(met[k], h) = d[k]
  <2> DEFINE n == met[k]
             D == {Reach(Position[<<n, i>>], h) : i \in 0..(VNodes - 1)}
  <2>1. Distance(n, h) = Min(D)
    BY DEF Distance, Reach
  <2>2. k \in 1..L /\ n \in S /\ \A j \in 1..(k - 1) : met[j] # n
    BY <1>2
  <2>3. d[k] \in D
    BY <1>1, <2>2
  <2>4. ASSUME NEW x \in D PROVE d[k] <= x
    <3>1. PICK i \in 0..(VNodes - 1) : x = Reach(Position[<<n, i>>], h)
      OBVIOUS
    <3> HIDE DEF n, D
    <3>2. PICK j \in 1..L : met[j] = n /\ d[j] = Reach(Position[<<n, i>>], h)
      BY <1>1, <2>2
    <3>3. ~(j < k)
      BY <2>2, <3>2
    <3>4. d[j] = x /\ (k < j => d[k] < d[j]) /\ d[j] \in Int /\ d[k] \in Int
      BY <1>1, <1>2, <2>2, <3>1, <3>2
    <3> QED
      BY <2>2, <3>3, <3>4
  <2>5. \A x \in D : x \in Int
    <3> SUFFICES ASSUME NEW i \in 0..(VNodes - 1) PROVE Reach(Position[<<n, i>>], h) \in Int
      OBVIOUS
    <3>1. \E j \in 1..L : d[j] = Reach(Position[<<n, i>>], h)
      BY <1>1, <2>2
    <3> QED
      BY <1>2, <3>1
  <2> HIDE DEF D
  <2>6. Min(D) \in D /\ \A x \in D : Min(D) <= x
    BY <2>3, <2>4 DEF Min
  <2>7. Min(D) = d[k]
    BY <2>3, <2>4, <2>5, <2>6
  <2> QED
    BY <2>1, <2>7
<1>5. ASSUME NEW n \in S PROVE \E k \in P : met[k] = n
  <2> DEFINE K == {k \in 1..L : met[k] = n}
  <2>1. 0 \in 0..(VNodes - 1)
    BY VNodesAssumption
  <2>2. K \in SUBSET Nat /\ K # {}
    <3>1. \E k \in 1..L : met[k] = n
      BY <1>1, <2>1
    <3> QED
      BY <3>1
  <2>3. PICK k \in K : \A j \in K : k <= j
    <3> HIDE DEF K
    <3> QED
      BY <2>2, Least
  <2>4. k \in 1..L /\ met[k] = n
    OBVIOUS
  <2>5. ASSUME NEW j \in 1..(k - 1), met[j] = n PROVE FALSE
    <3>0. L \in Int /\ k \in 1..L
      BY <1>1, <2>4
    <3> HIDE DEF K
    <3>1. j \in 1..L /\ j < k
      BY <3>0
    <3>2. j \in K
      BY <2>5, <3>1 DEF K
    <3> QED
      BY <2>3, <2>4, <3>1, <3>2
  <2> QED
    BY <2>4, <2>5
<1> DEFINE new == Kept(met, P)
           m == Cardinality(P)
           at == Rising(P)
<1>6. Distinct(Clockwise(tokens, h)) = new
  <2>1. DOMAIN met = 1..L
    BY <1>1
  <2> QED
    BY <1>0, <2>1 DEF Distinct
<1>7. \A k \in P : k \in 1..L
  OBVIOUS
<1>8. P \in SUBSET (1..Len(met)) /\ met \in Seq(S)
  BY <1>1
<1> HIDE DEF P
<1>9. /\ m \in Nat
      /\ at \in [1..m -> P]
      /\ \A i, j \in 1..m : i < j => at[i] < at[j]
      /\ \A p \in P : \E k \in 1..m : at[k] = p
      /\ Kept(met, P) \in Seq(S) /\ Len(Kept(met, P)) = m
      /\ \A k \in 1..m : Kept(met, P)[k] = met[at[k]]
  <2>1. IsKept(S, met, P)
    BY <1>8, KeptLists, Zenon
  <2> QED
    BY <2>1, Zenon DEF IsKept
<1> HIDE DEF at, m
<1>10. \A k \in 1..m : new[k] = met[at[k]] /\ at[k] \in P
  BY <1>9
<1>11. new \in Seq(S) /\ Len(new) = m
  BY <1>9
<1> HIDE DEF new
<1>12. \A k \in 1..m : /\ new[k] \in S /\ at[k] \in 1..L
                       /\ Distance(new[k], h) = d[at[k]] /\ d[at[k]] \in Int
  BY <1>2, <1>4, <1>7, <1>10
<1>13. \A n \in S : \E k \in 1..m : new[k] = n
  BY <1>5, <1>9, <1>10
<1>14. \A i, j \in 1..m : i < j => Distance(new[i], h) < Distance(new[j], h)
  BY <1>1, <1>9, <1>12
<1>15. \A i, j \in 1..m : Distance(new[i], h) = Distance(new[j], h) => i = j
  <2> SUFFICES ASSUME NEW i \in 1..m, NEW j \in 1..m,
                      Distance(new[i], h) = Distance(new[j], h)
               PROVE  i = j
    OBVIOUS
  <2>1. Distance(new[i], h) \in Int
    BY <1>12
  <2>2. ~(i < j) /\ ~(j < i)
    BY <1>14, <2>1
  <2> QED
    BY <1>9, <2>2
<1>16. by \in [S -> Int] /\ \A a, b \in S : by[a] = by[b] => a = b
  <2>1. \A n \in S : by[n] = Distance(n, h) /\ Distance(n, h) \in Int
    BY <1>12, <1>13 DEF Distances
  <2>2. \A a, b \in S : Distance(a, h) = Distance(b, h) => a = b
    BY <1>13, <1>15
  <2>3. by = [n \in S |-> by[n]]
    BY DEF Distances
  <2> HIDE DEF by
  <2> QED
    BY <2>1, <2>2, <2>3
<1>17. IsFiniteSet(S) /\ Cardinality(S) = m
  <2>1. new \in [1..m -> S]
    BY <1>11
  <2>2. new \in Bijection(1..m, S)
    BY <1>13, <1>15, <2>1 DEF Bijection, Injection, Surjection, IsInjective
  <2>3. IsFiniteSet(1..m) /\ Cardinality(1..m) = m
    <3>1. m \in Int /\ 1 \in Int /\ m >= 0
      BY <1>9
    <3>2. IsFiniteSet(1..m) /\ Cardinality(1..m) = IF 1 > m THEN 0 ELSE m - 1 + 1
      BY <3>1, FS_Interval
    <3> QED
      BY <3>1, <3>2
  <2> QED
    BY <2>2, <2>3, FS_Bijection DEF ExistsBijection
<1>18. new = InOrder(S, by)
  <2>1. new \in [1..Cardinality(S) -> S]
    BY <1>11, <1>17
  <2>2. \A i, j \in 1..Cardinality(S) : i < j => by[new[i]] < by[new[j]]
    BY <1>12, <1>14, <1>17 DEF Distances
  <2> HIDE DEF by
  <2> QED
    BY <1>16, <1>17, <2>1, <2>2, OneOrder
<1> QED
  BY <1>6, <1>9, <1>11, <1>16, <1>17, <1>18 DEF Nearest
-----------------------------------------------------------------------------
LEMMA LesserOf ==
  ASSUME NEW a \in Int, NEW b \in Int
  PROVE  Min({a, b}) = IF a <= b THEN a ELSE b
BY DEF Min

\* Lookup finds the nodes nearest clockwise, each once, on any ring, for any
\* segment and any number of replicas, as Placement says (chash/ring.go:54-76).
THEOREM LookupPlaces ==
  ASSUME NEW S \in SUBSET ToSet(RingNodes), NEW tokens, IsRing(tokens, S),
         NEW h \in 0..Top, NEW r \in Nat
  PROVE  /\ Lookup(tokens, h, r) = SubSeq(Nearest(S, h), 1, Min({r, Cardinality(S)}))
         /\ Placement(S, h, r) = SubSeq(Nearest(S, h), 1, Min({r, Cardinality(S)}))
<1>1. /\ Len(Distinct(Clockwise(tokens, h))) = Cardinality(S)
      /\ Distinct(Clockwise(tokens, h)) = Nearest(S, h)
  BY DistinctNearest
<1>2. Lookup(tokens, h, r) = SubSeq(Nearest(S, h), 1, Min({r, Cardinality(S)}))
  BY <1>1, Zenon DEF Lookup
<1>3. Placement(S, h, r) = SubSeq(Nearest(S, h), 1, Min({r, Cardinality(S)}))
  BY Zenon DEF Placement, Nearest, Distances
<1> QED
  BY <1>2, <1>3

\* The nodes of S, each once, from the nearest on.
LEMMA NearestLists ==
  ASSUME NEW S \in SUBSET ToSet(RingNodes), NEW h \in 0..Top
  PROVE  /\ IsFiniteSet(S) /\ Cardinality(S) \in Nat
         /\ Nearest(S, h) \in [1..Cardinality(S) -> S]
         /\ Nearest(S, h) \in Seq(S) /\ Len(Nearest(S, h)) = Cardinality(S)
         /\ \A n \in S : Distance(n, h) \in Int
         /\ \A n, m \in S : Distance(n, h) = Distance(m, h) => n = m
         /\ \A i, j \in 1..Cardinality(S) :
              i < j => Distance(Nearest(S, h)[i], h) < Distance(Nearest(S, h)[j], h)
         /\ \A n \in S : \E i \in 1..Cardinality(S) : Nearest(S, h)[i] = n
<1> DEFINE by == Distances(S, h)
           c == Cardinality(S)
           N == Nearest(S, h)
<1>1. IsRing(Rebuilt(S), S)
  BY RebuiltRing
<1>2. /\ IsFiniteSet(S) /\ c \in Nat
      /\ by \in [S -> Int] /\ \A n, m \in S : by[n] = by[m] => n = m
  BY <1>1, DistinctNearest
<1>3. \A n \in S : by[n] = Distance(n, h)
  BY DEF Distances
<1>4. \A n \in S : Cardinality(Before(S, by, n)) + 1 \in 1..c
  <2> HIDE DEF by
  <2> QED
    BY <1>2, BeforeSize
<1>5. /\ N \in [1..c -> S]
      /\ \A n \in S : N[Cardinality(Before(S, by, n)) + 1] = n
      /\ \A i, j \in 1..c : i < j => by[N[i]] < by[N[j]]
  <2> HIDE DEF by
  <2> QED
    BY <1>2, InOrderLists DEF Nearest, by
<1> HIDE DEF by, N, c
<1>6. \A n \in S : \E i \in 1..c : N[i] = n
  BY <1>4, <1>5
<1>7. \A i, j \in 1..c : i < j => Distance(N[i], h) < Distance(N[j], h)
  BY <1>3, <1>5
<1>8. N \in Seq(S) /\ Len(N) = c
  BY <1>2, <1>5
<1>9. /\ \A n \in S : Distance(n, h) \in Int
      /\ \A n, m \in S : Distance(n, h) = Distance(m, h) => n = m
  BY <1>2, <1>3
<1> QED
  BY <1>2, <1>5, <1>6, <1>7, <1>8, <1>9 DEF N, c

\* The ring that is rebuilt from any nodes holds them all, and Lookup finds as
\* many different ones of them as are asked for and there (chash/ring.go:65-74).
THEOREM LookupFound ==
  ASSUME NEW S \in SUBSET ToSet(RingNodes), NEW h \in 0..Top, NEW r \in Nat
  PROVE  /\ {t.node : t \in ToSet(Rebuilt(S))} = S
         /\ ToSet(Lookup(Rebuilt(S), h, r)) \subseteq S
         /\ Cardinality(ToSet(Lookup(Rebuilt(S), h, r))) = Min({r, Cardinality(S)})
<1> DEFINE tokens == Rebuilt(S)
           N == Nearest(S, h)
           c == Cardinality(S)
           q == Min({r, c})
           found == Lookup(tokens, h, r)
<1>1. IsRing(tokens, S)
  BY RebuiltRing
<1>2. {t.node : t \in ToSet(tokens)} = S
  <2> HIDE DEF tokens
  <2>1. \A i \in 1..Len(tokens) : tokens[i].node \in S
    BY <1>1, RingFacts
  <2>2. \A n \in S : \E k \in 1..Len(tokens) : tokens[k].node = n
    <3>1. 0 \in 0..(VNodes - 1)
      BY VNodesAssumption
    <3> SUFFICES ASSUME NEW n \in S PROVE \E k \in 1..Len(tokens) : tokens[k].node = n
      OBVIOUS
    <3>2. \E k \in 1..Len(tokens) : tokens[k].node = n /\ tokens[k].hash = Position[<<n, 0>>]
      BY <1>1, <3>1, RingHasToken
    <3> QED
      BY <3>2
  <2>3. ToSet(tokens) = {tokens[i] : i \in 1..Len(tokens)}
    <3>1. tokens \in Seq(TokensOf(S))
      BY <1>1 DEF IsRing
    <3>2. DOMAIN tokens = 1..Len(tokens)
      BY <3>1
    <3> QED
      BY <3>2 DEF ToSet
  <2> QED
    BY <2>1, <2>2, <2>3
<1>3. /\ c \in Nat /\ N \in [1..c -> S] /\ N \in Seq(S) /\ Len(N) = c
      /\ \A n \in S : Distance(n, h) \in Int
      /\ \A i, j \in 1..c : i < j => Distance(N[i], h) < Distance(N[j], h)
  BY NearestLists
<1>4. q \in 0..c
  BY <1>3, LesserOf
<1>5. found = SubSeq(N, 1, q)
  BY <1>1, LookupPlaces
<1> HIDE DEF N, c, q
<1>6. SubSeq(N, 1, q) = [i \in 1..q |-> N[i]]
  BY <1>3, <1>4
<1>7. ToSet(found) = {N[i] : i \in 1..q}
  <2> HIDE DEF found
  <2>1. DOMAIN found = 1..q /\ \A i \in 1..q : found[i] = N[i]
    BY <1>5, <1>6
  <2> QED
    BY <2>1 DEF ToSet
<1>8. \A i, j \in 1..q : N[i] = N[j] => i = j
  <2> SUFFICES ASSUME NEW i \in 1..q, NEW j \in 1..q, N[i] = N[j] PROVE i = j
    OBVIOUS
  <2>1. i \in 1..c /\ j \in 1..c
    BY <1>3, <1>4
  <2>2. Distance(N[i], h) \in Int
    BY <1>3, <2>1
  <2>3. ~(i < j) /\ ~(j < i)
    BY <1>3, <2>1, <2>2
  <2> QED
    BY <1>4, <2>3
<1>9. Cardinality({N[i] : i \in 1..q}) = q
  <2> DEFINE g == [i \in 1..q |-> N[i]]
             F == {N[i] : i \in 1..q}
  <2>1. g \in Bijection(1..q, F)
    <3>1. g \in [1..q -> F]
      OBVIOUS
    <3>2. \A i, j \in 1..q : g[i] = g[j] => i = j
      BY <1>8
    <3>3. \A x \in F : \E i \in 1..q : g[i] = x
      OBVIOUS
    <3> QED
      BY <3>1, <3>2, <3>3 DEF Bijection, Injection, Surjection, IsInjective
  <2>2. IsFiniteSet(1..q) /\ Cardinality(1..q) = q
    <3>1. q \in Int /\ 1 \in Int /\ q >= 0
      BY <1>3, <1>4
    <3>2. IsFiniteSet(1..q) /\ Cardinality(1..q) = IF 1 > q THEN 0 ELSE q - 1 + 1
      BY <3>1, FS_Interval
    <3> QED
      BY <3>1, <3>2
  <2> HIDE DEF g, F
  <2>3. Cardinality(F) = q
    BY <2>1, <2>2, FS_Bijection DEF ExistsBijection
  <2> QED
    BY <2>3 DEF F
<1>10. {N[i] : i \in 1..q} \subseteq S
  <2>1. \A i \in 1..q : N[i] \in S
    BY <1>3, <1>4
  <2> QED
    BY <2>1
<1> QED
  BY <1>2, <1>7, <1>9, <1>10 DEF q, c
-----------------------------------------------------------------------------
\* All positions up to q but one.
LEMMA RisingBut ==
  ASSUME NEW q \in Nat, NEW p \in Nat
  PROVE  LET P == (1..q) \ {p}
         IN  /\ Cardinality(P) = IF p \in 1..q THEN q - 1 ELSE q
             /\ \A k \in 1..Cardinality(P) :
                  Rising(P)[k] = IF p \in 1..q /\ p <= k THEN k + 1 ELSE k
<1> DEFINE P == (1..q) \ {p}
           m == IF p \in 1..q THEN q - 1 ELSE q
           by == [i \in P |-> i]
           f == [k \in 1..m |-> IF p \in 1..q /\ p <= k THEN k + 1 ELSE k]
<1>1. IsFiniteSet(1..q) /\ Cardinality(1..q) = q
  <2>1. q \in Int /\ 1 \in Int /\ q >= 0
    OBVIOUS
  <2>2. IsFiniteSet(1..q) /\ Cardinality(1..q) = IF 1 > q THEN 0 ELSE q - 1 + 1
    BY <2>1, FS_Interval
  <2> QED
    BY <2>1, <2>2
<1>2. IsFiniteSet(P) /\ Cardinality(P) = m
  <2>1. CASE p \in 1..q
    BY <1>1, <2>1, FS_RemoveElement
  <2>2. CASE p \notin 1..q
    <3>1. P = 1..q /\ m = q
      BY <2>2
    <3> HIDE DEF P, m
    <3> QED
      BY <1>1, <3>1
  <2> QED
    BY <2>1, <2>2
<1>3. by \in [P -> Int] /\ \A i, j \in P : by[i] = by[j] => i = j
  OBVIOUS
<1>4. \A k \in 1..m : f[k] \in P
  OBVIOUS
<1>5. \A i, j \in 1..m : i < j => f[i] < f[j]
  OBVIOUS
<1>6. f \in [1..m -> P]
  <2> HIDE DEF P
  <2> QED
    BY <1>4
<1>7. \A i \in P : by[i] = i
  OBVIOUS
<1> HIDE DEF P, m, f, by
<1>8. \A i, j \in 1..m : i < j => by[f[i]] < by[f[j]]
  BY <1>4, <1>5, <1>7
<1>9. f = InOrder(P, by)
  <2>1. f \in [1..Cardinality(P) -> P]
    BY <1>2, <1>6
  <2>2. \A i, j \in 1..Cardinality(P) : i < j => by[f[i]] < by[f[j]]
    BY <1>2, <1>8
  <2> QED
    BY <1>2, <1>3, <2>1, <2>2, OneOrder
<1>10. Rising(P) = f
  BY <1>9 DEF Rising, by
<1> QED
  BY <1>2, <1>10 DEF P, m, f

\* Without one node the others keep their order.
LEMMA NearestWithout ==
  ASSUME NEW S \in SUBSET ToSet(RingNodes), NEW h \in 0..Top, NEW n \in S
  PROVE  /\ Cardinality(S \ {n}) = Cardinality(S) - 1
         /\ \E p \in 1..Cardinality(S) :
              /\ \A i \in 1..Cardinality(S) : Nearest(S, h)[i] = n <=> i = p
              /\ \A k \in 1..(Cardinality(S) - 1) :
                   Nearest(S \ {n}, h)[k] = Nearest(S, h)[IF p <= k THEN k + 1 ELSE k]
<1> DEFINE R == S \ {n}
           c == Cardinality(S)
           N == Nearest(S, h)
           by == Distances(R, h)
<1>1. /\ IsFiniteSet(S) /\ c \in Nat /\ N \in [1..c -> S]
      /\ \A m \in S : Distance(m, h) \in Int
      /\ \A m, o \in S : Distance(m, h) = Distance(o, h) => m = o
      /\ \A i, j \in 1..c : i < j => Distance(N[i], h) < Distance(N[j], h)
      /\ \A m \in S : \E i \in 1..c : N[i] = m
  BY NearestLists
<1>2. IsFiniteSet(R) /\ Cardinality(R) = c - 1
  BY <1>1, FS_RemoveElement
<1>3. PICK p \in 1..c : N[p] = n
  BY <1>1
<1>4. \A i, j \in 1..c : N[i] = N[j] => i = j
  <2> SUFFICES ASSUME NEW i \in 1..c, NEW j \in 1..c, N[i] = N[j] PROVE i = j
    OBVIOUS
  <2>1. Distance(N[i], h) \in Int
    BY <1>1
  <2>2. ~(i < j) /\ ~(j < i)
    BY <1>1, <2>1
  <2> QED
    BY <1>1, <2>2
<1> DEFINE f == [k \in 1..(c - 1) |-> N[IF p <= k THEN k + 1 ELSE k]]
           at(k) == IF p <= k THEN k + 1 ELSE k
<1>5. ASSUME NEW k \in 1..(c - 1) PROVE at(k) \in 1..c /\ at(k) # p
  BY <1>1
<1>6. \A i, j \in 1..(c - 1) : i < j => at(i) < at(j)
  BY <1>1
<1>7. \A k \in 1..(c - 1) : f[k] = N[at(k)]
  OBVIOUS
<1>8. f = [k \in 1..(c - 1) |-> f[k]]
  OBVIOUS
<1> HIDE DEF f, at, N, c
<1>9. f \in [1..(c - 1) -> R]
  <2>1. \A k \in 1..(c - 1) : f[k] \in R
    BY <1>1, <1>3, <1>4, <1>5, <1>7
  <2> QED
    BY <1>8, <2>1
<1>10. \A m \in R : by[m] = Distance(m, h)
  BY DEF Distances
<1>11. by \in [R -> Int] /\ \A m, o \in R : by[m] = by[o] => m = o
  <2>1. by = [m \in R |-> by[m]]
    BY DEF Distances
  <2>0. \A m \in R : m \in S
    OBVIOUS
  <2> HIDE DEF by, R
  <2>2. \A m \in R : by[m] \in Int
    BY <1>1, <1>10, <2>0
  <2>3. \A m, o \in R : by[m] = by[o] => m = o
    BY <1>1, <1>10, <2>0
  <2> QED
    BY <2>1, <2>2, <2>3
<1>12. ASSUME NEW i \in 1..(c - 1), NEW j \in 1..(c - 1), i < j PROVE by[f[i]] < by[f[j]]
  <2>1. f[i] \in R /\ f[j] \in R
    BY <1>9
  <2>2. Distance(N[at(i)], h) < Distance(N[at(j)], h)
    BY <1>1, <1>5, <1>6, <1>12
  <2>3. f[i] = N[at(i)] /\ f[j] = N[at(j)]
    BY <1>7
  <2> HIDE DEF by, R
  <2> QED
    BY <1>10, <2>1, <2>2, <2>3
<1>13. f = Nearest(R, h)
  <2> HIDE DEF by, R
  <2>1. f \in [1..Cardinality(R) -> R]
    BY <1>2, <1>9
  <2>2. \A i, j \in 1..Cardinality(R) : i < j => by[f[i]] < by[f[j]]
    BY <1>2, <1>12
  <2>3. f = InOrder(R, by)
    BY <1>2, <1>11, <2>1, <2>2, OneOrder
  <2> QED
    BY <2>3 DEF Nearest, by
<1>14. \A i \in 1..c : N[i] = n <=> i = p
  BY <1>3, <1>4
<1>15. \A k \in 1..(c - 1) : Nearest(R, h)[k] = N[IF p <= k THEN k + 1 ELSE k]
  BY <1>7, <1>13 DEF at
<1> QED
  BY <1>2, <1>14, <1>15 DEF N, c, R

\* A lookup without one of the nodes finds the others that were found first.
LEMMA LookupKeeps ==
  ASSUME NEW S \in SUBSET ToSet(RingNodes), NEW h \in 0..Top, NEW r \in Nat \ {0}, NEW n \in S
  PROVE  LET found == Lookup(Rebuilt(S), h, r)
         IN  IsPrefix(Kept(found, {i \in DOMAIN found : found[i] # n}),
                      Lookup(Rebuilt(S \ {n}), h, r))
<1> DEFINE R == S \ {n}
           c == Cardinality(S)
           N == Nearest(S, h)
           M == Nearest(R, h)
           found == Lookup(Rebuilt(S), h, r)
           rest == Lookup(Rebuilt(R), h, r)
           q == Min({r, c})
           m == Min({r, c - 1})
           P == {i \in DOMAIN found : found[i] # n}
           kept == Kept(found, P)
<1>1. c \in Nat /\ N \in [1..c -> S] /\ N \in Seq(S) /\ Len(N) = c
  BY NearestLists
<1>2. Cardinality(R) = c - 1
  BY NearestWithout
<1>3. PICK p \in 1..c :
        /\ \A i \in 1..c : N[i] = n <=> i = p
        /\ \A k \in 1..(c - 1) : M[k] = N[IF p <= k THEN k + 1 ELSE k]
  BY NearestWithout
<1>4. M \in Seq(R) /\ Len(M) = c - 1
  BY <1>2, NearestLists
<1>5. /\ q = IF r <= c THEN r ELSE c
      /\ m = IF r <= c - 1 THEN r ELSE c - 1
  BY <1>1, LesserOf
<1>6. IsRing(Rebuilt(S), S) /\ IsRing(Rebuilt(R), R)
  BY RebuiltRing
<1>7. found = SubSeq(N, 1, q)
  BY <1>6, LookupPlaces
<1>8. rest = SubSeq(M, 1, m)
  <2>1. rest = SubSeq(Nearest(R, h), 1, Min({r, Cardinality(R)}))
    BY <1>6, LookupPlaces
  <2> QED
    BY <1>2, <2>1
<1>9. q \in 0..c /\ m \in 0..(c - 1) /\ c >= 1
  BY <1>1, <1>3, <1>5
<1> HIDE DEF N, M, q, m, c
<1>10. /\ found = [i \in 1..q |-> N[i]]
       /\ found \in Seq(S) /\ Len(found) = q
  <2>1. SubSeq(N, 1, q) = [i \in 1..q |-> N[i]]
    BY <1>1, <1>9
  <2>2. \A i \in 1..q : N[i] \in S
    BY <1>1, <1>9
  <2> HIDE DEF found
  <2> QED
    BY <1>1, <1>7, <1>9, <2>1, <2>2
<1>11. /\ rest = [i \in 1..m |-> M[i]]
       /\ rest \in Seq(R) /\ Len(rest) = m
  <2>1. SubSeq(M, 1, m) = [i \in 1..m |-> M[i]]
    BY <1>1, <1>4, <1>9
  <2>2. \A i \in 1..m : M[i] \in R
    BY <1>1, <1>4, <1>9
  <2> HIDE DEF rest, R
  <2> QED
    BY <1>1, <1>8, <1>9, <2>1, <2>2
<1> HIDE DEF found, rest, R
<1>12. P = (1..q) \ {p}
  BY <1>1, <1>3, <1>9, <1>10
<1>13. q \in Nat /\ p \in Nat
  BY <1>1, <1>9
<1>14. /\ Cardinality(P) = IF p \in 1..q THEN q - 1 ELSE q
       /\ \A k \in 1..Cardinality(P) :
            Rising(P)[k] = IF p \in 1..q /\ p <= k THEN k + 1 ELSE k
  BY <1>12, <1>13, RisingBut
<1>15. P \in SUBSET (1..Len(found))
  BY <1>10, <1>12
<1> HIDE DEF P
<1>16. /\ kept \in Seq(S) /\ Len(kept) = Cardinality(P)
       /\ \A k \in 1..Cardinality(P) : kept[k] = found[Rising(P)[k]] /\ Rising(P)[k] \in P
  <2>1. found \in Seq(S) /\ P \in SUBSET (1..Len(found))
    BY <1>10, <1>15
  <2>2. /\ Rising(P) \in [1..Cardinality(P) -> P]
        /\ Kept(found, P) \in Seq(S) /\ Len(Kept(found, P)) = Cardinality(P)
        /\ \A k \in 1..Cardinality(P) : Kept(found, P)[k] = found[Rising(P)[k]]
    <3>1. IsKept(S, found, P)
      BY <2>1, KeptLists, Zenon
    <3> QED
      BY <3>1, Zenon DEF IsKept
  <2>3. \A k \in 1..Cardinality(P) : Rising(P)[k] \in P
    BY <2>2
  <2> QED
    BY <2>2, <2>3
<1>17. Cardinality(P) \in 0..m
  BY <1>1, <1>5, <1>9, <1>13, <1>14
<1> HIDE DEF kept
<1>18. ASSUME NEW k \in 1..Cardinality(P) PROVE kept[k] = rest[k]
  <2>1. PICK a : a = Rising(P)[k] /\ a = IF p <= k THEN k + 1 ELSE k
    BY <1>9, <1>13, <1>14, <1>17
  <2>2. a \in 1..q /\ kept[k] = found[a]
    BY <1>12, <1>16, <2>1
  <2>3. k \in 1..m /\ k \in 1..(c - 1)
    BY <1>1, <1>9, <1>17
  <2>4. found[a] = N[a] /\ rest[k] = M[k]
    BY <1>10, <1>11, <2>2, <2>3
  <2>5. M[k] = N[a]
    BY <1>3, <2>1, <2>3
  <2> QED
    BY <2>2, <2>4, <2>5
<1>19. /\ Len(kept) \in Nat /\ Len(kept) <= Len(rest)
       /\ SubSeq(kept, 1, Len(kept)) = [k \in 1..Len(kept) |-> kept[k]]
       /\ SubSeq(rest, 1, Len(kept)) = [k \in 1..Len(kept) |-> rest[k]]
  BY <1>1, <1>9, <1>11, <1>16, <1>17
<1>20. SubSeq(kept, 1, Len(kept)) = SubSeq(rest, 1, Len(kept))
  BY <1>16, <1>18, <1>19
<1>21. IsPrefix(kept, rest)
  BY <1>19, <1>20 DEF IsPrefix
<1> QED
  BY <1>21 DEF kept, P, rest, R, found
=============================================================================
