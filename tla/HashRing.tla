------------------------------ MODULE HashRing ------------------------------
(***************************************************************************)
(* The consistent hash ring (internal/chash/ring.go) as operators on a     *)
(* sequence of tokens in the order of their hashes, and the ring that a    *)
(* manager rebuilds from its node set (internal/storage/manager.go).       *)
(*                                                                         *)
(* SHA-1 is a table: where each virtual node of each node, and each        *)
(* segment, falls on the circle 0..Top.                                    *)
(***************************************************************************)
EXTENDS Integers, Sequences, FiniteSets, SequencesExt

CONSTANTS RingNodes,   \* node ids, in the order of sort.Strings
          VNodes,      \* virtual nodes of each node
          Top,         \* the greatest hash, 2^64 - 1 in the code
          Position     \* hash of "node#i"

ASSUME VNodesAssumption == VNodes \in Nat \ {0} /\ Top \in Nat

ASSUME RingNodesAssumption ==
  RingNodes \in Seq(ToSet(RingNodes)) /\ IsInjective(RingNodes)

\* No two tokens collide: sort.Slice leaves their order open.
ASSUME PositionAssumption ==
  /\ Position \in [ToSet(RingNodes) \X (0..(VNodes - 1)) -> 0..Top]
  /\ \A x, y \in DOMAIN Position : Position[x] = Position[y] => x = y

\* The k-th of a set by the values of a function is the one with k - 1 before
\* it.  (SortSeq and SelectSeq have no definition that a proof could use.)
Nth(S, by, k) == CHOOSE x \in S : Cardinality({y \in S : by[y] < by[x]}) = k - 1

InOrder(S, by) == [k \in 1..Cardinality(S) |-> Nth(S, by, k)]

\* The items of s at the positions P, in the order of s.
Kept(s, P) == LET at == InOrder(P, [i \in P |-> i]) IN [k \in DOMAIN at |-> s[at[k]]]

SortedByHash(tokens) ==
  LET at == InOrder(DOMAIN tokens, [i \in DOMAIN tokens |-> tokens[i].hash])
  IN  [k \in DOMAIN at |-> tokens[at[k]]]

NodeTokens(n) == [i \in 1..VNodes |-> [hash |-> Position[<<n, i - 1>>], node |-> n]]

\* Mutant: the tokens are appended and not sorted in.
AddNodeUnsorted(tokens, n) == tokens \o NodeTokens(n)

\* Append, then sort.
AddNode(tokens, n) == SortedByHash(tokens \o NodeTokens(n))

RemoveNode(tokens, n) == Kept(tokens, {i \in DOMAIN tokens : tokens[i].node # n})

\* Mutant: the token after the last one is not wrapped around.
SearchClamped(tokens, h) ==
  LET i == SelectInSeq(tokens, LAMBDA t : t.hash >= h)
  IN  IF i = 0 THEN Len(tokens) ELSE i

\* sort.Search for the first token at or after h; past the last one, the first.
Search(tokens, h) ==
  LET i == SelectInSeq(tokens, LAMBDA t : t.hash >= h)
  IN  IF i = 0 THEN 1 ELSE i

\* The nodes of the tokens clockwise from h, once around.
Clockwise(tokens, h) ==
  LET i == Search(tokens, h)
  IN  [k \in 1..Len(tokens) |-> tokens[((i + k - 2) % Len(tokens)) + 1].node]

\* Mutant: a node counts once for each of its tokens.
LookupRepeats(tokens, h, replicas) ==
  SubSeq(Clockwise(tokens, h), 1, Min({replicas, Len(tokens)}))

\* The nodes met, each at the first time only.
Distinct(met) == Kept(met, {k \in DOMAIN met : \A j \in 1..(k - 1) : met[j] # met[k]})

\* The first of them, until there are enough.
Lookup(tokens, h, replicas) ==
  LET new == Distinct(Clockwise(tokens, h))
  IN  SubSeq(new, 1, Min({replicas, Len(new)}))

\* rebuildLocked: an empty ring, and the nodes added in the order of their ids.
Rebuilt(S) ==
  LET grown[i \in 0..Len(RingNodes)] ==
        IF i = 0 THEN <<>>
        ELSE IF RingNodes[i] \in S THEN AddNode(grown[i - 1], RingNodes[i]) ELSE grown[i - 1]
  IN  grown[Len(RingNodes)]
-----------------------------------------------------------------------------
\* What the ring promises: the nodes in the order of the clockwise distance
\* from h to their nearest token.
Distance(n, h) == Min({(Position[<<n, i>>] - h) % (Top + 1) : i \in 0..(VNodes - 1)})

Placement(S, h, replicas) ==
  SubSeq(InOrder(S, [n \in S |-> Distance(n, h)]), 1, Min({replicas, Cardinality(S)}))
=============================================================================
