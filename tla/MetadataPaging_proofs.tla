----------------------- MODULE MetadataPaging_proofs ------------------------
(***************************************************************************)
(* Theorems about listings of finitely many keys, for any limits and any   *)
(* number of writes between the pages.                                     *)
(***************************************************************************)
EXTENDS MetadataPaging, FiniteSetTheorems, TLAPS

SubsetsOf(S, F) == F \subseteq SUBSET S /\ F # {}

HasMinimal(F) == \E A \in F : \A B \in F : B \subseteq A => B = A

\* A family of subsets of a finite set has a member that is minimal for inclusion.
LEMMA MinimalSet ==
  ASSUME NEW S, IsFiniteSet(S), NEW F, SubsetsOf(S, F)
  PROVE  HasMinimal(F)
<1>1. F \subseteq FiniteSubsetsOf(S)
  BY FS_Subset DEF FiniteSubsetsOf, SubsetsOf
<1>2. IsWellFoundedOn(StrictSubsetOrdering(S), FiniteSubsetsOf(S))
  BY FS_StrictSubsetOrderingWellFounded
<1>3. \E A \in F : \A B \in F : <<B, A>> \notin StrictSubsetOrdering(S)
  BY <1>1, <1>2, WFMin DEF SubsetsOf
<1> QED
  BY <1>3 DEF StrictSubsetOrdering, SubsetsOf, HasMinimal

LEMMA GreatestKey ==
  ASSUME NEW S \in SUBSET Nat, IsFiniteSet(S), S # {}
  PROVE  Max(S) \in S /\ \A k \in S : k <= Max(S)
<1> DEFINE F == {A \in SUBSET S : A # {} /\ ~ \E m \in A : \A k \in A : k <= m}
<1>1. F = {}
  <2> SUFFICES ASSUME F # {} PROVE FALSE
    OBVIOUS
  <2>1. PICK A \in F : \A B \in F : B \subseteq A => B = A
    <3>1. SubsetsOf(S, F)
      BY DEF SubsetsOf
    <3> HIDE DEF F
    <3>2. HasMinimal(F)
      BY <3>1, MinimalSet
    <3> QED
      BY <3>2 DEF HasMinimal
  <2>2. PICK x \in A : TRUE
    BY <2>1
  <2>3. A \ {x} \notin F
    BY <2>1, <2>2
  <2>4. A \ {x} = {} \/ \E m \in A \ {x} : \A k \in A \ {x} : k <= m
    BY <2>3
  <2>5. \E m \in A : \A k \in A : k <= m
    <3>1. CASE A \ {x} = {}
      BY <2>2, <3>1
    <3>2. ASSUME NEW m \in A \ {x}, \A k \in A \ {x} : k <= m
          PROVE  \E l \in A : \A k \in A : k <= l
      <4>1. CASE x <= m
        BY <3>2, <4>1
      <4>2. CASE ~(x <= m)
        BY <2>2, <3>2, <4>2
      <4> QED
        BY <4>1, <4>2
    <3> QED
      BY <2>4, <3>1, <3>2
  <2> QED
    BY <2>5
<1>2. \E m \in S : \A k \in S : k <= m
  BY <1>1
<1>3. \E m \in S : \A k \in S : m >= k
  BY <1>2
<1> QED
  BY <1>3 DEF Max

LEMMA LeastKey ==
  ASSUME NEW S \in SUBSET Nat, IsFiniteSet(S), S # {}
  PROVE  \E m \in S : \A k \in S : m <= k
<1> DEFINE F == {A \in SUBSET S : A # {} /\ ~ \E m \in A : \A k \in A : m <= k}
<1>1. F = {}
  <2> SUFFICES ASSUME F # {} PROVE FALSE
    OBVIOUS
  <2>1. PICK A \in F : \A B \in F : B \subseteq A => B = A
    <3>1. SubsetsOf(S, F)
      BY DEF SubsetsOf
    <3> HIDE DEF F
    <3>2. HasMinimal(F)
      BY <3>1, MinimalSet
    <3> QED
      BY <3>2 DEF HasMinimal
  <2>2. PICK x \in A : TRUE
    BY <2>1
  <2>3. A \ {x} \notin F
    BY <2>1, <2>2
  <2>4. A \ {x} = {} \/ \E m \in A \ {x} : \A k \in A \ {x} : m <= k
    BY <2>3
  <2>5. \E m \in A : \A k \in A : m <= k
    <3>1. CASE A \ {x} = {}
      BY <2>2, <3>1
    <3>2. ASSUME NEW m \in A \ {x}, \A k \in A \ {x} : m <= k
          PROVE  \E l \in A : \A k \in A : l <= k
      <4>1. CASE m <= x
        BY <3>2, <4>1
      <4>2. CASE ~(m <= x)
        BY <2>2, <3>2, <4>2
      <4> QED
        BY <4>1, <4>2
    <3> QED
      BY <2>4, <3>1, <3>2
  <2> QED
    BY <2>5
<1> QED
  BY <1>1

\* tx.List with a limit leaves nothing out unless the limit is reached.
LEMMA LowestIsAll ==
  ASSUME NEW S \in SUBSET Nat, IsFiniteSet(S), NEW n \in Nat,
         Cardinality(Lowest(S, n + 1)) <= n
  PROVE  Lowest(S, n + 1) = S
<1> SUFFICES ASSUME S \ Lowest(S, n + 1) # {} PROVE FALSE
  BY DEF Lowest
<1>1. IsFiniteSet(S \ Lowest(S, n + 1))
  BY FS_Subset
<1>2. PICK k \in S \ Lowest(S, n + 1) : \A l \in S \ Lowest(S, n + 1) : k <= l
  BY <1>1, LeastKey
<1>3. {j \in S : j < k} \subseteq Lowest(S, n + 1) /\ Lowest(S, n + 1) \in SUBSET S
  <2>1. ASSUME NEW j \in S, j < k, j \notin Lowest(S, n + 1)
        PROVE  FALSE
    BY <1>2, <2>1
  <2>2. Lowest(S, n + 1) \subseteq S
    BY Zenon DEF Lowest
  <2> QED
    BY <2>1, <2>2
<1>4. IsFiniteSet(Lowest(S, n + 1)) /\ Cardinality(Lowest(S, n + 1)) \in Nat
  BY <1>3, FS_Subset, FS_CardinalityType
<1>5. /\ Cardinality({j \in S : j < k}) \in Nat
      /\ Cardinality({j \in S : j < k}) <= Cardinality(Lowest(S, n + 1))
  BY <1>3, <1>4, FS_Subset, FS_CardinalityType
<1>6. ~(Cardinality({j \in S : j < k}) < n + 1)
  <2>1. k \in S /\ k \notin Lowest(S, n + 1)
    BY <1>2
  <2> QED
    BY <2>1, Zenon DEF Lowest
<1> QED
  BY <1>4, <1>5, <1>6
-----------------------------------------------------------------------------
WalkTypes ==
  /\ present \subseteq Keys /\ stayed \subseteq present
  /\ token \in Nat /\ walking \in BOOLEAN
  /\ pages \in Seq(SUBSET Keys)

\* What a response promises about a request with this token.
PageAfter(items, next) ==
  /\ items \subseteq present
  /\ \A k \in items : token < k
  /\ \/ next = NoToken /\ (token = NoToken => items = present)
     \/ next \in Keys /\ items # {} /\ token < next /\ \A k \in items : k < next

LEMMA ResponseFacts ==
  ASSUME IsFiniteSet(Keys), WalkTypes, NEW limit \in Limits
  PROVE  PageAfter(ListMetadata(limit).items, ListMetadata(limit).nextPageToken)
<1> DEFINE n == EffectiveLimit(limit)
           items == Filtered(Fetched(n))
           next == IF Cardinality(items) > n THEN Max(items) ELSE NoToken
<1>1. n \in Nat \ {0}
  BY LimitsAssumption DEF EffectiveLimit
<1>2. present \in SUBSET Nat /\ IsFiniteSet(present) /\ \A k \in present : k > 0
  <2>1. present \in SUBSET Keys
    BY DEF WalkTypes
  <2>2. IsFiniteSet(present)
    BY <2>1, FS_Subset
  <2> QED
    BY <2>1, <2>2, KeysAssumption
<1>3. Fetched(n) \subseteq present
  BY Zenon DEF Fetched, Lowest
<1>4. items \subseteq present /\ \A k \in items : token < k
  BY <1>2, <1>3 DEF Filtered, NoToken, WalkTypes
<1>5. ListMetadata(limit).items = items \ {next} /\ ListMetadata(limit).nextPageToken = next
  BY DEF ListMetadata
<1> HIDE DEF n, items
<1>6. IsFiniteSet(items) /\ Cardinality(items) \in Nat
  BY <1>2, <1>4, FS_Subset, FS_CardinalityType
<1>7. CASE Cardinality(items) > n
  <2>1. items \in SUBSET Nat /\ items # {}
    <3>1. Cardinality({}) = 0
      BY FS_EmptySet
    <3> QED
      BY <1>1, <1>2, <1>4, <1>7, <3>1
  <2>2. next \in items /\ \A k \in items : k <= next
    BY <1>6, <1>7, <2>1, GreatestKey
  <2> HIDE DEF next
  <2>3. items \ {next} # {}
    <3>1. Cardinality({next}) = 1
      BY FS_Singleton
    <3> QED
      BY <1>1, <1>7, <2>2, <3>1
  <2>4. \A k \in items \ {next} : k < next
    BY <1>2, <1>4, <2>2
  <2>5. next \in Keys /\ token < next /\ items \ {next} \subseteq present
    BY <1>4, <2>2 DEF WalkTypes
  <2> QED
    BY <1>4, <1>5, <2>3, <2>4, <2>5 DEF PageAfter
<1>8. CASE ~(Cardinality(items) > n)
  <2>1. next = NoToken /\ items \ {next} = items
    BY <1>2, <1>4, <1>8 DEF NoToken
  <2>2. ASSUME token = NoToken PROVE items = present
    <3>1. items = Lowest(present, n + 1)
      BY <2>2 DEF items, Filtered, Fetched
    <3>2. Cardinality(Lowest(present, n + 1)) <= n
      BY <1>1, <1>6, <1>8, <3>1
    <3> QED
      BY <1>1, <1>2, <3>1, <3>2, LowestIsAll
  <2> HIDE DEF next
  <2> QED
    BY <1>4, <1>5, <2>1, <2>2 DEF PageAfter
<1> QED
  BY <1>7, <1>8

\* The keys a walk that goes on has behind it.
Behind == {k \in Keys : k <= token}

\* Every page but the last takes two keys or more: its own, and the one its
\* token names.
WalkInv ==
  /\ WalkTypes
  /\ PagesAscending
  /\ walking => /\ \A i \in DOMAIN pages : \A k \in pages[i] : k <= token
                /\ 2 * Len(pages) <= Cardinality(Behind)
  /\ pages = <<>> => token = NoToken
  /\ UncutListingComplete
  /\ ~walking => Len(pages) > 0
  /\ Keys # {} => WalkEnds

LEMMA StartsEmpty == ASSUME IsFiniteSet(Keys), Init PROVE WalkInv
<1>1. /\ present \subseteq Keys /\ stayed = present /\ token = 0 /\ walking = TRUE
      /\ pages = <<>>
  BY DEF Init, NoToken
<1>2. Behind \in SUBSET Keys
  BY DEF Behind
<1>3. Cardinality(Behind) \in Nat /\ Cardinality(Keys) \in Nat
  BY <1>2, FS_Subset, FS_CardinalityType
<1>4. WalkTypes /\ PagesAscending /\ UncutListingComplete
  BY <1>1 DEF WalkTypes, PagesAscending, UncutListingComplete
<1>5. WalkEnds /\ 2 * Len(pages) <= Cardinality(Behind)
  BY <1>1, <1>3 DEF WalkEnds
<1> QED
  BY <1>1, <1>4, <1>5 DEF WalkInv, NoToken

LEMMA Appended ==
  ASSUME NEW S, NEW s \in Seq(S), NEW e \in S
  PROVE  /\ Append(s, e) \in Seq(S) /\ Len(s) \in Nat
         /\ Len(Append(s, e)) = Len(s) + 1
         /\ DOMAIN Append(s, e) = 1..(Len(s) + 1) /\ DOMAIN s = 1..Len(s)
         /\ \A i \in 1..Len(s) : Append(s, e)[i] = s[i] /\ s[i] \in S
         /\ Append(s, e)[Len(s) + 1] = e
OBVIOUS

LEMMA PageStep ==
  ASSUME IsFiniteSet(Keys), WalkInv, walking = TRUE, NEW items, NEW next, PageAfter(items, next),
         pages' = Append(pages, items), token' = next, walking' = (next # NoToken),
         UNCHANGED <<present, stayed>>
  PROVE  WalkInv'
<1>1. /\ present \subseteq Keys /\ stayed \subseteq present /\ token \in Nat
      /\ pages \in Seq(SUBSET Keys) /\ \A k \in Keys : k \in Nat /\ k > 0
      /\ \A i \in DOMAIN pages : \A k \in pages[i] : k <= token
      /\ 2 * Len(pages) <= Cardinality(Behind)
  BY KeysAssumption DEF WalkInv, WalkTypes
<1>2. items \in SUBSET Keys /\ (next \in Keys \/ next = 0) /\ next \in Nat
  BY <1>1 DEF PageAfter, NoToken
<1>3. /\ pages' \in Seq(SUBSET Keys) /\ Len(pages) \in Nat
      /\ Len(pages') = Len(pages) + 1 /\ DOMAIN pages' = 1..(Len(pages) + 1)
      /\ DOMAIN pages = 1..Len(pages)
      /\ \A i \in 1..Len(pages) : pages'[i] = pages[i] /\ \A k \in pages[i] : k \in Nat
      /\ pages'[Len(pages) + 1] = items
  <2>1. \A i \in 1..Len(pages) : pages[i] \in SUBSET Keys
    BY <1>1, <1>2, Appended
  <2>2. /\ pages' \in Seq(SUBSET Keys) /\ Len(pages) \in Nat
        /\ Len(pages') = Len(pages) + 1 /\ DOMAIN pages' = 1..(Len(pages) + 1)
        /\ DOMAIN pages = 1..Len(pages)
        /\ \A i \in 1..Len(pages) : pages'[i] = pages[i]
        /\ pages'[Len(pages) + 1] = items
    BY <1>1, <1>2, Appended
  <2> QED
    BY <1>1, <2>1, <2>2
<1>4. WalkTypes'
  BY <1>1, <1>2, <1>3 DEF WalkTypes
<1>5. \A k \in items : k \in Nat /\ token < k
  BY <1>1, <1>2 DEF PageAfter
<1>6. PagesAscending'
  <2> SUFFICES ASSUME NEW i \in 1..(Len(pages) + 1), NEW j \in 1..(Len(pages) + 1), i < j,
                      NEW k \in pages'[i], NEW l \in pages'[j]
               PROVE  k < l
    BY <1>3 DEF PagesAscending
  <2>1. i \in 1..Len(pages) /\ k \in pages[i] /\ k \in Nat
    <3>1. i \in 1..Len(pages)
      BY <1>3
    <3> QED
      BY <1>3, <3>1
  <2>2. CASE j \in 1..Len(pages)
    BY <1>3, <2>1, <2>2 DEF WalkInv, PagesAscending
  <2>3. CASE j = Len(pages) + 1
    BY <1>1, <1>3, <1>5, <2>1, <2>3
  <2> QED
    BY <1>3, <2>2, <2>3
<1>7. /\ Cardinality(Behind) \in Nat /\ IsFiniteSet(Behind) /\ Cardinality(Keys) \in Nat
      /\ Cardinality(Behind) <= Cardinality(Keys)
  <2>1. Behind \in SUBSET Keys
    BY DEF Behind
  <2> QED
    BY <2>1, FS_Subset, FS_CardinalityType
<1>8. ASSUME walking'
      PROVE  /\ \A i \in DOMAIN pages' : \A k \in pages'[i] : k <= token'
             /\ 2 * Len(pages') <= Cardinality(Behind')
  <2>1. next \in Keys /\ items # {} /\ token < next /\ \A k \in items : k < next
    BY <1>8 DEF PageAfter
  <2>2. \A i \in DOMAIN pages' : \A k \in pages'[i] : k <= token'
    <3> SUFFICES ASSUME NEW i \in 1..(Len(pages) + 1), NEW k \in pages'[i] PROVE k <= next
      BY <1>3
    <3>1. CASE i \in 1..Len(pages)
      BY <1>1, <1>2, <1>3, <2>1, <3>1
    <3>2. CASE i = Len(pages) + 1
      <4>1. k \in items
        BY <1>3, <3>2, Zenon
      <4>2. k \in Nat /\ k < next
        BY <1>5, <2>1, <4>1
      <4> QED
        BY <1>2, <4>2
    <3> QED
      BY <1>3, <3>1, <3>2
  <2>3. PICK p \in items : TRUE
    BY <2>1
  <2>4. p \in Keys /\ token < p /\ p < next /\ p \in Nat
    BY <1>2, <1>5, <2>1, <2>3
  <2>5. (Behind \cup {p}) \cup {next} \subseteq Behind'
    <3> SUFFICES ASSUME NEW k \in (Behind \cup {p}) \cup {next} PROVE k \in Keys /\ k <= next
      BY DEF Behind
    <3> QED
      BY <1>1, <1>2, <2>1, <2>4 DEF Behind
  <2>6. p \notin Behind /\ next \notin Behind \cup {p}
    BY <1>1, <1>2, <2>1, <2>4 DEF Behind
  <2>7. IsFiniteSet(Behind')
    <3>1. Behind' \in SUBSET Keys
      BY DEF Behind
    <3> QED
      BY <3>1, FS_Subset
  <2>8. /\ IsFiniteSet(Behind \cup {p})
        /\ Cardinality(Behind \cup {p}) = Cardinality(Behind) + 1
    BY <1>7, <2>6, FS_AddElement
  <2>9. Cardinality((Behind \cup {p}) \cup {next}) = Cardinality(Behind) + 2
    <3>1. Cardinality((Behind \cup {p}) \cup {next}) = Cardinality(Behind \cup {p}) + 1
      BY <2>6, <2>8, FS_AddElement
    <3> QED
      BY <1>7, <2>8, <3>1
  <2>10. Cardinality((Behind \cup {p}) \cup {next}) <= Cardinality(Behind')
    BY <2>5, <2>7, FS_Subset
  <2>11. Cardinality(Behind') \in Nat
    BY <2>7, FS_CardinalityType
  <2>12. 2 * Len(pages') <= Cardinality(Behind')
    BY <1>1, <1>3, <1>7, <2>9, <2>10, <2>11
  <2> QED
    BY <2>2, <2>12
<1>9. UncutListingComplete'
  <2> SUFFICES ASSUME ~walking', Len(pages') = 1
               PROVE  stayed' \subseteq pages'[1]
    BY DEF UncutListingComplete
  <2>1. Len(pages) = 0 /\ pages = <<>>
    BY <1>1, <1>3
  <2>2. token = NoToken /\ next = NoToken
    BY <2>1 DEF WalkInv
  <2>3. items = present
    BY <1>1, <2>2 DEF PageAfter, NoToken
  <2> QED
    BY <1>1, <1>3, <2>1, <2>3
<1>10. Keys # {} => WalkEnds'
  <2> SUFFICES ASSUME Keys # {} PROVE Len(pages) + 1 <= Cardinality(Keys)
    BY <1>3 DEF WalkEnds
  <2>1. Cardinality(Keys) # 0
    BY FS_EmptySet
  <2> QED
    BY <1>1, <1>3, <1>7, <2>1
<1>11. pages' # <<>> /\ Len(pages') > 0
  BY <1>3
<1> QED
  BY <1>4, <1>6, <1>8, <1>9, <1>10, <1>11 DEF WalkInv

LEMMA WalkStep ==
  ASSUME IsFiniteSet(Keys), WalkInv, [Next]_vars
  PROVE  WalkInv'
<1>1. CASE NextPage
  <2>1. PICK limit \in Limits :
          /\ pages' = Append(pages, ListMetadata(limit).items)
          /\ token' = ListMetadata(limit).nextPageToken
          /\ walking' = (ListMetadata(limit).nextPageToken # NoToken)
    BY <1>1, Zenon DEF NextPage
  <2>2. walking = TRUE /\ UNCHANGED <<present, stayed>>
    BY <1>1 DEF NextPage, WalkInv, WalkTypes
  <2>3. PageAfter(ListMetadata(limit).items, ListMetadata(limit).nextPageToken)
    BY ResponseFacts DEF WalkInv
  <2> QED
    BY <2>1, <2>2, <2>3, PageStep
<1>2. CASE Insert \/ Remove \/ UNCHANGED vars
  <2>1. /\ UNCHANGED <<token, walking, pages>>
        /\ present' \subseteq Keys /\ stayed' \subseteq present' /\ stayed' \subseteq stayed
    BY <1>2 DEF WalkInv, WalkTypes, Insert, Remove, vars
  <2>2. WalkTypes'
    BY <2>1 DEF WalkInv, WalkTypes
  <2>3. UncutListingComplete'
    BY <2>1 DEF WalkInv, UncutListingComplete
  <2>4. PagesAscending' /\ Behind' = Behind /\ (Keys # {} => WalkEnds')
    BY <2>1 DEF WalkInv, PagesAscending, Behind, WalkEnds
  <2> QED
    BY <2>1, <2>2, <2>3, <2>4 DEF WalkInv
<1> QED
  BY <1>1, <1>2 DEF Next

(* WalkInv holds in every reachable state of a walk of ListMetadata calls, *)
(* service.go:213-283, whatever the records do between the pages.          *)
THEOREM Walk ==
  ASSUME IsFiniteSet(Keys)
  PROVE  Spec => []WalkInv
<1>1. Init => WalkInv
  BY StartsEmpty
<1>2. WalkInv /\ [Next]_vars => WalkInv'
  BY WalkStep
<1> QED
  BY <1>1, <1>2, PTL DEF Spec

\* No record is listed twice or out of order in a walk (service.go:213-250),
\* whatever is put and deleted between its pages.
THEOREM NothingListedTwice ==
  ASSUME IsFiniteSet(Keys)
  PROVE  Spec => []PagesAscending
<1>1. WalkInv => PagesAscending
  BY DEF WalkInv
<1> QED
  BY <1>1, Walk, PTL

\* A listing whose first response has no token is complete: the limit + 1
\* records asked for (service.go:220-229) were fewer than that.
THEOREM OnePageIsAll ==
  ASSUME IsFiniteSet(Keys)
  PROVE  Spec => []UncutListingComplete
<1>1. WalkInv => UncutListingComplete
  BY DEF WalkInv
<1> QED
  BY <1>1, Walk, PTL

\* A walk over any keys ends after at most one page for each key: a page that
\* is not the last takes two of them.
THEOREM WalksAreFinite ==
  ASSUME IsFiniteSet(Keys), Keys # {}
  PROVE  Spec => []WalkEnds
<1>1. WalkInv => WalkEnds
  BY DEF WalkInv
<1> QED
  BY <1>1, Walk, PTL
=============================================================================
