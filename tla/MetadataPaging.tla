--------------------------- MODULE MetadataPaging ---------------------------
(***************************************************************************)
(* A client that walks ListMetadata (internal/metadata/service.go) page by *)
(* page, passing on each NextPageToken, while records come and go.  Keys   *)
(* are numbered in their lexical order; 0 is the empty token.  A page is   *)
(* the set of its keys: the code returns them sorted.                      *)
(***************************************************************************)
EXTENDS Integers, Sequences, FiniteSets, FiniteSetsExt

CONSTANTS Keys,           \* the keys under the listed prefix
          Limits,         \* ListMetadataRequest.Limit values asked for
          DefaultLimit,   \* 100 in the code
          MaxWrites       \* bound of the model: inserts and deletes in the walk

ASSUME KeysAssumption == Keys \subseteq Nat \ {0}
ASSUME LimitsAssumption == Limits \subseteq Int /\ DefaultLimit \in Nat \ {0}

VARIABLES present,    \* keys of the stored records
          token,      \* page token of the next request
          walking,    \* FALSE once a response carries no token
          pages,      \* pages received so far
          stayed,     \* history: keys that were present all along
          writes

vars == <<present, token, walking, pages, stayed, writes>>

NoToken == 0

Init ==
  /\ present \in SUBSET Keys
  /\ token = NoToken
  /\ walking = TRUE
  /\ pages = <<>>
  /\ stayed = present
  /\ writes = 0
-----------------------------------------------------------------------------
\* tx.List: the first n keys in lexical order.
Lowest(S, n) == {k \in S : Cardinality({j \in S : j < k}) < n}

EffectiveLimit(limit) == IF limit <= 0 THEN DefaultLimit ELSE limit

\* Mutant: no record beyond the limit is asked for.
FetchedToLimit(limit) == Lowest(present, limit)

\* One record more than the limit, from the start of the prefix.
Fetched(limit) == Lowest(present, limit + 1)

\* Mutant: the token is ignored.
FilteredAll(items) == items

\* The token drops, from what was fetched, every key up to itself.
Filtered(items) == IF token = NoToken THEN items ELSE {k \in items : k > token}

\* items[limit] becomes the token and is left for the next page.
ListMetadata(request) ==
  LET limit == EffectiveLimit(request)
      items == Filtered(Fetched(limit))
      next  == IF Cardinality(items) > limit THEN Max(items) ELSE NoToken
  IN  [items |-> items \ {next}, nextPageToken |-> next]

NextPage ==
  /\ walking
  /\ \E limit \in Limits :
       LET response == ListMetadata(limit)
       IN  /\ pages' = Append(pages, response.items)
           /\ token' = response.nextPageToken
           /\ walking' = (response.nextPageToken # NoToken)
  /\ UNCHANGED <<present, stayed, writes>>

\* Other callers put and delete records between two pages.
Insert ==
  /\ writes < MaxWrites
  /\ \E k \in Keys \ present : present' = present \cup {k}
  /\ writes' = writes + 1
  /\ UNCHANGED <<token, walking, pages, stayed>>

Remove ==
  /\ writes < MaxWrites
  /\ \E k \in present : present' = present \ {k} /\ stayed' = stayed \ {k}
  /\ writes' = writes + 1
  /\ UNCHANGED <<token, walking, pages>>

Next == NextPage \/ Insert \/ Remove

Spec == Init /\ [][Next]_vars
-----------------------------------------------------------------------------
\* Every key of a page comes before every key of a later page, so no record is
\* listed twice, whatever is written between the pages.
PagesAscending ==
  \A i, j \in DOMAIN pages :
    i < j => \A k \in pages[i], l \in pages[j] : k < l

\* The walk ends, after at most one page for each key: whatever is written
\* between the pages, a response carries no token or moves it forward.
WalkEnds == Len(pages) <= Cardinality(Keys)

\* When the first response carries no token, it is the whole listing: every
\* record that was there all along is in it.
UncutListingComplete ==
  (~walking /\ Len(pages) = 1) => stayed \subseteq pages[1]

\* service.go:213 "lists records lexicographically with pagination": a record
\* that was there all along is on some page of the completed walk.
EveryRecordListed == ~walking => stayed \subseteq UNION {pages[i] : i \in DOMAIN pages}
=============================================================================
