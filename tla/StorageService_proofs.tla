------------------------ MODULE StorageService_proofs ------------------------
(***************************************************************************)
(* What StorageService keeps for any nodes, servers, segments and uploads: *)
(* the nodes of a record hold the segment, a response without a failure    *)
(* means enough copies, and the ring of a server places every segment on   *)
(* its nearest nodes and moves it only on account of who joins or leaves.  *)
(***************************************************************************)
EXTENDS StorageService, FileStore_proofs, HashRing_proofs

Handlers ==
  [pc : {"idle", "receive", "put", "wait", "respond", "done"},
   primary : Servers \cup {NoFile}, stream : Streams \cup {"none"},
   among : SUBSET Nodes, targets : SUBSET Nodes,
   pending : SUBSET (Nodes \cup {S3}), failed : SUBSET (Nodes \cup {S3}),
   answer : {"none", "error", "complete", "partial", "lost"}]

\* What is stored in etcd.
SegmentRecords == [upload : Uploads, whole : BOOLEAN, nodes : SUBSET Nodes]

SvcTypes ==
  /\ FileTypes
  /\ ring \in [Servers -> Rings]
  /\ upload \in [Uploads -> Handlers]
  /\ disturbed \subseteq Uploads
  /\ segments \in [revision : Nat,
                   kv : [Objects -> [value : SegmentRecords \cup {NoRecord}, modRevision : Nat]]]

\* The ring of any nodes holds them all, and a lookup finds as many of them,
\* each once, as are asked for and there.
LookupFinds ==
  \A S \in SUBSET Nodes :
    /\ {t.node : t \in ToSet(Rebuilt(S))} = S
    /\ \A o \in Objects :
         LET found == ToSet(Lookup(Rebuilt(S), KeyHash[o], ReplicationFactor))
         IN  found \subseteq S /\ Cardinality(found) = Min({ReplicationFactor, Cardinality(S)})

LEMMA RingFinds == LookupFinds
<1> SUFFICES ASSUME NEW S \in SUBSET Nodes
             PROVE  /\ {t.node : t \in ToSet(Rebuilt(S))} = S
                    /\ \A o \in Objects :
                         LET found == ToSet(Lookup(Rebuilt(S), KeyHash[o], ReplicationFactor))
                         IN  /\ found \subseteq S
                             /\ Cardinality(found) = Min({ReplicationFactor, Cardinality(S)})
  BY Zenon DEF LookupFinds
<1>1. S \in SUBSET ToSet(RingNodes) /\ ReplicationFactor \in Nat
  BY ServersAssumption, FactorAssumption
<1>2. 0 \in 0..Top /\ \A o \in Objects : KeyHash[o] \in 0..Top
  BY KeyHashAssumption, VNodesAssumption
<1>3. {t.node : t \in ToSet(Rebuilt(S))} = S
  BY <1>1, <1>2, LookupFound
<1>4. ASSUME NEW o \in Objects
      PROVE  /\ ToSet(Lookup(Rebuilt(S), KeyHash[o], ReplicationFactor)) \subseteq S
             /\ Cardinality(ToSet(Lookup(Rebuilt(S), KeyHash[o], ReplicationFactor)))
                  = Min({ReplicationFactor, Cardinality(S)})
  BY <1>1, <1>2, LookupFound
<1> QED
  BY <1>3, <1>4

\* The put of an upload runs on its primary, while its handler waits for it.
PutOfHandler(u) ==
  LET r == upload[u]
  IN  /\ r.pc # "idle" => r.primary \in Servers
      /\ \A n \in Nodes :
           /\ put[n][u].pc # "idle" => n = r.primary /\ r.pc \notin {"idle", "receive"}
           /\ Running(n, u) => r.pc = "put"
           /\ put[n][u].answer # "none" => put[n][u].pc = "done"

\* The targets are enough.
Enough(r) ==
  Cardinality(r.targets) >= Min({ReplicationFactor, Max({1, Cardinality(r.among)})})

\* What a handler knows of its targets.
Placed(u) ==
  LET r == upload[u]
  IN  /\ r.pc \in {"idle", "receive", "put"} => r.targets = {} /\ r.pending = {} /\ r.failed = {}
      /\ r.pc = "wait" => r.targets # {}
      /\ r.targets # {} => r.primary \in r.targets /\ put[r.primary][u].pc # "idle" /\ Enough(r)
      /\ r.primary \notin r.pending
      /\ r.answer = "complete" =>
           r.pc \in {"respond", "done"} /\ r.targets # {} /\ r.pending = {} /\ r.failed = {}

\* Nobody may store anything beside or after an upload that has reached a file
\* store and counts as undisturbed.
Undisturbed ==
  \A n \in Nodes, u, v \in Uploads :
    u # v /\ Object[u] = Object[v] /\ put[n][u].pc # "idle" /\ u \notin disturbed => ~Live(v)

\* Files stay with the object they were made for.
FilesOfObject ==
  /\ \A n \in Nodes, o \in Objects : tmp[n][o] # NoFile => Object[tmp[n][o]] = o
  /\ \A n \in Nodes, o \in Objects : path[n][o] # NoFile => Object[path[n][o]] = o
  /\ \A n \in Nodes, u \in Uploads :
       put[n][u].pc = "write" => put[n][u].fd \in Uploads /\ Object[put[n][u].fd] = Object[u]

\* Other nodes that have answered well.
Reached(r) == r.targets \ (r.pending \cup r.failed \cup {r.primary})

\* An undisturbed upload is where its put and its calls have got.
Stored(u) ==
  u \notin disturbed =>
    /\ \A n \in Nodes : put[n][u].pc = "write" =>
         /\ tmp[n][Object[u]] = put[n][u].fd
         /\ data[n][put[n][u].fd] = [i \in 1..put[n][u].offset |-> u]
    /\ \A n \in Nodes : put[n][u].answer = "created" => Holds(n, u)
    /\ \A n \in Reached(upload[u]) : Holds(n, u)

\* A record tells of an upload with all answers.
Describes(record) ==
  LET r == upload[record.upload]
  IN  /\ r.pc \in {"respond", "done"}
      /\ r.targets # {} /\ r.pending = {} /\ r.failed = {}
      /\ record.nodes = r.targets \cup {r.primary}
      /\ record.whole => LocalAnswer(record.upload) = "created"

RecordsDescribe ==
  \A o \in Objects : segments.kv[o].value # NoRecord => Describes(segments.kv[o].value)

SvcInv ==
  /\ SvcTypes /\ StartsAtZero /\ Undisturbed /\ FilesOfObject /\ RecordsDescribe
  /\ \A u \in Uploads : PutOfHandler(u) /\ Placed(u) /\ Stored(u)
-----------------------------------------------------------------------------
LEMMA NodesFinite == IsFiniteSet(Nodes)
<1>1. Nodes = {RingNodes[i] : i \in 1..Len(RingNodes)}
  BY ServersAssumption, RingNodesAssumption DEF ToSet
<1>2. IsFiniteSet(1..Len(RingNodes))
  <2>1. Len(RingNodes) \in Nat
    BY RingNodesAssumption
  <2> QED
    BY <2>1, FS_Interval
<1> DEFINE f == [i \in 1..Len(RingNodes) |-> RingNodes[i]]
<1>3. f \in Surjection(1..Len(RingNodes), Nodes)
  BY <1>1 DEF Surjection
<1> QED
  BY <1>2, <1>3, FS_Surjection

LEMMA MinOfTwo ==
  ASSUME NEW i \in Int, NEW j \in Int
  PROVE  /\ Min({i, j}) \in {i, j} /\ Min({i, j}) <= i /\ Min({i, j}) <= j
         /\ Max({i, j}) \in {i, j} /\ Max({i, j}) >= i /\ Max({i, j}) >= j
<1>1. \E x \in {i, j} : \A y \in {i, j} : x <= y
  OBVIOUS
<1>2. \E x \in {i, j} : \A y \in {i, j} : x >= y
  OBVIOUS
<1> QED
  BY <1>1, <1>2 DEF Min, Max

LEMMA SmallestOf ==
  ASSUME NEW k \in Nat \ {0}, NEW c \in Nat
  PROVE  /\ Min({k, c}) \in Nat
         /\ Min({k, c}) = 0 => c = 0
         /\ Min({k, Max({1, 0})}) <= 1
         /\ c >= 1 => Min({k, Max({1, c})}) = Min({k, c})
<1>1. Min({k, c}) \in {k, c}
  BY MinOfTwo
<1>2. Max({1, 0}) \in {1, 0} /\ Max({1, 0}) >= 1
  <2>1. 1 \in Int /\ 0 \in Int
    OBVIOUS
  <2> QED
    BY <2>1, MinOfTwo, Zenon
<1>3. Max({1, 0}) = 1
  BY <1>2
<1>4. Min({k, 1}) <= 1
  BY MinOfTwo
<1>5. ASSUME c >= 1 PROVE Max({1, c}) = c
  <2>1. Max({1, c}) \in {1, c} /\ Max({1, c}) >= c
    BY MinOfTwo
  <2> QED
    BY <1>5, <2>1
<1>6. Min({k, c}) \in Nat /\ (Min({k, c}) = 0 => c = 0)
  BY <1>1
<1>7. Min({k, Max({1, 0})}) <= 1
  BY <1>3, <1>4, Zenon
<1>8. c >= 1 => Min({k, Max({1, c})}) = Min({k, c})
  BY <1>5, Zenon
<1> QED
  BY <1>6, <1>7, <1>8, Zenon

\* The table of lookups holds what Lookup finds.
LEMMA TableHolds ==
  ASSUME NEW tokens \in Rings, NEW o \in Objects
  PROVE  Found(tokens, o) = Lookup(tokens, KeyHash[o], ReplicationFactor)
<1> DEFINE entry == [tokens |-> tokens, object |-> o,
                     found |-> Lookup(tokens, KeyHash[o], ReplicationFactor)]
<1>1. entry \in Lookups
  <2>1. <<tokens, o>> \in Rings \X Objects
    OBVIOUS
  <2>2. entry = [tokens |-> <<tokens, o>>[1], object |-> <<tokens, o>>[2],
                 found |-> Lookup(<<tokens, o>>[1], KeyHash[<<tokens, o>>[2]], ReplicationFactor)]
    OBVIOUS
  <2> HIDE DEF entry
  <2> QED
    BY <2>1, <2>2, Zenon DEF Lookups
<1>2. entry.tokens = tokens /\ entry.object = o
  OBVIOUS
<1>3. ASSUME NEW x \in Lookups, x.tokens = tokens, x.object = o
      PROVE  x.found = Lookup(tokens, KeyHash[o], ReplicationFactor)
  BY <1>3 DEF Lookups
<1> DEFINE e == CHOOSE x \in Lookups : x.tokens = tokens /\ x.object = o
<1>4. e \in Lookups /\ e.tokens = tokens /\ e.object = o
  <2>1. \E x \in Lookups : x.tokens = tokens /\ x.object = o
    <3> HIDE DEF entry
    <3> QED
      BY <1>1, <1>2, Zenon
  <2> QED
    BY <2>1, Zenon
<1> HIDE DEF e
<1>5. e.found = Lookup(tokens, KeyHash[o], ReplicationFactor)
  BY <1>3, <1>4
<1> QED
  BY <1>5 DEF Found, e

\* What an upload takes for its targets are nodes, as many as are asked for
\* and there.
LEMMA TargetsFound ==
  ASSUME SvcTypes, NEW p \in Servers, NEW o \in Objects, p \in TargetsOn(p, o)
  PROVE  /\ Members(p) \subseteq Nodes /\ TargetsOn(p, o) \subseteq Nodes
         /\ Cardinality(TargetsOn(p, o)) >= Min({ReplicationFactor, Max({1, Cardinality(Members(p))})})
<1>1. PICK S \in SUBSET Nodes : ring[p] = Rebuilt(S)
  BY DEF SvcTypes, Rings
<1> DEFINE found == Lookup(ring[p], KeyHash[o], ReplicationFactor)
<1>2. Members(p) = S
  BY <1>1, RingFinds DEF LookupFinds, Members
<1>3. /\ ToSet(found) \subseteq S
      /\ Cardinality(ToSet(found)) = Min({ReplicationFactor, Cardinality(S)})
  BY <1>1, RingFinds DEF LookupFinds
<1>4. TargetsOn(p, o) = IF found = <<>> THEN {p} ELSE ToSet(found)
  <2>1. ring[p] \in Rings
    BY DEF SvcTypes
  <2> QED
    BY <2>1, TableHolds DEF TargetsOn
<1> HIDE DEF found
<1>5. IsFiniteSet(S) /\ Cardinality(S) \in Nat
  BY NodesFinite, FS_Subset, FS_CardinalityType
<1>6. S = {} => Cardinality(S) = 0
  BY FS_EmptySet
<1>7. p \in Nodes /\ Cardinality({p}) = 1
  BY ServersAssumption, FS_Singleton
<1>8. ReplicationFactor \in Nat \ {0}
  BY FactorAssumption
<1>9. CASE found = <<>>
  <2>1. ToSet(found) = {}
    BY <1>9 DEF ToSet
  <2>2. Min({ReplicationFactor, Cardinality(S)}) = 0
    BY <1>3, <2>1, FS_EmptySet
  <2>3. Cardinality(S) = 0
    BY <1>5, <1>8, <2>2, SmallestOf, Zenon
  <2>4. Min({ReplicationFactor, Max({1, Cardinality(S)})}) <= 1
    BY <1>8, <2>3, SmallestOf, Zenon
  <2> QED
    BY <1>2, <1>4, <1>7, <1>9, <2>4
<1>10. CASE found # <<>>
  <2>1. TargetsOn(p, o) = ToSet(found)
    BY <1>4, <1>10
  <2>2. S # {}
    BY <1>3, <2>1
  <2>3. Cardinality(S) >= 1
    <3>1. Cardinality(S) # 0
      BY <1>5, <2>2, FS_EmptySet
    <3> QED
      BY <1>5, <3>1
  <2>4. Min({ReplicationFactor, Max({1, Cardinality(S)})}) = Min({ReplicationFactor, Cardinality(S)})
    BY <1>5, <1>8, <2>3, SmallestOf, Zenon
  <2>5. Min({ReplicationFactor, Cardinality(S)}) \in Nat
    BY <1>5, <1>8, SmallestOf, Zenon
  <2>6. Cardinality(ToSet(found)) >= Min({ReplicationFactor, Max({1, Cardinality(S)})})
    BY <1>3, <2>4, <2>5
  <2> QED
    BY <1>2, <1>3, <2>1, <2>6
<1> QED
  BY <1>9, <1>10

LEMMA InitSvc == ASSUME Init PROVE SvcInv
<1>1. FileTypes
  BY DEF Init, FSInit, FileTypes, NoPut, Puts
<1>2. ring \in [Servers -> Rings]
  BY ServersAssumption DEF Init, Rings
<1>3. upload \in [Uploads -> Handlers]
  BY DEF Init, NoUpload, Handlers
<1>4. segments \in [revision : Nat,
                    kv : [Objects -> [value : SegmentRecords \cup {NoRecord}, modRevision : Nat]]]
  BY DEF Init, Etcd!New, Etcd!Absent
<1>5. \A n \in Nodes, u \in Uploads : put[n][u] = NoPut
  BY DEF Init, FSInit
<1>6. \A u \in Uploads : upload[u] = NoUpload
  BY DEF Init
<1>7. StartsAtZero /\ Undisturbed
  BY <1>5 DEF StartsAtZero, Undisturbed, NoPut
<1>8. FilesOfObject
  BY <1>5 DEF Init, FSInit, FilesOfObject, NoPut
<1>9. RecordsDescribe
  BY DEF Init, RecordsDescribe, Etcd!New, Etcd!Absent
<1>10. ASSUME NEW u \in Uploads PROVE PutOfHandler(u) /\ Placed(u) /\ Stored(u)
  BY <1>5, <1>6 DEF PutOfHandler, Placed, Stored, Reached, NoUpload, NoPut, Running
<1> QED
  BY <1>1, <1>2, <1>3, <1>4, <1>7, <1>8, <1>9, <1>10 DEF SvcInv, SvcTypes, Init
-----------------------------------------------------------------------------
LEMMA OneHandler ==
  ASSUME SvcTypes, NEW u \in Uploads, NEW r \in Handlers, upload' = [upload EXCEPT ![u] = r]
  PROVE  /\ upload' \in [Uploads -> Handlers]
         /\ upload'[u] = r
         /\ \A w \in Uploads \ {u} : upload'[w] = upload[w]
BY DEF SvcTypes

LEMMA LiveHandler ==
  ASSUME SvcInv, NEW v \in Uploads, Live(v)
  PROVE  upload[v].pc \notin {"idle", "receive"}
<1>1. Placed(v)
  BY DEF SvcInv
<1> QED
  BY <1>1 DEF Live, Placed

\* The upload a record tells of keeps its answers.
KeepsAnswers ==
  \A w \in Uploads :
    LET r == upload[w]
    IN  (r.pc \in {"respond", "done"} /\ r.targets # {} /\ r.pending = {} /\ r.failed = {}) =>
          /\ upload'[w].pc \in {"respond", "done"}
          /\ upload'[w].targets = r.targets /\ upload'[w].primary = r.primary
          /\ upload'[w].pending = {} /\ upload'[w].failed = {}
          /\ put[r.primary][w].answer = "created" => put'[r.primary][w].answer = "created"

LEMMA RecordStays ==
  ASSUME SvcInv, KeepsAnswers, NEW o \in Objects, segments.kv[o].value # NoRecord,
         NEW record, record = segments.kv[o].value
  PROVE  Describes(record)'
<1>1. record \in SegmentRecords
  BY DEF SvcInv, SvcTypes
<1>2. record.upload \in Uploads
  BY <1>1 DEF SegmentRecords
<1>3. Describes(record)
  BY DEF SvcInv, RecordsDescribe
<1> QED
  BY <1>2, <1>3 DEF Describes, LocalAnswer, KeepsAnswers

LEMMA RecordsStay ==
  ASSUME SvcInv, KeepsAnswers, UNCHANGED segments
  PROVE  RecordsDescribe'
<1> SUFFICES ASSUME NEW o \in Objects, segments.kv[o].value # NoRecord
             PROVE  Describes(segments.kv[o].value)'
  BY DEF RecordsDescribe
<1>1. PICK record : record = segments.kv[o].value
  OBVIOUS
<1>2. Describes(record)'
  BY <1>1, RecordStays
<1> QED
  BY <1>1, <1>2

\* A handler moves on while no file store does.
LEMMA HandlerMoves ==
  ASSUME SvcInv, NEW u \in Uploads, NEW r \in Handlers, upload' = [upload EXCEPT ![u] = r],
         UNCHANGED <<fsDisk, ring, disturbed>>,
         PutOfHandler(u)', Placed(u)', Live(u)' => Live(u),
         Reached(r) \subseteq Reached(upload[u]),
         segments' \in [revision : Nat,
                        kv : [Objects -> [value : SegmentRecords \cup {NoRecord}, modRevision : Nat]]],
         RecordsDescribe'
  PROVE  SvcInv'
<1>1. UNCHANGED <<tmp, path, data, put, publisher, overlapped>>
  BY DEF fsDisk
<1>2. /\ upload' \in [Uploads -> Handlers] /\ upload'[u] = r
      /\ \A w \in Uploads \ {u} : upload'[w] = upload[w]
  BY OneHandler DEF SvcInv
<1>3. SvcTypes'
  BY <1>1, <1>2 DEF SvcInv, SvcTypes, FileTypes
<1>4. StartsAtZero' /\ FilesOfObject'
  BY <1>1 DEF SvcInv, StartsAtZero, FilesOfObject
<1>5. Undisturbed'
  <2>1. \A v \in Uploads : Live(v)' => Live(v)
    BY <1>2 DEF Live
  <2> QED
    BY <1>1, <2>1 DEF SvcInv, Undisturbed
<1>6. ASSUME NEW w \in Uploads PROVE PutOfHandler(w)' /\ Placed(w)' /\ Stored(w)'
  <2>0. PutOfHandler(w) /\ Placed(w) /\ Stored(w)
    BY DEF SvcInv
  <2>1. CASE w # u
    <3>1. upload'[w] = upload[w]
      BY <1>2, <2>1
    <3>2. PutOfHandler(w)'
      BY <1>1, <2>0, <3>1 DEF PutOfHandler, Running
    <3>3. Placed(w)'
      BY <1>1, <2>0, <3>1 DEF Placed, Enough
    <3>4. Stored(w)'
      BY <1>1, <2>0, <3>1 DEF Stored, Holds, Reached
    <3> QED
      BY <3>2, <3>3, <3>4
  <2>2. CASE w = u
    <3>1. \A n \in Reached(upload[u])' : n \in Reached(upload[u])
      BY <1>2 DEF Reached
    <3>2. Stored(u)'
      BY <1>1, <2>0, <2>2, <3>1 DEF Stored, Holds
    <3> QED
      BY <2>2, <3>2
  <2> QED
    BY <2>1, <2>2
<1> QED
  BY <1>3, <1>4, <1>5, <1>6 DEF SvcInv

\* A call returns, or has returned: nothing else about it changes.
LEMMA HandlerAnswers ==
  ASSUME SvcInv, NEW u \in Uploads, NEW r \in Handlers, upload' = [upload EXCEPT ![u] = r],
         UNCHANGED <<fsDisk, ring, disturbed>>,
         upload[u].pc # "idle", r.pc \in {"respond", "done"},
         r.primary = upload[u].primary, r.among = upload[u].among,
         r.targets = upload[u].targets, r.pending = upload[u].pending, r.failed = upload[u].failed,
         \A n \in Nodes : ~Running(n, u),
         r.answer = "complete" =>
           upload[u].targets # {} /\ upload[u].pending = {} /\ upload[u].failed = {},
         \/ UNCHANGED segments
         \/ /\ segments' \in [revision : Nat,
                              kv : [Objects -> [value : SegmentRecords \cup {NoRecord},
                                                modRevision : Nat]]]
            /\ RecordsDescribe'
  PROVE  SvcInv'
<1>1. UNCHANGED <<tmp, path, data, put, publisher, overlapped>>
  BY DEF fsDisk
<1>2. /\ upload'[u] = r
      /\ \A w \in Uploads \ {u} : upload'[w] = upload[w]
  BY OneHandler DEF SvcInv
<1>3. PutOfHandler(u) /\ Placed(u)
  BY DEF SvcInv
<1>4. PutOfHandler(u)'
  BY <1>1, <1>2, <1>3 DEF PutOfHandler, Running
<1>5. Placed(u)'
  BY <1>1, <1>2, <1>3 DEF Placed, Enough
<1>6. Live(u)' => Live(u)
  BY <1>2 DEF Live
<1>7. Reached(r) \subseteq Reached(upload[u])
  BY DEF Reached
<1>8. CASE UNCHANGED segments
  <2>1. RecordsDescribe'
    BY <1>1, <1>2, <1>8, RecordsStay DEF KeepsAnswers
  <2> QED
    BY <1>4, <1>5, <1>6, <1>7, <1>8, <2>1, HandlerMoves DEF SvcInv, SvcTypes
<1> QED
  BY <1>4, <1>5, <1>6, <1>7, <1>8, HandlerMoves

LEMMA AnsweredPut ==
  ASSUME SvcInv, NEW u \in Uploads, LocalAnswer(u) # "none", upload[u].pc # "idle"
  PROVE  \A n \in Nodes : ~Running(n, u)
<1>1. PutOfHandler(u) /\ upload[u].primary \in Nodes
  BY ServersAssumption DEF SvcInv, PutOfHandler
<1>2. put[upload[u].primary][u].pc = "done"
  BY <1>1 DEF PutOfHandler, LocalAnswer
<1> QED
  BY <1>1, <1>2 DEF PutOfHandler, Running

\* No put runs for a call that is not waiting for it.
LEMMA NoPutRuns ==
  ASSUME SvcInv, NEW u \in Uploads, upload[u].pc # "put"
  PROVE  \A n \in Nodes : ~Running(n, u)
<1>1. PutOfHandler(u)
  BY DEF SvcInv
<1> QED
  BY <1>1 DEF PutOfHandler

\* Misplaced and the two failures put no record and take no target.
LEMMA FailsSvc ==
  ASSUME SvcInv, NEW u \in Uploads,
         StreamFails(u) \/ LocalPutFails(u) \/ Misplaced(u) \/ ReplicationFails(u) \/ SendAndClose(u)
  PROVE  SvcInv'
<1>1. upload[u] \in Handlers /\ Placed(u)
  BY DEF SvcInv, SvcTypes
<1>2. UNCHANGED <<fsDisk, ring, disturbed, segments>> /\ upload[u].pc # "idle"
  BY DEF StreamFails, LocalPutFails, Misplaced, ReplicationFails, SendAndClose, AllAnswered, fsVars
<1>3. \A n \in Nodes : ~Running(n, u)
  <2>1. CASE StreamFails(u) \/ ReplicationFails(u) \/ SendAndClose(u)
    BY <2>1, NoPutRuns DEF StreamFails, ReplicationFails, SendAndClose, AllAnswered
  <2>2. CASE LocalPutFails(u) \/ Misplaced(u)
    BY <2>2, <1>2, AnsweredPut DEF LocalPutFails, Misplaced
  <2> QED
    BY <2>1, <2>2
<1>4. CASE SendAndClose(u)
  <2> DEFINE r == [upload[u] EXCEPT !.pc = "done"]
  <2>1. upload' = [upload EXCEPT ![u] = r]
    BY <1>4 DEF SendAndClose
  <2>2. /\ r \in Handlers /\ r.pc = "done" /\ r.answer = upload[u].answer
        /\ r.primary = upload[u].primary /\ r.among = upload[u].among
        /\ r.targets = upload[u].targets /\ r.pending = upload[u].pending
        /\ r.failed = upload[u].failed
    BY <1>1 DEF Handlers
  <2> HIDE DEF r
  <2>3. r.answer = "complete" =>
          upload[u].targets # {} /\ upload[u].pending = {} /\ upload[u].failed = {}
    BY <1>1, <2>2 DEF Placed
  <2> QED
    BY <1>2, <1>3, <2>1, <2>2, <2>3, HandlerAnswers
<1>5. ASSUME NEW answer \in {"error", "partial"}, Returns(u, answer)
      PROVE  SvcInv'
  <2> DEFINE r == [upload[u] EXCEPT !.pc = "respond", !.stream = "none", !.answer = answer]
  <2>1. upload' = [upload EXCEPT ![u] = r]
    BY <1>5 DEF Returns
  <2>2. /\ r \in Handlers /\ r.pc = "respond" /\ r.answer # "complete"
        /\ r.primary = upload[u].primary /\ r.among = upload[u].among
        /\ r.targets = upload[u].targets /\ r.pending = upload[u].pending
        /\ r.failed = upload[u].failed
    BY <1>1 DEF Handlers
  <2> HIDE DEF r
  <2> QED
    BY <1>2, <1>3, <2>1, <2>2, HandlerAnswers
<1> QED
  BY <1>4, <1>5 DEF StreamFails, LocalPutFails, Misplaced, ReplicationFails

LEMMA BeginsSvc ==
  ASSUME SvcInv, NEW u \in Uploads, UploadSegment(u)
  PROVE  SvcInv'
<1>1. PICK p \in Servers, s \in Streams :
        upload' = [upload EXCEPT ![u].pc = "receive", ![u].primary = p, ![u].stream = s]
  BY DEF UploadSegment
<1>2. /\ UNCHANGED <<tmp, path, data, put, publisher, overlapped, ring, disturbed, segments>>
      /\ upload[u].pc = "idle"
  BY DEF UploadSegment, fsVars, fsDisk
<1> DEFINE r == [upload[u] EXCEPT !.pc = "receive", !.primary = p, !.stream = s]
<1>3. upload' = [upload EXCEPT ![u] = r]
  BY <1>1
<1>4. upload[u] \in Handlers /\ PutOfHandler(u) /\ Placed(u)
  BY DEF SvcInv, SvcTypes
<1>5. /\ r \in Handlers /\ r.pc = "receive" /\ r.primary = p /\ r.answer = upload[u].answer
      /\ r.targets = upload[u].targets /\ r.pending = upload[u].pending
      /\ r.failed = upload[u].failed
  BY <1>4 DEF Handlers
<1> HIDE DEF r
<1>6. /\ upload'[u] = r
      /\ \A w \in Uploads \ {u} : upload'[w] = upload[w]
  BY <1>3, <1>5, OneHandler DEF SvcInv
<1>7. PutOfHandler(u)'
  BY <1>2, <1>4, <1>5, <1>6 DEF PutOfHandler, Running
<1>8. Placed(u)' /\ (Live(u)' => Live(u))
  BY <1>2, <1>4, <1>5, <1>6 DEF Placed, Live
<1>9. Reached(r) \subseteq Reached(upload[u])
  BY <1>2, <1>4, <1>5 DEF Placed, Reached
<1>10. KeepsAnswers
  BY <1>2, <1>6 DEF KeepsAnswers
<1>11. RecordsDescribe'
  BY <1>2, <1>10, RecordsStay
<1> QED
  BY <1>2, <1>3, <1>5, <1>7, <1>8, <1>9, <1>11, HandlerMoves DEF SvcInv, SvcTypes, fsDisk

LEMMA ReplicateSvc ==
  ASSUME SvcInv, NEW u \in Uploads, Replicate(u)
  PROVE  SvcInv'
<1> DEFINE p == upload[u].primary
           targets == TargetsOn(p, Object[u])
           pending == (targets \ {p}) \cup (IF u \in Backup THEN {S3} ELSE {})
           r == [upload[u] EXCEPT !.pc = "wait", !.among = Members(p), !.targets = targets,
                                  !.pending = pending]
<1>1. /\ upload[u].pc = "put" /\ LocalAnswer(u) # "none" /\ p \in targets
      /\ upload' = [upload EXCEPT ![u] = r]
  BY DEF Replicate
<1>2. UNCHANGED <<tmp, path, data, put, publisher, overlapped, ring, disturbed, segments>>
  BY DEF Replicate, fsVars, fsDisk
<1>3. upload[u] \in Handlers /\ PutOfHandler(u) /\ Placed(u)
  BY DEF SvcInv, SvcTypes
<1>4. p \in Servers /\ p \in Nodes /\ p # S3
  BY <1>1, <1>3, ServersAssumption, S3Assumption DEF PutOfHandler
<1>5. /\ Members(p) \subseteq Nodes /\ targets \subseteq Nodes
      /\ Cardinality(targets) >= Min({ReplicationFactor, Max({1, Cardinality(Members(p))})})
  BY <1>1, <1>4, TargetsFound, ObjectAssumption DEF SvcInv
<1>6. pending \subseteq Nodes \cup {S3} /\ p \notin pending
  BY <1>4, <1>5
<1> HIDE DEF targets, pending
<1>7. /\ r \in Handlers /\ r.pc = "wait" /\ r.primary = p /\ r.among = Members(p)
      /\ r.targets = targets /\ r.pending = pending /\ r.answer = upload[u].answer
      /\ r.failed = {}
  BY <1>1, <1>3, <1>5, <1>6 DEF Handlers, Placed
<1> HIDE DEF r
<1>8. /\ upload'[u] = r
      /\ \A w \in Uploads \ {u} : upload'[w] = upload[w]
  BY <1>1, <1>7, OneHandler DEF SvcInv
<1>9. \A n \in Nodes : ~Running(n, u)
  BY <1>1, AnsweredPut
<1>10. PutOfHandler(u)'
  BY <1>1, <1>2, <1>3, <1>7, <1>8, <1>9 DEF PutOfHandler, Running
<1>11. Placed(u)'
  <2>1. put[p][u].pc # "idle"
    BY <1>1, <1>3, <1>4 DEF PutOfHandler, LocalAnswer
  <2>2. Enough(r)
    BY <1>5, <1>7 DEF Enough
  <2>3. upload[u].answer # "complete"
    BY <1>1, <1>3 DEF Placed
  <2> QED
    BY <1>1, <1>2, <1>6, <1>7, <1>8, <2>1, <2>2, <2>3 DEF Placed, Enough
<1>12. Live(u)
  BY <1>1 DEF Live
<1>13. Reached(r) \subseteq Reached(upload[u])
  BY <1>7 DEF Reached, pending
<1>14. KeepsAnswers
  BY <1>1, <1>2, <1>8 DEF KeepsAnswers
<1>15. RecordsDescribe'
  BY <1>2, <1>14, RecordsStay
<1> QED
  BY <1>1, <1>2, <1>7, <1>10, <1>11, <1>12, <1>13, <1>15, HandlerMoves
     DEF SvcInv, SvcTypes, fsDisk

\* The put of a record replaces what etcd holds for the segment.
LEMMA RecordStored ==
  ASSUME segments \in [revision : Nat,
                      kv : [Objects -> [value : SegmentRecords \cup {NoRecord}, modRevision : Nat]]],
         NEW o \in Objects, NEW record \in SegmentRecords,
         segments' = Etcd!OpPut(segments, o, record)
  PROVE  /\ segments' \in [revision : Nat,
                           kv : [Objects -> [value : SegmentRecords \cup {NoRecord},
                                             modRevision : Nat]]]
         /\ segments'.kv[o].value = record
         /\ \A b \in Objects \ {o} : segments'.kv[b].value = segments.kv[b].value
<1> DEFINE Entries == [value : SegmentRecords \cup {NoRecord}, modRevision : Nat]
           entry == [value |-> record, modRevision |-> segments.revision + 1]
<1>1. segments' = [revision |-> segments.revision + 1, kv |-> [segments.kv EXCEPT ![o] = entry]]
  BY DEF Etcd!OpPut
<1>2. entry \in Entries /\ entry.value = record
  OBVIOUS
<1>3. segments.kv \in [Objects -> Entries] /\ segments.revision + 1 \in Nat
  OBVIOUS
<1> HIDE DEF entry, Entries
<1>4. segments'.kv = [segments.kv EXCEPT ![o] = entry] /\ segments'.revision \in Nat
  BY <1>1, <1>3
<1>5. segments' \in [revision : Nat, kv : [Objects -> Entries]]
  BY <1>1, <1>2, <1>3
<1>6. \A b \in Objects : segments'.kv[b] = IF b = o THEN entry ELSE segments.kv[b]
  BY <1>3, <1>4
<1> QED
  BY <1>2, <1>5, <1>6 DEF Entries

LEMMA RecordSvc ==
  ASSUME SvcInv, NEW u \in Uploads, RecordSegment(u)
  PROVE  SvcInv'
<1>0. PICK record : record = SegmentRecord(u)
  OBVIOUS
<1> DEFINE r == [upload[u] EXCEPT !.pc = "respond", !.stream = "none", !.answer = "complete"]
<1>1. /\ upload[u].pc = "wait" /\ upload[u].pending = {} /\ upload[u].failed = {}
      /\ segments' = Etcd!OpPut(segments, Object[u], record)
      /\ upload' = [upload EXCEPT ![u] = r]
  BY <1>0 DEF RecordSegment, AllAnswered, PutSegment, Returns
<1>2. UNCHANGED <<tmp, path, data, put, publisher, overlapped, ring, disturbed>>
  BY DEF RecordSegment, fsVars, fsDisk
<1>3. upload[u] \in Handlers /\ PutOfHandler(u) /\ Placed(u)
  BY DEF SvcInv, SvcTypes
<1>4. upload[u].primary \in Nodes /\ upload[u].targets \subseteq Nodes /\ upload[u].targets # {}
  BY <1>1, <1>3, ServersAssumption DEF PutOfHandler, Placed, Handlers
<1>5. /\ record \in SegmentRecords
      /\ record.upload = u
      /\ record.nodes = upload[u].targets \cup {upload[u].primary}
      /\ record.whole => LocalAnswer(u) = "created"
  <2>1. (LocalAnswer(u) = "created") \in BOOLEAN
    OBVIOUS
  <2> QED
    BY <1>0, <1>1, <1>4, <2>1 DEF SegmentRecord, SegmentRecords
<1>6. /\ r \in Handlers /\ r.pc = "respond" /\ r.answer = "complete"
      /\ r.primary = upload[u].primary /\ r.among = upload[u].among
      /\ r.targets = upload[u].targets /\ r.pending = upload[u].pending
      /\ r.failed = upload[u].failed
  BY <1>3 DEF Handlers
<1> HIDE DEF r
<1>7. /\ upload'[u] = r
      /\ \A w \in Uploads \ {u} : upload'[w] = upload[w]
  BY <1>1, <1>6, OneHandler DEF SvcInv
<1>8. /\ segments' \in [revision : Nat,
                        kv : [Objects -> [value : SegmentRecords \cup {NoRecord},
                                          modRevision : Nat]]]
      /\ segments'.kv[Object[u]].value = record
      /\ \A o \in Objects \ {Object[u]} : segments'.kv[o].value = segments.kv[o].value
  BY <1>1, <1>5, RecordStored, ObjectAssumption DEF SvcInv, SvcTypes
<1>9. RecordsDescribe'
  <2> SUFFICES ASSUME NEW o \in Objects, segments'.kv[o].value # NoRecord
               PROVE  Describes(segments.kv[o].value)'
    BY DEF RecordsDescribe
  <2>1. CASE o = Object[u]
    <3>1. Describes(record)'
      BY <1>1, <1>2, <1>4, <1>5, <1>6, <1>7 DEF Describes, LocalAnswer
    <3> QED
      BY <1>8, <2>1, <3>1
  <2>2. CASE o # Object[u]
    <3>1. KeepsAnswers
      BY <1>1, <1>2, <1>7 DEF KeepsAnswers
    <3>2. PICK other : other = segments.kv[o].value
      OBVIOUS
    <3>3. Describes(other)'
      BY <1>8, <2>2, <3>1, <3>2, RecordStays
    <3> QED
      BY <1>8, <2>2, <3>2, <3>3
  <2> QED
    BY <2>1, <2>2
<1>10. \A n \in Nodes : ~Running(n, u)
  BY <1>1, NoPutRuns
<1> QED
  BY <1>1, <1>2, <1>4, <1>6, <1>8, <1>9, <1>10, HandlerAnswers DEF fsDisk

LEMMA RingSvc ==
  ASSUME SvcInv, NEW p \in Servers,
         (\E n \in Nodes : Heartbeat(p, n)) \/ (\E S \in SUBSET Nodes : RingMoves(p, S))
  PROVE  SvcInv'
<1>1. UNCHANGED <<tmp, path, data, put, publisher, overlapped, segments, upload, disturbed>>
  BY DEF Heartbeat, RingMoves, fsVars, fsDisk
<1>2. Members(p) \subseteq Nodes
  <2>1. PICK S \in SUBSET Nodes : ring[p] = Rebuilt(S)
    BY DEF SvcInv, SvcTypes, Rings
  <2> QED
    BY <2>1, RingFinds DEF LookupFinds, Members
<1>3. PICK S \in SUBSET Nodes : ring' = [ring EXCEPT ![p] = Rebuilt(S)]
  BY <1>2 DEF Heartbeat, RingMoves
<1>4. PICK tokens \in Rings : ring' = [ring EXCEPT ![p] = tokens]
  BY <1>3 DEF Rings
<1>5. SvcTypes'
  BY <1>1, <1>4 DEF SvcInv, SvcTypes, FileTypes
<1>6. StartsAtZero' /\ FilesOfObject'
  BY <1>1 DEF SvcInv, StartsAtZero, FilesOfObject
<1>7. Undisturbed'
  BY <1>1 DEF SvcInv, Undisturbed, Live
<1>8. RecordsDescribe'
  BY <1>1, RecordsStay DEF KeepsAnswers
<1>9. ASSUME NEW w \in Uploads PROVE PutOfHandler(w)' /\ Placed(w)' /\ Stored(w)'
  <2>1. PutOfHandler(w) /\ Placed(w) /\ Stored(w)
    BY DEF SvcInv
  <2>2. PutOfHandler(w)' /\ Placed(w)'
    BY <1>1, <2>1 DEF PutOfHandler, Running, Placed, Enough
  <2>3. Stored(w)'
    BY <1>1, <2>1 DEF Stored, Reached, Holds
  <2> QED
    BY <2>2, <2>3
<1> QED
  BY <1>5, <1>6, <1>7, <1>8, <1>9 DEF SvcInv

\* A crash ends the puts and the handlers of one server.
LEMMA CrashSvc ==
  ASSUME SvcInv, NEW p \in Servers, Crash(p)
  PROVE  SvcInv'
<1>1. UNCHANGED <<tmp, path, data, publisher, overlapped, ring, segments, disturbed>>
  BY DEF Crash, CrashPuts
<1>2. /\ put \in [Nodes -> [Uploads -> Puts]]
      /\ put' = [put EXCEPT ![p] = [u \in Uploads |->
                  IF Running(p, u) THEN Ended("failed") ELSE put[p][u]]]
  BY DEF Crash, CrashPuts, SvcInv, SvcTypes, FileTypes
<1>3. /\ Ended("failed") \in Puts /\ Ended("failed").pc = "done"
      /\ Ended("failed").answer = "failed"
  BY EndedPut
<1>4. put' \in [Nodes -> [Uploads -> Puts]]
  BY <1>2, <1>3
<1>5. \A n \in Nodes, w \in Uploads :
        \/ put'[n][w] = put[n][w] /\ (n = p => ~Running(n, w))
        \/ n = p /\ Running(n, w) /\ put'[n][w] = Ended("failed")
  BY <1>2, ServersAssumption
<1>6. \A n \in Nodes, w \in Uploads :
        /\ put'[n][w] = put[n][w] \/ (put'[n][w].pc = "done" /\ put'[n][w].answer = "failed")
        /\ put'[n][w].pc # "idle" => put[n][w].pc # "idle"
        /\ Running(n, w)' => n # p /\ Running(n, w) /\ put'[n][w] = put[n][w]
  BY <1>3, <1>5 DEF Running
<1>7. upload \in [Uploads -> Handlers]
  BY DEF SvcInv, SvcTypes
<1>8. ASSUME NEW w \in Uploads
      PROVE  /\ upload'[w] \in Handlers
             /\ upload'[w].primary = upload[w].primary /\ upload'[w].among = upload[w].among
             /\ upload'[w].targets = upload[w].targets /\ upload'[w].failed = upload[w].failed
             /\ upload'[w].pending = upload[w].pending
             /\ \/ upload'[w] = upload[w] /\ (upload[w].primary # p \/ upload[w].pc = "done")
                \/ /\ upload'[w].pc = "done" /\ upload'[w].answer = "lost"
                   /\ upload[w].primary = p
  <2> DEFINE r == [upload[w] EXCEPT !.pc = "done", !.stream = "none", !.answer = "lost"]
  <2>1. upload'[w] = IF upload[w].primary = p /\ upload[w].pc # "done" THEN r ELSE upload[w]
    BY DEF Crash
  <2>2. upload[w] \in Handlers
    BY <1>7
  <2>3. /\ r \in Handlers /\ r.pc = "done" /\ r.answer = "lost"
        /\ r.primary = upload[w].primary /\ r.among = upload[w].among
        /\ r.targets = upload[w].targets /\ r.pending = upload[w].pending
        /\ r.failed = upload[w].failed
    BY <2>2 DEF Handlers
  <2> HIDE DEF r
  <2>4. CASE upload[w].primary = p /\ upload[w].pc # "done"
    <3>1. upload'[w] = r
      BY <2>1, <2>4
    <3> QED
      BY <2>3, <2>4, <3>1
  <2>5. CASE ~(upload[w].primary = p /\ upload[w].pc # "done")
    <3>1. upload'[w] = upload[w]
      BY <2>1, <2>5
    <3> QED
      BY <2>2, <2>5, <3>1
  <2> QED
    BY <2>4, <2>5
<1>9. upload' \in [Uploads -> Handlers]
  <2>1. upload' = [u \in Uploads |-> upload'[u]]
    BY DEF Crash
  <2>2. \A u \in Uploads : upload'[u] \in Handlers
    BY <1>8
  <2> QED
    BY <2>1, <2>2
<1>10. SvcTypes'
  BY <1>1, <1>4, <1>9 DEF SvcInv, SvcTypes, FileTypes
<1>11. StartsAtZero' /\ FilesOfObject'
  BY <1>1, <1>6 DEF SvcInv, StartsAtZero, FilesOfObject
<1>12. Undisturbed'
  <2>1. \A v \in Uploads : Live(v)' => Live(v)
    BY <1>8 DEF Live
  <2> QED
    BY <1>1, <1>6, <2>1 DEF SvcInv, Undisturbed
<1>13. ASSUME NEW w \in Uploads PROVE PutOfHandler(w)' /\ Placed(w)' /\ Stored(w)'
  <2>1. PutOfHandler(w) /\ Placed(w) /\ Stored(w)
    BY DEF SvcInv
  <2>2. PutOfHandler(w)'
    <3>1. upload'[w].pc # "idle" => upload'[w].primary \in Servers
      BY <1>8, <2>1 DEF PutOfHandler
    <3>2. ASSUME NEW n \in Nodes, put'[n][w].pc # "idle"
          PROVE  n = upload'[w].primary /\ upload'[w].pc \notin {"idle", "receive"}
      BY <1>6, <1>8, <2>1, <3>2 DEF PutOfHandler
    <3>3. ASSUME NEW n \in Nodes, Running(n, w)' PROVE upload'[w].pc = "put"
      <4>1. n # p /\ Running(n, w)
        BY <1>6, <3>3
      <4>2. n = upload[w].primary /\ upload[w].pc = "put"
        BY <2>1, <4>1 DEF PutOfHandler, Running
      <4> QED
        BY <1>8, <4>1, <4>2
    <3>4. ASSUME NEW n \in Nodes, put'[n][w].answer # "none" PROVE put'[n][w].pc = "done"
      BY <1>6, <2>1, <3>4 DEF PutOfHandler
    <3> QED
      BY <3>1, <3>2, <3>3, <3>4 DEF PutOfHandler
  <2>3. Placed(w)'
    <3>1. upload[w].primary \in Nodes /\ put[upload[w].primary][w].pc # "idle"
            => put'[upload[w].primary][w].pc # "idle"
      BY <1>3, <1>5
    <3>2. upload[w].targets # {} => upload[w].primary \in Nodes
      BY <2>1, <1>7 DEF Placed, Handlers
    <3>3. Enough(upload[w]) => Enough(upload'[w])
      BY <1>8 DEF Enough
    <3>4. \/ upload'[w] = upload[w]
          \/ upload'[w].pc = "done" /\ upload'[w].answer = "lost"
      BY <1>8
    <3> QED
      BY <1>8, <2>1, <3>1, <3>2, <3>3, <3>4 DEF Placed
  <2>4. Reached(upload'[w]) = Reached(upload[w])
    BY <1>8 DEF Reached
  <2>5. Stored(w)'
    BY <1>1, <1>6, <2>1, <2>4 DEF Stored, Holds
  <2> QED
    BY <2>2, <2>3, <2>5
<1>14. KeepsAnswers
  <2> SUFFICES ASSUME NEW w \in Uploads, upload[w].pc \in {"respond", "done"},
                      upload[w].targets # {}, upload[w].pending = {}, upload[w].failed = {},
                      NEW n, n = upload[w].primary
               PROVE  /\ upload'[w].pc \in {"respond", "done"}
                      /\ upload'[w].targets = upload[w].targets
                      /\ upload'[w].primary = n
                      /\ upload'[w].pending = {} /\ upload'[w].failed = {}
                      /\ put[n][w].answer = "created" => put'[n][w].answer = "created"
    BY DEF KeepsAnswers
  <2>1. n \in Nodes
    BY <1>7 DEF SvcInv, Placed, Handlers
  <2>2. ~Running(n, w)
    BY <2>1, NoPutRuns
  <2>3. put'[n][w] = put[n][w]
    BY <1>5, <2>1, <2>2
  <2> QED
    BY <1>8, <2>3
<1>15. RecordsDescribe'
  BY <1>1, <1>14, RecordsStay
<1> QED
  BY <1>10, <1>11, <1>12, <1>13, <1>15 DEF SvcInv
\* A put reaches the primary: from here on the upload has rivals.
LEMMA PutLocallySvc ==
  ASSUME SvcInv, NEW u \in Uploads, PutLocally(u)
  PROVE  SvcInv'
<1> DEFINE n == upload[u].primary
           p == [put[n][u] EXCEPT !.pc = "create"]
           r == [upload[u] EXCEPT !.pc = "put", !.stream = "none"]
<1>1. /\ upload[u].pc = "receive" /\ put[n][u].pc = "idle"
      /\ put' = [put EXCEPT ![n][u] = p]
      /\ upload' = [upload EXCEPT ![u] = r]
      /\ UNCHANGED <<tmp, path, data, publisher, ring, segments>>
  BY DEF PutLocally, Receive
<1>2. upload[u] \in Handlers /\ PutOfHandler(u) /\ Placed(u) /\ put \in [Nodes -> [Uploads -> Puts]]
  BY DEF SvcInv, SvcTypes, FileTypes
<1>3. n \in Servers /\ n \in Nodes
  BY <1>1, <1>2, ServersAssumption DEF PutOfHandler
<1>4. put[n][u] \in Puts /\ put[n][u].offset = 0
  BY <1>1, <1>2, <1>3 DEF SvcInv, StartsAtZero
<1>5. p \in Puts /\ p.pc = "create" /\ p.offset = 0 /\ p.answer = put[n][u].answer
  BY <1>4 DEF Puts
<1>6. /\ r \in Handlers /\ r.pc = "put" /\ r.primary = n /\ r.answer = upload[u].answer
      /\ r.targets = upload[u].targets /\ r.pending = upload[u].pending
      /\ r.failed = upload[u].failed
  BY <1>2 DEF Handlers
<1> HIDE DEF n, p, r
<1>7. /\ put' \in [Nodes -> [Uploads -> Puts]]
      /\ put'[n][u] = p
      /\ \A m \in Nodes, w \in Uploads : (m # n \/ w # u) => put'[m][w] = put[m][w]
  BY <1>1, <1>2, <1>3, <1>5
<1>8. /\ upload' \in [Uploads -> Handlers] /\ upload'[u] = r
      /\ \A w \in Uploads \ {u} : upload'[w] = upload[w]
  BY <1>1, <1>6, OneHandler DEF SvcInv
<1>9. overlapped' \subseteq Nodes \X Uploads
  <2>1. overlapped \subseteq Nodes \X Uploads
    BY DEF SvcInv, SvcTypes, FileTypes
  <2> QED
    BY <1>3, <2>1 DEF PutLocally, Receive, n
<1>10. /\ disturbed \subseteq disturbed' /\ disturbed' \subseteq Uploads
       /\ \A v \in Rivals(u) : v \in disturbed' /\ (Live(v) => u \in disturbed')
  BY DEF PutLocally, Rivals, SvcInv, SvcTypes
<1>11. SvcTypes'
  BY <1>1, <1>7, <1>8, <1>9, <1>10 DEF SvcInv, SvcTypes, FileTypes
<1>12. StartsAtZero'
  BY <1>5, <1>7 DEF SvcInv, StartsAtZero
<1>13. FilesOfObject'
  BY <1>1, <1>5, <1>7 DEF SvcInv, FilesOfObject
<1>14. Undisturbed'
  <2> SUFFICES ASSUME NEW m \in Nodes, NEW a \in Uploads, NEW b \in Uploads, a # b,
                      Object[a] = Object[b], put'[m][a].pc # "idle", a \notin disturbed'
               PROVE  ~Live(b)'
    BY DEF Undisturbed
  <2>1. CASE b = u
    <3>1. put[m][a].pc # "idle"
      BY <1>7, <2>1
    <3>2. upload[a].pc \notin {"idle", "receive"}
      BY <3>1 DEF SvcInv, PutOfHandler
    <3>3. a \in Rivals(u)
      BY <2>1, <3>2 DEF Rivals
    <3> QED
      BY <1>10, <3>3
  <2>2. CASE b # u
    <3> SUFFICES ASSUME Live(b) PROVE FALSE
      BY <1>8, <2>2 DEF Live
    <3>1. CASE a = u
      <4>1. b \in Rivals(u)
        BY <2>2, <3>1, LiveHandler DEF Rivals
      <4> QED
        BY <1>10, <3>1, <4>1
    <3>2. CASE a # u
      <4>1. put[m][a].pc # "idle" /\ a \notin disturbed
        BY <1>7, <1>10, <3>2
      <4> QED
        BY <4>1 DEF SvcInv, Undisturbed
    <3> QED
      BY <3>1, <3>2
  <2> QED
    BY <2>1, <2>2
<1>15. ASSUME NEW w \in Uploads PROVE PutOfHandler(w)' /\ Placed(w)' /\ Stored(w)'
  <2>1. CASE w = u
    <3>1. upload[u].targets = {} /\ upload[u].pending = {} /\ upload[u].failed = {}
          /\ upload[u].answer # "complete"
      BY <1>1, <1>2 DEF Placed
    <3>2. \A m \in Nodes : put[m][u].pc = "idle" /\ put[m][u].answer = "none"
      BY <1>1, <1>2 DEF PutOfHandler
    <3>3. \A m \in Nodes : put'[m][u].pc \in {"idle", "create"} /\ put'[m][u].answer = "none"
      BY <1>3, <1>5, <1>7, <3>2
    <3>4. PutOfHandler(u)'
      BY <1>3, <1>6, <1>7, <1>8, <3>2, <3>3 DEF PutOfHandler, Running
    <3>5. Placed(u)'
      BY <1>6, <1>8, <3>1 DEF Placed
    <3>6. Stored(u)'
      BY <1>6, <1>8, <3>1, <3>3 DEF Stored, Reached
    <3> QED
      BY <2>1, <3>4, <3>5, <3>6
  <2>2. CASE w # u
    <3>1. \A m \in Nodes : put'[m][w] = put[m][w]
      BY <1>7, <2>2
    <3>2. upload'[w] = upload[w]
      BY <1>8, <2>2
    <3>3. PutOfHandler(w) /\ Placed(w) /\ Stored(w)
      BY DEF SvcInv
    <3>4. PutOfHandler(w)'
      BY <3>1, <3>2, <3>3 DEF PutOfHandler, Running
    <3>5. Placed(w)'
      <4>1. upload[w].targets # {} => upload[w].primary \in Nodes
        BY <3>3 DEF Placed, SvcInv, SvcTypes, Handlers
      <4> QED
        BY <3>1, <3>2, <3>3, <4>1 DEF Placed, Enough
    <3>6. Stored(w)'
      BY <1>1, <1>10, <3>1, <3>2, <3>3 DEF Stored, Holds
    <3> QED
      BY <3>4, <3>5, <3>6
  <2> QED
    BY <2>1, <2>2
<1>16. KeepsAnswers
  <2> SUFFICES ASSUME NEW w \in Uploads, upload[w].pc \in {"respond", "done"},
                      upload[w].targets # {}
               PROVE  upload'[w] = upload[w]
                      /\ put'[upload[w].primary][w] = put[upload[w].primary][w]
    BY DEF KeepsAnswers
  <2>1. w # u
    BY <1>1
  <2>2. upload[w].primary \in Nodes
    BY DEF SvcInv, Placed, SvcTypes, Handlers
  <2> QED
    BY <1>7, <1>8, <2>1, <2>2
<1>17. RecordsDescribe'
  BY <1>1, <1>16, RecordsStay
<1> QED
  BY <1>11, <1>12, <1>13, <1>14, <1>15, <1>17 DEF SvcInv
-----------------------------------------------------------------------------
\* A step for upload v on node n touches the files of its object there only.
OnlyTouches(n, v) ==
  /\ \A m \in Nodes, o \in Objects :
       \/ tmp'[m][o] = tmp[m][o]
       \/ m = n /\ o = Object[v] /\ (tmp'[m][o] # NoFile => Object[tmp'[m][o]] = o)
  /\ \A m \in Nodes, o \in Objects :
       \/ path'[m][o] = path[m][o]
       \/ m = n /\ o = Object[v] /\ (path'[m][o] # NoFile => Object[path'[m][o]] = o)
  /\ \A m \in Nodes, f \in Uploads :
       data'[m][f] = data[m][f] \/ (m = n /\ Object[f] = Object[v])

\* It takes nothing from the other uploads: those of another object have other
\* files, and those of the same one are disturbed, or have stored nothing.
LEMMA OthersStored ==
  ASSUME SvcInv, NEW n \in Nodes, NEW v \in Uploads, Live(v), OnlyTouches(n, v),
         NEW u \in Uploads \ {v}, \A m \in Nodes : put'[m][u] = put[m][u],
         upload'[u] = upload[u], disturbed' = disturbed
  PROVE  PutOfHandler(u)' /\ Placed(u)' /\ Stored(u)'
<1>1. PutOfHandler(u) /\ Placed(u) /\ Stored(u) /\ upload[u] \in Handlers
  BY DEF SvcInv, SvcTypes
<1>2. upload[u].targets \subseteq Nodes
  BY <1>1 DEF Handlers
<1>3. PutOfHandler(u)'
  BY <1>1 DEF PutOfHandler, Running
<1>4. Placed(u)'
  <2>1. upload[u].targets # {} => upload[u].primary \in Nodes
    BY <1>1, <1>2 DEF Placed
  <2> QED
    BY <1>1, <2>1 DEF Placed, Enough
<1>5. CASE \A m \in Nodes : put[m][u].pc = "idle"
  <2>1. upload[u].targets = {}
    BY <1>1, <1>2, <1>5 DEF Placed
  <2>2. \A m \in Nodes : put[m][u].answer = "none"
    BY <1>1, <1>5 DEF PutOfHandler
  <2>3. Stored(u)'
    BY <1>5, <2>1, <2>2 DEF Stored, Reached
  <2> QED
    BY <1>3, <1>4, <2>3
<1>6. CASE \E m \in Nodes : put[m][u].pc # "idle"
  <2> SUFFICES ASSUME u \notin disturbed
               PROVE  /\ \A m \in Nodes : put[m][u].pc = "write" =>
                           /\ tmp'[m][Object[u]] = put[m][u].fd
                           /\ data'[m][put[m][u].fd] = [i \in 1..put[m][u].offset |-> u]
                      /\ \A m \in Nodes : Holds(m, u) => Holds(m, u)'
    <3>1. ASSUME u \in disturbed' PROVE Stored(u)'
      BY <3>1 DEF Stored
    <3>2. ASSUME u \notin disturbed',
                 \A m \in Nodes : put[m][u].pc = "write" =>
                   /\ tmp'[m][Object[u]] = put[m][u].fd
                   /\ data'[m][put[m][u].fd] = [i \in 1..put[m][u].offset |-> u],
                 \A m \in Nodes : Holds(m, u) => Holds(m, u)'
          PROVE  Stored(u)'
      <4>1. \A m \in Reached(upload[u]) : m \in Nodes
        BY <1>2 DEF Reached
      <4> QED
        BY <1>1, <3>2, <4>1 DEF Stored
    <3> QED
      BY <1>3, <1>4, <3>1, <3>2
  <2>1. Object[u] # Object[v] /\ Object[u] \in Objects
    BY <1>6, ObjectAssumption DEF SvcInv, Undisturbed
  <2>2. ASSUME NEW m \in Nodes, put[m][u].pc = "write"
        PROVE  /\ tmp'[m][Object[u]] = put[m][u].fd
               /\ data'[m][put[m][u].fd] = [i \in 1..put[m][u].offset |-> u]
    <3>1. put[m][u].fd \in Uploads /\ Object[put[m][u].fd] = Object[u]
      BY <2>2 DEF SvcInv, FilesOfObject
    <3>2. /\ tmp[m][Object[u]] = put[m][u].fd
          /\ data[m][put[m][u].fd] = [i \in 1..put[m][u].offset |-> u]
      BY <1>1, <2>2 DEF Stored
    <3> QED
      BY <2>1, <3>1, <3>2 DEF OnlyTouches
  <2>3. ASSUME NEW m \in Nodes, Holds(m, u) PROVE Holds(m, u)'
    <3>1. path[m][Object[u]] \in Uploads /\ Object[path[m][Object[u]]] = Object[u]
      BY <2>1, <2>3 DEF Holds, SvcInv, FilesOfObject, SvcTypes, FileTypes
    <3>2. path'[m][Object[u]] = path[m][Object[u]]
      BY <2>1 DEF OnlyTouches
    <3>3. data'[m][path[m][Object[u]]] = data[m][path[m][Object[u]]]
      BY <2>1, <3>1 DEF OnlyTouches
    <3> QED
      BY <2>3, <3>2, <3>3 DEF Holds
  <2> QED
    BY <2>2, <2>3
<1> QED
  BY <1>5, <1>6

\* A step of an upload in progress on the files of one node.
LEMMA FilesMove ==
  ASSUME SvcInv, NEW n \in Nodes, NEW v \in Uploads, Live(v), OnlyTouches(n, v), FileTypes',
         \A m \in Nodes, w \in Uploads : (m # n \/ w # v) => put'[m][w] = put[m][w],
         \/ put'[n][v] = put[n][v]
         \/ /\ put[n][v].pc # "idle" /\ put'[n][v].pc \in {"write", "remove", "done"}
            /\ put'[n][v].pc = "write" =>
                 put'[n][v].fd \in Uploads /\ Object[put'[n][v].fd] = Object[v],
         NEW r \in Handlers, upload' = [upload EXCEPT ![v] = r],
         UNCHANGED <<ring, segments, disturbed>>,
         PutOfHandler(v)', Placed(v)', Stored(v)'
  PROVE  SvcInv'
<1>1. /\ upload' \in [Uploads -> Handlers] /\ upload'[v] = r
      /\ \A w \in Uploads \ {v} : upload'[w] = upload[w]
  BY OneHandler DEF SvcInv
<1>2. SvcTypes'
  BY <1>1 DEF SvcInv, SvcTypes
<1>3. StartsAtZero'
  BY DEF SvcInv, StartsAtZero
<1>4. FilesOfObject'
  <2>1. \A m \in Nodes, o \in Objects : tmp'[m][o] # NoFile => Object[tmp'[m][o]] = o
    BY DEF SvcInv, FilesOfObject, OnlyTouches
  <2>2. \A m \in Nodes, o \in Objects : path'[m][o] # NoFile => Object[path'[m][o]] = o
    BY DEF SvcInv, FilesOfObject, OnlyTouches
  <2>3. \A m \in Nodes, u \in Uploads :
          put'[m][u].pc = "write" => put'[m][u].fd \in Uploads /\ Object[put'[m][u].fd] = Object[u]
    BY DEF SvcInv, FilesOfObject
  <2> QED
    BY <2>1, <2>2, <2>3 DEF FilesOfObject
<1>5. Undisturbed'
  <2>1. \A w \in Uploads : Live(w)' => Live(w)
    BY <1>1 DEF Live
  <2>2. \A m \in Nodes, w \in Uploads : put'[m][w].pc # "idle" => put[m][w].pc # "idle"
    OBVIOUS
  <2> QED
    BY <2>1, <2>2 DEF SvcInv, Undisturbed
<1>6. ASSUME NEW u \in Uploads \ {v} PROVE PutOfHandler(u)' /\ Placed(u)' /\ Stored(u)'
  BY <1>1, OthersStored
<1>7. KeepsAnswers
  <2> SUFFICES ASSUME NEW w \in Uploads, upload[w].pc \in {"respond", "done"},
                      upload[w].targets # {}, upload[w].pending = {}
               PROVE  upload'[w] = upload[w]
                      /\ put'[upload[w].primary][w] = put[upload[w].primary][w]
    BY DEF KeepsAnswers
  <2>1. w # v
    BY DEF Live
  <2>2. upload[w].primary \in Nodes
    BY DEF SvcInv, Placed, SvcTypes, Handlers
  <2> QED
    BY <1>1, <2>1, <2>2
<1>8. RecordsDescribe'
  BY <1>7, RecordsStay
<1> QED
  BY <1>2, <1>3, <1>4, <1>5, <1>6, <1>8 DEF SvcInv

\* A replica, or S3, has carried out a call, or the call has failed.
LEMMA CallSvc ==
  ASSUME SvcInv, NEW u \in Uploads, NEW t \in upload[u].pending,
         CallSucceeds(u, t) \/ CallFails(u, t)
  PROVE  SvcInv'
<1>1. /\ upload[u] \in Handlers /\ PutOfHandler(u) /\ Placed(u) /\ Stored(u) /\ FileTypes
      /\ upload \in [Uploads -> Handlers]
  BY DEF SvcInv, SvcTypes
<1>2. /\ t \in Nodes \cup {S3} /\ t # upload[u].primary /\ Live(u)
      /\ upload[u].pc \notin {"idle", "receive", "put"}
  BY <1>1 DEF Placed, Live, Handlers
<1>3. upload[u].primary \in Nodes /\ upload[u].targets \subseteq Nodes
  BY <1>1, <1>2, ServersAssumption DEF PutOfHandler, Handlers
<1> DEFINE good == [upload[u] EXCEPT !.pending = @ \ {t}]
           bad  == [upload[u] EXCEPT !.pending = @ \ {t}, !.failed = @ \cup {t}]
<1>4. PICK r : /\ upload' = [upload EXCEPT ![u] = r]
               /\ \/ r = good /\ StoredAt(t, u)
                  \/ r = bad /\ (StoredAt(t, u) \/ UNCHANGED fsDisk)
  <2>1. CASE CallSucceeds(u, t)
    BY <2>1 DEF CallSucceeds
  <2>2. CASE CallFails(u, t)
    BY <2>2 DEF CallFails
  <2> QED
    BY <2>1, <2>2
<1>5. UNCHANGED <<ring, segments, disturbed>>
  BY DEF CallSucceeds, CallFails
<1>6. /\ r \in Handlers /\ r.pc = upload[u].pc /\ r.primary = upload[u].primary
      /\ r.among = upload[u].among /\ r.targets = upload[u].targets
      /\ r.answer = upload[u].answer /\ r.pending = upload[u].pending \ {t}
      /\ upload[u].failed \subseteq r.failed
      /\ t \in r.failed \/ StoredAt(t, u)
  <2>1. /\ good \in Handlers /\ good.pc = upload[u].pc /\ good.primary = upload[u].primary
        /\ good.among = upload[u].among /\ good.targets = upload[u].targets
        /\ good.answer = upload[u].answer /\ good.pending = upload[u].pending \ {t}
        /\ good.failed = upload[u].failed
    BY <1>1 DEF Handlers
  <2>2. /\ bad \in Handlers /\ bad.pc = upload[u].pc /\ bad.primary = upload[u].primary
        /\ bad.among = upload[u].among /\ bad.targets = upload[u].targets
        /\ bad.answer = upload[u].answer /\ bad.pending = upload[u].pending \ {t}
        /\ bad.failed = upload[u].failed \cup {t}
    BY <1>1, <1>2 DEF Handlers
  <2> HIDE DEF good, bad
  <2>3. CASE r = good /\ StoredAt(t, u)
    BY <2>1, <2>3
  <2>4. CASE r = bad
    BY <2>2, <2>4
  <2> QED
    BY <1>4, <2>3, <2>4
<1> HIDE DEF good, bad
<1>7. /\ upload'[u] = r
      /\ \A w \in Uploads \ {u} : upload'[w] = upload[w]
  BY <1>4, <1>6, OneHandler DEF SvcInv
<1>8. UNCHANGED <<tmp, put, overlapped>>
  BY <1>4 DEF StoredAt, fsDisk
<1>9. \/ UNCHANGED <<path, data, publisher>> /\ (t \in Nodes => t \in r.failed)
      \/ /\ t \in Nodes
         /\ path' = [path EXCEPT ![t][Object[u]] = u]
         /\ data' = [data EXCEPT ![t][u] = Whole(u)]
         /\ publisher' = [publisher EXCEPT ![t][u] = u]
  <2>1. CASE UNCHANGED fsDisk /\ t \in r.failed
    BY <2>1 DEF fsDisk
  <2>2. CASE StoredAt(t, u) /\ t = S3
    BY <2>2, S3Assumption DEF StoredAt
  <2>3. CASE StoredAt(t, u) /\ t # S3
    BY <1>2, <2>3 DEF StoredAt
  <2>4. \/ StoredAt(t, u)
        \/ UNCHANGED fsDisk /\ t \in r.failed
    BY <1>4, <1>6
  <2> QED
    BY <2>1, <2>2, <2>3, <2>4
<1>10. PICK whole \in Seq(Uploads \cup {Hole}) : whole = Whole(u)
  <2>1. Length[u] \in Nat
    BY LengthAssumption
  <2>2. [i \in 1..Length[u] |-> u] \in Seq(Uploads \cup {Hole})
    BY <2>1
  <2> QED
    BY <2>2 DEF Whole
<1>11. /\ \A m \in Nodes, o \in Objects :
            path'[m][o] = path[m][o] \/ (m = t /\ o = Object[u] /\ path'[m][o] = u)
       /\ \A m \in Nodes, f \in Uploads :
            data'[m][f] = data[m][f] \/ (m = t /\ f = u)
       /\ t \in Nodes /\ t \notin r.failed => path'[t][Object[u]] = u /\ data'[t][u] = whole
       /\ FileTypes'
  <2>1. CASE UNCHANGED <<path, data, publisher>> /\ (t \in Nodes => t \in r.failed)
    BY <1>1, <1>8, <2>1 DEF FileTypes
  <2>2. CASE /\ t \in Nodes
             /\ path' = [path EXCEPT ![t][Object[u]] = u]
             /\ data' = [data EXCEPT ![t][u] = Whole(u)]
             /\ publisher' = [publisher EXCEPT ![t][u] = u]
    <3>1. /\ path \in [Nodes -> [Objects -> Uploads \cup {NoFile}]] /\ Object[u] \in Objects
          /\ data \in [Nodes -> [Uploads -> Seq(Uploads \cup {Hole})]]
          /\ publisher \in [Nodes -> [Uploads -> Uploads \cup {NoFile}]]
      BY <1>1, ObjectAssumption DEF FileTypes
    <3>2. /\ path' \in [Nodes -> [Objects -> Uploads \cup {NoFile}]]
          /\ path'[t][Object[u]] = u
          /\ \A m \in Nodes, o \in Objects : (m # t \/ o # Object[u]) => path'[m][o] = path[m][o]
      BY <2>2, <3>1
    <3>3. /\ data' \in [Nodes -> [Uploads -> Seq(Uploads \cup {Hole})]]
          /\ data'[t][u] = whole
          /\ \A m \in Nodes, f \in Uploads : (m # t \/ f # u) => data'[m][f] = data[m][f]
      BY <1>10, <2>2, <3>1
    <3>4. publisher' \in [Nodes -> [Uploads -> Uploads \cup {NoFile}]]
      BY <2>2, <3>1
    <3> QED
      BY <1>1, <1>8, <3>2, <3>3, <3>4 DEF FileTypes
  <2> QED
    BY <1>9, <2>1, <2>2
<1>12. PICK n \in Nodes : t \in Nodes => n = t
  BY <1>3
<1>13. OnlyTouches(n, u)
  BY <1>8, <1>11, <1>12 DEF OnlyTouches
<1>14. PutOfHandler(u)' /\ Placed(u)'
  <2>1. PutOfHandler(u)'
    BY <1>1, <1>6, <1>7, <1>8 DEF PutOfHandler, Running
  <2>2. upload[u].answer # "complete"
    BY <1>1 DEF Placed
  <2>3. Placed(u)'
    BY <1>1, <1>2, <1>6, <1>7, <1>8, <2>2 DEF Placed, Enough
  <2> QED
    BY <2>1, <2>3
<1>15. Stored(u)'
  <2>1. ASSUME NEW m \in Nodes PROVE put'[m][u].pc # "write"
    BY <1>2, <1>8, NoPutRuns DEF Running
  <2>2. ASSUME NEW m \in Nodes, m # t, Holds(m, u) PROVE Holds(m, u)'
    <3>1. path[m][Object[u]] \in Uploads /\ Object[u] \in Objects
      BY <1>1, <2>2, ObjectAssumption DEF Holds, FileTypes
    <3>2. /\ path'[m][Object[u]] = path[m][Object[u]]
          /\ data'[m][path[m][Object[u]]] = data[m][path[m][Object[u]]]
      BY <1>11, <2>2, <3>1
    <3> QED
      BY <2>2, <3>2 DEF Holds
  <2>3. ASSUME u \notin disturbed, NEW m \in Nodes, put'[m][u].answer = "created"
        PROVE  Holds(m, u)'
    <3>1. m = upload[u].primary
      BY <1>1, <1>8, <2>3 DEF PutOfHandler
    <3>2. Holds(m, u)
      BY <1>1, <1>8, <2>3 DEF Stored
    <3> QED
      BY <1>2, <2>2, <3>1, <3>2
  <2>4. ASSUME u \notin disturbed, NEW m \in Reached(r) PROVE Holds(m, u)'
    <3>1. /\ m \in Nodes /\ m \notin r.failed
          /\ m \in Reached(upload[u]) \/ m = t
      BY <1>3, <1>6, <2>4 DEF Reached
    <3>2. CASE m = t
      <4>1. path'[m][Object[u]] = u /\ data'[m][u] = Whole(u)
        BY <1>10, <1>11, <3>1, <3>2
      <4> QED
        BY <4>1, NoFileAssumption DEF Holds
    <3>3. CASE m # t /\ m \in Reached(upload[u])
      <4>1. Holds(m, u)
        BY <1>1, <2>4, <3>3 DEF Stored
      <4> QED
        BY <2>2, <3>1, <3>3, <4>1
    <3> QED
      BY <3>1, <3>2, <3>3
  <2> QED
    BY <1>5, <1>7, <2>1, <2>3, <2>4 DEF Stored
<1> QED
  BY <1>2, <1>4, <1>5, <1>6, <1>8, <1>11, <1>13, <1>14, <1>15, FilesMove
-----------------------------------------------------------------------------
\* The put of an upload goes on, in the state p.
LEMMA PutGoesOn ==
  ASSUME SvcInv, NEW n \in Nodes, NEW u \in Uploads, Running(n, u), OnlyTouches(n, u),
         NEW p \in Puts, put' = [put EXCEPT ![n][u] = p], FileTypes', UNCHANGED svcVars,
         p.pc \in {"write", "remove", "done"}, p.answer # "none" => p.pc = "done",
         p.pc = "write" => p.fd \in Uploads /\ Object[p.fd] = Object[u],
         u \notin disturbed =>
           /\ p.pc = "write" => /\ tmp'[n][Object[u]] = p.fd
                                /\ data'[n][p.fd] = [i \in 1..p.offset |-> u]
           /\ p.answer = "created" => Holds(n, u)'
  PROVE  SvcInv'
<1>1. /\ upload \in [Uploads -> Handlers] /\ upload[u] \in Handlers
      /\ put \in [Nodes -> [Uploads -> Puts]]
      /\ PutOfHandler(u) /\ Placed(u)
  BY DEF SvcInv, SvcTypes, FileTypes
<1>2. UNCHANGED <<ring, segments, upload, disturbed>>
  BY DEF svcVars
<1>3. upload' = [upload EXCEPT ![u] = upload[u]]
  BY <1>1, <1>2
<1>4. /\ upload[u].pc = "put" /\ upload[u].primary = n /\ Live(u)
      /\ put[n][u].pc # "idle"
  BY <1>1 DEF PutOfHandler, Running, Live
<1>5. /\ put'[n][u] = p
      /\ \A m \in Nodes, w \in Uploads : (m # n \/ w # u) => put'[m][w] = put[m][w]
  BY <1>1
<1>6. \A m \in Nodes : m # n => put[m][u].pc = "idle" /\ put[m][u].answer = "none"
  BY <1>1, <1>4 DEF PutOfHandler
<1>7. \A m \in Nodes : m # n => put'[m][u].pc = "idle" /\ put'[m][u].answer = "none"
  BY <1>5, <1>6
<1>8. PutOfHandler(u)'
  <2>1. upload'[u].pc = "put" /\ upload'[u].primary = n /\ n \in Servers
    BY <1>1, <1>2, <1>4 DEF PutOfHandler
  <2> QED
    BY <1>5, <1>7, <2>1 DEF PutOfHandler, Running
<1>9. upload[u].targets = {} /\ upload[u].answer # "complete"
  BY <1>1, <1>4 DEF Placed
<1>10. Placed(u)'
  BY <1>1, <1>2, <1>4, <1>9 DEF Placed
<1>11. Stored(u)'
  BY <1>2, <1>5, <1>7, <1>9 DEF Stored, Reached
<1>12. \/ put'[n][u] = put[n][u]
       \/ /\ put[n][u].pc # "idle" /\ put'[n][u].pc \in {"write", "remove", "done"}
          /\ put'[n][u].pc = "write" =>
               put'[n][u].fd \in Uploads /\ Object[put'[n][u].fd] = Object[u]
  BY <1>4, <1>5
<1> QED
  BY <1>1, <1>2, <1>3, <1>4, <1>5, <1>8, <1>10, <1>11, <1>12, FilesMove

\* The put fails, or is about to: the file under .tmp may go.
LEMMA PutFailsSvc ==
  ASSUME SvcInv, NEW n \in Nodes, NEW u \in Uploads, UNCHANGED svcVars,
         \/ CreateFails(n, u) \/ CopyFails(n, u) \/ SyncFails(n, u)
         \/ RenameFails(n, u) \/ RemoveTmp(n, u)
  PROVE  SvcInv'
<1>1. FileTypes /\ put[n][u] \in Puts /\ Object[u] \in Objects
  BY ObjectAssumption DEF SvcInv, SvcTypes, FileTypes
<1> DEFINE removing == [put[n][u] EXCEPT !.pc = "remove"]
<1>2. PICK p : /\ put' = [put EXCEPT ![n][u] = p]
               /\ \/ p = removing /\ (SyncFails(n, u) \/ RenameFails(n, u))
                  \/ p = Ended("failed") \/ p = Ended("empty")
  <2>1. CASE SyncFails(n, u) \/ RenameFails(n, u)
    BY <2>1 DEF SyncFails, RenameFails
  <2>2. CASE CreateFails(n, u) \/ RemoveTmp(n, u)
    BY <2>2 DEF CreateFails, RemoveTmp, Answered
  <2>3. CASE CopyFails(n, u)
    BY <2>3 DEF CopyFails, Answered
  <2> QED
    BY <2>1, <2>2, <2>3
<1>3. Running(n, u)
  BY DEF CreateFails, CopyFails, SyncFails, RenameFails, RemoveTmp, Running
<1>4. /\ p \in Puts /\ p.pc \in {"remove", "done"} /\ p.answer # "created"
      /\ p.answer # "none" => p.pc = "done"
  <2>1. CASE p = removing /\ (SyncFails(n, u) \/ RenameFails(n, u))
    <3>1. put[n][u].pc = "write"
      BY <2>1 DEF SyncFails, RenameFails
    <3>2. put[n][u].answer = "none"
      BY <3>1 DEF SvcInv, PutOfHandler
    <3> QED
      BY <1>1, <2>1, <3>2 DEF Puts
  <2>2. CASE p = Ended("failed") \/ p = Ended("empty")
    BY <2>2, EndedPut
  <2> QED
    BY <1>2, <2>1, <2>2
<1> HIDE DEF removing
<1>5. UNCHANGED <<path, data, publisher, overlapped>>
  BY DEF CreateFails, CopyFails, SyncFails, RenameFails, RemoveTmp
<1>6. tmp' = tmp \/ tmp' = [tmp EXCEPT ![n][Object[u]] = NoFile]
  BY DEF CreateFails, CopyFails, SyncFails, RenameFails, RemoveTmp
<1>7. /\ tmp' \in [Nodes -> [Objects -> Uploads \cup {NoFile}]]
      /\ \A m \in Nodes, o \in Objects :
           \/ tmp'[m][o] = tmp[m][o]
           \/ m = n /\ o = Object[u] /\ tmp'[m][o] = NoFile
  <2>1. tmp \in [Nodes -> [Objects -> Uploads \cup {NoFile}]]
    BY <1>1 DEF FileTypes
  <2>2. CASE tmp' = tmp
    BY <2>1, <2>2
  <2>3. CASE tmp' = [tmp EXCEPT ![n][Object[u]] = NoFile]
    BY <1>1, <2>1, <2>3
  <2> QED
    BY <1>6, <2>2, <2>3
<1>8. OnlyTouches(n, u)
  BY <1>5, <1>7 DEF OnlyTouches
<1>9. put' \in [Nodes -> [Uploads -> Puts]]
  BY <1>1, <1>2, <1>4 DEF FileTypes
<1>10. FileTypes'
  BY <1>1, <1>5, <1>7, <1>9 DEF FileTypes
<1> QED
  BY <1>2, <1>3, <1>4, <1>8, <1>10, PutGoesOn

\* os.Create: a file that is there is emptied.
LEMMA CreateSvc ==
  ASSUME SvcInv, NEW n \in Nodes, NEW u \in Uploads, UNCHANGED svcVars, Create(n, u)
  PROVE  SvcInv'
<1>1. FileTypes /\ put[n][u] \in Puts /\ Object[u] \in Objects
  BY ObjectAssumption DEF SvcInv, SvcTypes, FileTypes
<1>2. put[n][u].pc = "create" /\ put[n][u].offset = 0 /\ put[n][u].answer = "none"
  BY <1>1 DEF Create, SvcInv, StartsAtZero, PutOfHandler
<1>3. PICK f : f = IF tmp[n][Object[u]] = NoFile THEN u ELSE tmp[n][Object[u]]
  OBVIOUS
<1>4. f \in Uploads /\ Object[f] = Object[u]
  BY <1>1, <1>3 DEF SvcInv, FilesOfObject, FileTypes
<1> DEFINE p == [put[n][u] EXCEPT !.pc = "write", !.fd = f]
<1>5. /\ p \in Puts /\ p.pc = "write" /\ p.fd = f /\ p.offset = 0 /\ p.answer = "none"
  BY <1>1, <1>2, <1>4 DEF Puts
<1>6. /\ tmp' = [tmp EXCEPT ![n][Object[u]] = f]
      /\ data' = [data EXCEPT ![n][f] = <<>>]
      /\ UNCHANGED <<path, publisher, overlapped>>
  BY <1>3 DEF Create
<1>7. put' = [put EXCEPT ![n][u] = p]
  BY <1>1, <1>3 DEF Create, FileTypes
<1> HIDE DEF p
<1>8. /\ tmp' \in [Nodes -> [Objects -> Uploads \cup {NoFile}]]
      /\ tmp'[n][Object[u]] = f
      /\ \A m \in Nodes, o \in Objects : (m # n \/ o # Object[u]) => tmp'[m][o] = tmp[m][o]
  BY <1>1, <1>4, <1>6 DEF FileTypes
<1>9. /\ data' \in [Nodes -> [Uploads -> Seq(Uploads \cup {Hole})]]
      /\ data'[n][f] = <<>>
      /\ \A m \in Nodes, g \in Uploads : (m # n \/ g # f) => data'[m][g] = data[m][g]
  BY <1>1, <1>4, <1>6 DEF FileTypes
<1>10. put' \in [Nodes -> [Uploads -> Puts]]
  BY <1>1, <1>5, <1>7 DEF FileTypes
<1>11. FileTypes'
  BY <1>1, <1>6, <1>8, <1>9, <1>10 DEF FileTypes
<1>12. OnlyTouches(n, u)
  BY <1>4, <1>6, <1>8, <1>9 DEF OnlyTouches
<1>13. data'[n][p.fd] = [i \in 1..p.offset |-> u]
  BY <1>5, <1>9
<1>14. Running(n, u)
  BY <1>2 DEF Running
<1> QED
  BY <1>4, <1>5, <1>7, <1>8, <1>11, <1>12, <1>13, <1>14, PutGoesOn

\* One chunk is written where the put has got to.
LEMMA WriteSvc ==
  ASSUME SvcInv, NEW n \in Nodes, NEW u \in Uploads, UNCHANGED svcVars, WriteChunk(n, u)
  PROVE  SvcInv'
<1>1. FileTypes /\ put[n][u] \in Puts
  BY DEF SvcInv, SvcTypes, FileTypes
<1>2. put[n][u].pc = "write" /\ put[n][u].answer = "none" /\ put[n][u].offset \in Nat
  BY <1>1 DEF WriteChunk, SvcInv, PutOfHandler, Puts
<1>3. PICK f : f = put[n][u].fd
  OBVIOUS
<1>4. /\ f \in Uploads /\ Object[f] = Object[u]
      /\ u \notin disturbed =>
           tmp[n][Object[u]] = f /\ data[n][f] = [i \in 1..put[n][u].offset |-> u]
  BY <1>2, <1>3 DEF SvcInv, FilesOfObject, Stored
<1> DEFINE p == [put[n][u] EXCEPT !.offset = @ + 1]
           written == Written(data[n][f], p.offset, u)
<1>5. /\ p \in Puts /\ p.pc = "write" /\ p.fd = f /\ p.answer = "none"
      /\ p.offset = put[n][u].offset + 1
  BY <1>1, <1>2, <1>3 DEF Puts
<1>6. /\ put' = [put EXCEPT ![n][u] = p]
      /\ data' = [data EXCEPT ![n][f] = written]
      /\ UNCHANGED <<tmp, path, publisher, overlapped>>
  BY <1>3, <1>5 DEF WriteChunk
<1>7. /\ written \in Seq(Uploads \cup {Hole})
      /\ data[n][f] = [i \in 1..put[n][u].offset |-> u] => written = [i \in 1..p.offset |-> u]
  <2> HIDE DEF p
  <2>1. p.offset \in Nat \ {0} /\ p.offset - 1 = put[n][u].offset
    BY <1>2, <1>5
  <2>2. data[n][f] \in Seq(Uploads \cup {Hole})
    BY <1>1, <1>4 DEF FileTypes
  <2>3. /\ written \in Seq(Uploads \cup {Hole})
        /\ data[n][f] = [i \in 1..(p.offset - 1) |-> u] => written = [i \in 1..p.offset |-> u]
    BY <2>1, <2>2, WrittenContent
  <2> QED
    BY <2>1, <2>3
<1> HIDE DEF p, written
<1>8. /\ data' \in [Nodes -> [Uploads -> Seq(Uploads \cup {Hole})]]
      /\ data'[n][f] = written
      /\ \A m \in Nodes, g \in Uploads : (m # n \/ g # f) => data'[m][g] = data[m][g]
  BY <1>1, <1>4, <1>6, <1>7 DEF FileTypes
<1>9. put' \in [Nodes -> [Uploads -> Puts]]
  BY <1>1, <1>5, <1>6 DEF FileTypes
<1>10. FileTypes'
  BY <1>1, <1>6, <1>8, <1>9 DEF FileTypes
<1>11. OnlyTouches(n, u)
  BY <1>4, <1>6, <1>8 DEF OnlyTouches
<1>12. u \notin disturbed =>
         /\ tmp'[n][Object[u]] = p.fd
         /\ data'[n][p.fd] = [i \in 1..p.offset |-> u]
  BY <1>4, <1>5, <1>6, <1>7, <1>8
<1>13. Running(n, u)
  BY <1>2 DEF Running
<1> QED
  BY <1>4, <1>5, <1>6, <1>10, <1>11, <1>12, <1>13, PutGoesOn

\* An undisturbed upload renames the file that it has written itself.
LEMMA RenameSvc ==
  ASSUME SvcInv, NEW n \in Nodes, NEW u \in Uploads, UNCHANGED svcVars, Rename(n, u)
  PROVE  SvcInv'
<1>1. FileTypes /\ put[n][u] \in Puts /\ Object[u] \in Objects
  BY ObjectAssumption DEF SvcInv, SvcTypes, FileTypes
<1>2. put[n][u].pc = "write" /\ put[n][u].offset = Length[u] /\ tmp[n][Object[u]] # NoFile
  BY DEF Rename
<1>3. PICK f : f = tmp[n][Object[u]]
  OBVIOUS
<1>4. f \in Uploads /\ f # NoFile /\ Object[f] = Object[u]
  BY <1>1, <1>2, <1>3 DEF SvcInv, FilesOfObject, FileTypes
<1>5. u \notin disturbed => data[n][f] = Whole(u)
  BY <1>2, <1>3 DEF SvcInv, Stored, Whole
<1>6. /\ Ended("created") \in Puts /\ Ended("created").pc = "done"
      /\ Ended("created").answer = "created"
  BY EndedPut
<1>7. /\ path' = [path EXCEPT ![n][Object[u]] = f]
      /\ publisher' = [publisher EXCEPT ![n][f] = u]
      /\ tmp' = [tmp EXCEPT ![n][Object[u]] = NoFile]
      /\ put' = [put EXCEPT ![n][u] = Ended("created")]
      /\ UNCHANGED <<data, overlapped>>
  BY <1>3 DEF Rename, Answered
<1>8. /\ tmp' \in [Nodes -> [Objects -> Uploads \cup {NoFile}]]
      /\ \A m \in Nodes, o \in Objects :
           tmp'[m][o] = tmp[m][o] \/ (m = n /\ o = Object[u] /\ tmp'[m][o] = NoFile)
  BY <1>1, <1>7 DEF FileTypes
<1>9. /\ path' \in [Nodes -> [Objects -> Uploads \cup {NoFile}]]
      /\ path'[n][Object[u]] = f
      /\ \A m \in Nodes, o \in Objects : (m # n \/ o # Object[u]) => path'[m][o] = path[m][o]
  BY <1>1, <1>4, <1>7 DEF FileTypes
<1>10. publisher' \in [Nodes -> [Uploads -> Uploads \cup {NoFile}]]
  BY <1>1, <1>7 DEF FileTypes
<1>11. put' \in [Nodes -> [Uploads -> Puts]]
  BY <1>1, <1>6, <1>7 DEF FileTypes
<1>12. FileTypes'
  BY <1>1, <1>7, <1>8, <1>9, <1>10, <1>11 DEF FileTypes
<1>13. OnlyTouches(n, u)
  BY <1>4, <1>7, <1>8, <1>9 DEF OnlyTouches
<1>14. u \notin disturbed => Holds(n, u)'
  BY <1>4, <1>5, <1>7, <1>9 DEF Holds
<1>15. Running(n, u)
  BY <1>2 DEF Running
<1> QED
  BY <1>6, <1>7, <1>12, <1>13, <1>14, <1>15, PutGoesOn

LEMMA LocalStepSvc ==
  ASSUME SvcInv, NEW u \in Uploads, upload[u].primary \in Servers, LocalStep(u)
  PROVE  SvcInv'
<1>1. PICK n \in Nodes : n = upload[u].primary
  BY ServersAssumption
<1>2. PutStep(n, u) /\ UNCHANGED svcVars
  BY <1>1 DEF LocalStep
<1> QED
  BY <1>2, PutFailsSvc, CreateSvc, WriteSvc, RenameSvc DEF PutStep

LEMMA StutterSvc == ASSUME SvcInv, UNCHANGED vars PROVE SvcInv'
<1>1. UNCHANGED <<tmp, path, data, put, publisher, overlapped, ring, segments, upload, disturbed>>
  BY DEF vars, svcVars, fsVars, fsDisk
<1>2. SvcTypes' /\ StartsAtZero' /\ Undisturbed' /\ FilesOfObject'
  BY <1>1 DEF SvcInv, SvcTypes, FileTypes, StartsAtZero, Undisturbed, FilesOfObject, Live
<1>3. KeepsAnswers
  BY <1>1 DEF KeepsAnswers
<1>4. RecordsDescribe'
  BY <1>1, <1>3, RecordsStay
<1>5. ASSUME NEW u \in Uploads PROVE PutOfHandler(u)' /\ Placed(u)' /\ Stored(u)'
  <2>1. PutOfHandler(u) /\ Placed(u) /\ Stored(u)
    BY DEF SvcInv
  <2> QED
    BY <1>1, <2>1 DEF PutOfHandler, Running, Placed, Enough, Stored, Reached, Holds
<1> QED
  BY <1>2, <1>4, <1>5 DEF SvcInv

LEMMA NextSvc == ASSUME SvcInv, Next PROVE SvcInv'
<1>1. ASSUME NEW u \in Uploads, UploadSegment(u) \/ UploadStep(u) PROVE SvcInv'
  BY <1>1, BeginsSvc, FailsSvc, PutLocallySvc, ReplicateSvc, RecordSvc DEF UploadStep
<1>2. ASSUME NEW u \in Uploads, upload[u].primary \in Servers, LocalStep(u) PROVE SvcInv'
  BY <1>2, LocalStepSvc
<1>3. ASSUME NEW u \in Uploads, NEW t \in upload[u].pending,
             CallSucceeds(u, t) \/ CallFails(u, t)
      PROVE  SvcInv'
  BY <1>3, CallSvc
<1>4. ASSUME NEW p \in Servers,
             \/ \E n \in Nodes : Heartbeat(p, n)
             \/ \E S \in SUBSET Nodes : RingMoves(p, S)
      PROVE  SvcInv'
  BY <1>4, RingSvc
<1>5. ASSUME NEW p \in Servers, Crash(p) PROVE SvcInv'
  BY <1>5, CrashSvc
<1> QED
  BY <1>1, <1>2, <1>3, <1>4, <1>5 DEF Next

\* Every variable keeps its type, and what a handler, its put, its calls and
\* its record know of each other agrees, through crashes, failed and late calls
\* and moving rings (service.go:90-190, fs.go:20-60).
THEOREM SvcInvariance == Spec => []SvcInv
<1>1. Init => SvcInv
  BY InitSvc
<1>2. SvcInv /\ [Next]_vars => SvcInv'
  BY NextSvc, StutterSvc
<1> QED
  BY <1>1, <1>2, PTL DEF Spec

\* A target of an undisturbed upload that has answered well holds it.
LEMMA TargetsHold ==
  ASSUME SvcInv, NEW u \in Uploads, u \notin disturbed, LocalAnswer(u) = "created",
         upload[u].targets # {}, upload[u].pending = {}, upload[u].failed = {}
  PROVE  /\ upload[u].targets \subseteq Nodes /\ upload[u].primary \in upload[u].targets
         /\ \A n \in upload[u].targets : Holds(n, u)
<1>1. Placed(u) /\ Stored(u) /\ upload[u] \in Handlers
  BY DEF SvcInv, SvcTypes
<1>2. upload[u].targets \subseteq Nodes /\ upload[u].primary \in upload[u].targets
  BY <1>1 DEF Placed, Handlers
<1>3. Holds(upload[u].primary, u)
  BY <1>1, <1>2 DEF Stored, LocalAnswer
<1>4. \A n \in upload[u].targets : n # upload[u].primary => n \in Reached(upload[u])
  BY DEF Reached
<1> QED
  BY <1>1, <1>2, <1>3, <1>4 DEF Stored

LEMMA SvcBacked == ASSUME SvcInv PROVE RecordBacked
<1> SUFFICES ASSUME NEW o \in Objects, NEW record, record = segments.kv[o].value,
                    record # NoRecord, record.whole, record.upload \notin disturbed
             PROVE  \A n \in record.nodes : Holds(n, record.upload)
  BY DEF RecordBacked
<1>1. record \in SegmentRecords /\ Describes(record)
  BY DEF SvcInv, SvcTypes, RecordsDescribe
<1>2. record.upload \in Uploads
  BY <1>1 DEF SegmentRecords
<1>3. /\ LocalAnswer(record.upload) = "created" /\ upload[record.upload].targets # {}
      /\ upload[record.upload].pending = {} /\ upload[record.upload].failed = {}
      /\ record.nodes = upload[record.upload].targets \cup {upload[record.upload].primary}
  BY <1>1 DEF Describes
<1> QED
  BY <1>2, <1>3, TargetsHold

\* The nodes a record names hold the bytes it describes, whatever crashes,
\* fails or moves after the replicas have answered (storage/metadata.go:26).
THEOREM RecordsAreBacked == Spec => []RecordBacked
BY SvcInvariance, SvcBacked, PTL

LEMMA SvcReplicated == ASSUME SvcInv PROVE FullyReplicated
<1> SUFFICES ASSUME NEW u \in Uploads, upload[u].answer = "complete",
                    LocalAnswer(u) = "created", u \notin disturbed
             PROVE  Cardinality({n \in Nodes : Holds(n, u)})
                      >= Min({ReplicationFactor, Max({1, Cardinality(upload[u].among)})})
  BY DEF FullyReplicated
<1>1. Placed(u) /\ upload[u] \in Handlers
  BY DEF SvcInv, SvcTypes
<1>2. /\ upload[u].targets # {} /\ upload[u].pending = {} /\ upload[u].failed = {}
      /\ Enough(upload[u])
  BY <1>1 DEF Placed
<1> DEFINE copies == {n \in Nodes : Holds(n, u)}
<1>3. upload[u].targets \subseteq copies
  BY <1>2, TargetsHold
<1>4. IsFiniteSet(copies)
  BY NodesFinite, FS_Subset
<1>5. Cardinality(upload[u].targets) <= Cardinality(copies)
  BY <1>3, <1>4, FS_Subset
<1>6. Cardinality(copies) \in Nat /\ Cardinality(upload[u].targets) \in Nat
  BY <1>3, <1>4, FS_Subset, FS_CardinalityType
<1>7. Min({ReplicationFactor, Max({1, Cardinality(upload[u].among)})}) \in Int
  <2>1. upload[u].among \subseteq Nodes
    BY <1>1 DEF Handlers
  <2>2. Cardinality(upload[u].among) \in Int
    BY <2>1, NodesFinite, FS_Subset, FS_CardinalityType
  <2>3. Max({1, Cardinality(upload[u].among)}) \in {1, Cardinality(upload[u].among)}
    <3>1. 1 \in Int
      OBVIOUS
    <3> QED
      BY <2>2, <3>1, MinOfTwo, Zenon
  <2>4. Max({1, Cardinality(upload[u].among)}) \in Int /\ ReplicationFactor \in Int
    BY <2>2, <2>3, FactorAssumption
  <2>5. Min({ReplicationFactor, Max({1, Cardinality(upload[u].among)})})
          \in {ReplicationFactor, Max({1, Cardinality(upload[u].among)})}
    BY <2>4, MinOfTwo, Zenon
  <2> QED
    BY <2>4, <2>5
<1> HIDE DEF copies
<1>8. Cardinality(copies) >= Min({ReplicationFactor, Max({1, Cardinality(upload[u].among)})})
  BY <1>2, <1>5, <1>6, <1>7 DEF Enough
<1> QED
  BY <1>8 DEF copies

\* A response without a failure means as many copies as the replication factor
\* asks for and the ring had nodes for, whatever comes after it
\* (service.go:123-170).
THEOREM Replicated == Spec => []FullyReplicated
BY SvcInvariance, SvcReplicated, PTL
-----------------------------------------------------------------------------
\* Lookup on the ring of any nodes places a segment as the ring promises.
LEMMA RingsExact == ASSUME NEW S \in SUBSET Nodes PROVE Exact(S, Rebuilt(S))
<1> SUFFICES ASSUME NEW h \in 0..Top, NEW r \in 0..(Cardinality(Nodes) + 1)
             PROVE  Lookup(Rebuilt(S), h, r) = Placement(S, h, r)
  BY DEF Exact
<1>1. S \in SUBSET ToSet(RingNodes)
  BY ServersAssumption
<1>2. IsRing(Rebuilt(S), S)
  BY <1>1, RebuiltRing
<1>3. r \in Nat
  BY NodesFinite, FS_CardinalityType
<1>4. /\ Lookup(Rebuilt(S), h, r) = SubSeq(Nearest(S, h), 1, Min({r, Cardinality(S)}))
      /\ Placement(S, h, r) = SubSeq(Nearest(S, h), 1, Min({r, Cardinality(S)}))
  BY <1>1, <1>2, <1>3, LookupPlaces
<1> QED
  BY <1>4

LEMMA RingsStable == ASSUME NEW S \in SUBSET Nodes PROVE Stable(S, Rebuilt(S))
<1> SUFFICES ASSUME NEW n \in S
             PROVE  /\ RemoveNode(Rebuilt(S), n) = Rebuilt(S \ {n})
                    /\ \A h \in 0..Top, r \in 1..Cardinality(Nodes) :
                         IsPrefix(Without(Lookup(Rebuilt(S), h, r), n),
                                  Lookup(Rebuilt(S \ {n}), h, r))
  BY Zenon DEF Stable
<1>1. S \in SUBSET ToSet(RingNodes) /\ S \ {n} \in SUBSET ToSet(RingNodes)
  BY ServersAssumption
<1>2. IsRing(Rebuilt(S), S) /\ IsRing(Rebuilt(S \ {n}), S \ {n})
  BY <1>1, RebuiltRing
<1>3. IsRing(RemoveNode(Rebuilt(S), n), S \ {n})
  BY <1>1, <1>2, RemoveRing
<1>4. RemoveNode(Rebuilt(S), n) = Rebuilt(S \ {n})
  BY <1>1, <1>2, <1>3, OneRing
<1>5. ASSUME NEW h \in 0..Top, NEW r \in 1..Cardinality(Nodes)
      PROVE  IsPrefix(Without(Lookup(Rebuilt(S), h, r), n), Lookup(Rebuilt(S \ {n}), h, r))
  <2>1. r \in Nat \ {0}
    BY NodesFinite, FS_CardinalityType
  <2> QED
    BY <1>1, <2>1, LookupKeeps, Zenon DEF Without
<1> QED
  BY <1>4, <1>5

\* The tables of the invariants leave out no ring.
LEMMA AllRings == Rings \subseteq ExactRings /\ Rings \subseteq StableRings
<1> SUFFICES ASSUME NEW S \in SUBSET Nodes
             PROVE  Rebuilt(S) \in ExactRings /\ Rebuilt(S) \in StableRings
  BY DEF Rings
<1>1. Exact(S, Rebuilt(S)) /\ Stable(S, Rebuilt(S))
  BY RingsExact, RingsStable
<1>2. \E T \in {IF Exact(R, Rebuilt(R)) THEN {Rebuilt(R)} ELSE {} : R \in SUBSET Nodes} :
        Rebuilt(S) \in T
  <2>1. Rebuilt(S) \in IF Exact(S, Rebuilt(S)) THEN {Rebuilt(S)} ELSE {}
    BY <1>1
  <2> QED
    BY <2>1, Zenon
<1>3. \E T \in {IF Stable(R, Rebuilt(R)) THEN {Rebuilt(R)} ELSE {} : R \in SUBSET Nodes} :
        Rebuilt(S) \in T
  <2>1. Rebuilt(S) \in IF Stable(S, Rebuilt(S)) THEN {Rebuilt(S)} ELSE {}
    BY <1>1
  <2> QED
    BY <2>1, Zenon
<1> QED
  BY <1>2, <1>3, Zenon DEF ExactRings, StableRings

LEMMA SvcRings == ASSUME SvcInv PROVE LookupNearest /\ PlacementStable
<1>1. \A p \in Servers : ring[p] \in Rings
  BY DEF SvcInv, SvcTypes
<1> QED
  BY <1>1, AllRings, Zenon DEF LookupNearest, PlacementStable

\* Whoever has joined and left, for every point of the circle, number of tokens
\* and of replicas, a lookup on the ring of a server finds the nodes nearest
\* clockwise, each once (chash/ring.go:61-74).
THEOREM LookupsNearest == Spec => []LookupNearest
BY SvcInvariance, SvcRings, PTL

\* A node that leaves the ring of a server leaves it as if it had never joined,
\* and the segments that were on others stay where they are
\* (chash/ring.go:34-52).
THEOREM PlacementsStable == Spec => []PlacementStable
BY SvcInvariance, SvcRings, PTL
=============================================================================
