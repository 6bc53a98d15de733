--------------------------- MODULE StorageService ---------------------------
(***************************************************************************)
(* The storage service (internal/storage/service.go): an upload is put to  *)
(* the file store of the server it reaches, its primary, sent to the other *)
(* nodes that the server's ring names and to S3 where asked for, and, when *)
(* all of them have answered well, recorded in etcd.                       *)
(*                                                                         *)
(* The transport to the replicas and S3 are interfaces without a real      *)
(* implementation in the repository.  Here a replica stores the object in  *)
(* one step, or fails, and a call outlives the server that made it.        *)
(***************************************************************************)
EXTENDS FileStore, HashRing

CONSTANTS Servers,             \* nodes that uploads reach
          KeyHash,             \* hash of the segment id of each object
          Founders,            \* nodes of the ring that is stored at the start
          ReplicationFactor,
          Backup,              \* uploads whose header names an S3 key
          S3,                  \* the target they add
          MaxRings,            \* bound of the model: changes of rings
          NoRecord             \* stands for "no record of the segment"

ASSUME ServersAssumption ==
  Nodes = ToSet(RingNodes) /\ Servers \subseteq Nodes /\ Founders \subseteq Nodes
ASSUME KeyHashAssumption == KeyHash \in [Objects -> 0..Top]
ASSUME FactorAssumption == ReplicationFactor \in Nat \ {0} /\ MaxRings \in Nat
ASSUME S3Assumption == Backup \subseteq Uploads /\ S3 \notin Nodes

VARIABLES ring,        \* the tokens in the ring manager of each server
          rings,       \* changes of rings so far
          segments,    \* the etcdsim.Client, for the segment records
          upload,      \* the UploadSegment of each upload
          disturbed    \* history: uploads beside or after which another stored

svcVars == <<ring, rings, segments, upload, disturbed>>
vars == <<fsVars, svcVars>>

Etcd == INSTANCE EtcdKV WITH NoValue <- NoRecord

\* among is history: the nodes of the ring that the replicas were looked up on.
NoUpload ==
  [pc |-> "idle", primary |-> NoFile, stream |-> "none", among |-> {}, targets |-> {},
   pending |-> {}, failed |-> {}, answer |-> "none"]

Init ==
  /\ FSInit
  /\ ring = [p \in Servers |-> Rebuilt(Founders)]
  /\ rings = 0
  /\ segments = Etcd!New(Objects)
  /\ upload = [u \in Uploads |-> NoUpload]
  /\ disturbed = {}
-----------------------------------------------------------------------------
\* How the stream of an upload goes on after Length[u] chunks: with a commit,
\* with its end, with an error (a missing or malformed header included), or,
\* as the in-process localStream does, with no message and no error for ever.
Streams == {"commit", "eof", "error", "silent"}

\* Mutant: the commit is not looked at.
CompleteAtEOF == {"eof"}

\* The streams that the loop over Recv ends with all chunks.  A silent one it
\* polls for ever.
Complete == {"commit", "eof"}

UploadSegment(u) ==
  /\ upload[u].pc = "idle"
  /\ \E p \in Servers, s \in Streams :
       upload' = [upload EXCEPT ![u].pc = "receive", ![u].primary = p, ![u].stream = s]
  /\ UNCHANGED <<fsVars, ring, rings, segments, disturbed>>

\* The call is about to return, with a response or an error.
Returns(u, answer) ==
  upload' = [upload EXCEPT ![u].pc = "respond", ![u].stream = "none", ![u].answer = answer]

StreamFails(u) ==
  /\ upload[u].pc = "receive"
  /\ upload[u].stream = "error"
  /\ Returns(u, "error")
  /\ UNCHANGED <<fsVars, ring, rings, segments, disturbed>>

\* Uploads of the same object that may have reached a file store.
Rivals(u) ==
  {v \in Uploads \ {u} : Object[v] = Object[u] /\ upload[v].pc \notin {"idle", "receive"}}

\* It may still store something.
Live(v) == upload[v].pc \in {"put", "wait"} \/ upload[v].pending # {}

\* All chunks are there: fs.Put on the primary.
PutLocally(u) ==
  /\ upload[u].pc = "receive"
  /\ upload[u].stream \in Complete
  /\ Receive(upload[u].primary, u)
  /\ upload' = [upload EXCEPT ![u].pc = "put", ![u].stream = "none"]
  /\ disturbed' = disturbed \cup Rivals(u) \cup {w \in {u} : \E v \in Rivals(u) : Live(v)}
  /\ UNCHANGED <<ring, rings, segments>>

LocalAnswer(u) == put[upload[u].primary][u].answer

LocalPutFails(u) ==
  /\ upload[u].pc = "put"
  /\ LocalAnswer(u) = "failed"
  /\ Returns(u, "error")
  /\ UNCHANGED <<fsVars, ring, rings, segments, disturbed>>

\* The nodes of the ring of a server.
Members(p) == {t.node : t \in ToSet(ring[p])}

\* The rings there are, and a table of what Lookup finds on them (TLC fills it
\* once).
Rings == {Rebuilt(S) : S \in SUBSET Nodes}

Lookups ==
  {[tokens |-> x[1], object |-> x[2], found |-> Lookup(x[1], KeyHash[x[2]], ReplicationFactor)] :
     x \in Rings \X Objects}

Found(tokens, o) == (CHOOSE x \in Lookups : x.tokens = tokens /\ x.object = o).found

\* The replica set: what the ring says, or this server if it says nothing.
TargetsOn(p, o) ==
  LET found == Found(ring[p], o)
  IN  IF found = <<>> THEN {p} ELSE ToSet(found)

\* Whatever Put returned without an error, the segment goes to all other
\* targets at once.
Replicate(u) ==
  LET p == upload[u].primary
  IN  /\ upload[u].pc = "put"
      /\ LocalAnswer(u) \in {"created", "empty"}
      /\ \E targets \in {TargetsOn(p, Object[u])} :
           /\ p \in targets
           /\ upload' = [upload EXCEPT
                ![u].pc = "wait",
                ![u].among = Members(p),
                ![u].targets = targets,
                ![u].pending = (targets \ {p}) \cup (IF u \in Backup THEN {S3} ELSE {})]
      /\ UNCHANGED <<fsVars, ring, rings, segments, disturbed>>

\* ValidateReplicationTargets: this server is not among the replicas of the
\* segment.  What it has put stays.
Misplaced(u) ==
  LET p == upload[u].primary
  IN  /\ upload[u].pc = "put"
      /\ LocalAnswer(u) \in {"created", "empty"}
      /\ p \notin TargetsOn(p, Object[u])
      /\ Returns(u, "error")
      /\ UNCHANGED <<fsVars, ring, rings, segments, disturbed>>

\* A replica publishes a file of its own with the bytes it was sent.
StoredAt(t, u) ==
  /\ path' = IF t = S3 THEN path ELSE [path EXCEPT ![t][Object[u]] = u]
  /\ data' = IF t = S3 THEN data ELSE [data EXCEPT ![t][u] = Whole(u)]
  /\ publisher' = IF t = S3 THEN publisher ELSE [publisher EXCEPT ![t][u] = u]
  /\ UNCHANGED <<tmp, put, overlapped>>

CallSucceeds(u, t) ==
  /\ t \in upload[u].pending
  /\ StoredAt(t, u)
  /\ upload' = [upload EXCEPT ![u].pending = @ \ {t}]
  /\ UNCHANGED <<faults, ring, rings, segments, disturbed>>

\* The target may have stored the segment all the same.
CallFails(u, t) ==
  /\ Fault
  /\ t \in upload[u].pending
  /\ StoredAt(t, u) \/ UNCHANGED fsDisk
  /\ upload' = [upload EXCEPT ![u].pending = @ \ {t}, ![u].failed = @ \cup {t}]
  /\ UNCHANGED <<ring, rings, segments, disturbed>>

AllAnswered(u) == upload[u].pc = "wait" /\ upload[u].pending = {}

\* It carries the checksum that Put returned: none when the copy had failed.
SegmentRecord(u) ==
  [upload |-> u, whole |-> LocalAnswer(u) = "created",
   nodes |-> (upload[u].targets \ upload[u].failed) \cup {upload[u].primary}]

\* The record of a segment is replaced without a compare.
PutSegment(u, record) == segments' = Etcd!OpPut(segments, Object[u], record)

\* Mutant: the record is put whether or not the replicas have the segment.
RecordAlways(u) ==
  /\ AllAnswered(u)
  /\ PutSegment(u, [SegmentRecord(u) EXCEPT !.nodes = upload[u].targets])
  /\ Returns(u, "complete")
  /\ UNCHANGED <<fsVars, ring, rings, disturbed>>

RecordSegment(u) ==
  /\ AllAnswered(u)
  /\ upload[u].failed = {}
  /\ PutSegment(u, SegmentRecord(u))
  /\ Returns(u, "complete")
  /\ UNCHANGED <<fsVars, ring, rings, disturbed>>

\* Some target failed: no record, and a response that says which.
ReplicationFails(u) ==
  /\ AllAnswered(u)
  /\ upload[u].failed # {}
  /\ Returns(u, "partial")
  /\ UNCHANGED <<fsVars, ring, rings, segments, disturbed>>

SendAndClose(u) ==
  /\ upload[u].pc = "respond"
  /\ upload' = [upload EXCEPT ![u].pc = "done"]
  /\ UNCHANGED <<fsVars, ring, rings, segments, disturbed>>
-----------------------------------------------------------------------------
\* Heartbeat: UpsertNode on the server's own ring manager.
Heartbeat(p, n) ==
  /\ rings < MaxRings
  /\ rings' = rings + 1
  /\ ring' = [ring EXCEPT ![p] = Rebuilt(Members(p) \cup {n})]
  /\ UNCHANGED <<fsVars, segments, upload, disturbed>>

\* RemoveNode, or a watch that applies the ring of another manager.
RingMoves(p, S) ==
  /\ rings < MaxRings
  /\ rings' = rings + 1
  /\ ring' = [ring EXCEPT ![p] = Rebuilt(S)]
  /\ UNCHANGED <<fsVars, segments, upload, disturbed>>

\* A server goes down with its uploads; calls under way to replicas may still
\* be carried out.
Crash(p) ==
  /\ CrashPuts(p)
  /\ upload' = [u \in Uploads |->
       IF upload[u].primary = p /\ upload[u].pc # "done"
       THEN [upload[u] EXCEPT !.pc = "done", !.stream = "none", !.answer = "lost"] ELSE upload[u]]
  /\ UNCHANGED <<ring, rings, segments, disturbed>>

LocalStep(u) == PutStep(upload[u].primary, u) /\ UNCHANGED svcVars

\* The server's own steps.
UploadStep(u) ==
  \/ StreamFails(u) \/ PutLocally(u) \/ LocalPutFails(u)
  \/ Replicate(u) \/ Misplaced(u)
  \/ RecordSegment(u) \/ ReplicationFails(u) \/ SendAndClose(u)

Next ==
  \/ \E u \in Uploads :
       \/ UploadSegment(u) \/ UploadStep(u)
       \/ upload[u].primary \in Servers /\ LocalStep(u)
       \/ \E t \in upload[u].pending : CallSucceeds(u, t) \/ CallFails(u, t)
  \/ \E p \in Servers :
       \/ \E n \in Nodes : Heartbeat(p, n)
       \/ \E S \in SUBSET Nodes : RingMoves(p, S)
       \/ Crash(p)

\* A goroutine that serves an upload keeps running, and so does the put it
\* calls.  Nothing is assumed of the targets, which may never answer.
Fairness ==
  \A u \in Uploads :
    WF_vars(UploadStep(u) \/ (upload[u].primary \in Servers /\ LocalStep(u)))

Spec == Init /\ [][Next]_vars

FairSpec == Spec /\ Fairness
-----------------------------------------------------------------------------
Holds(n, u) == path[n][Object[u]] # NoFile /\ data[n][path[n][Object[u]]] = Whole(u)

\* The nodes a record names hold the bytes it describes, those of its upload
\* (storage/metadata.go:26 "after successful replication"), through crashes,
\* failed and late calls and moving rings.  Exempt: uploads beside or after
\* which another upload of the segment stored something, as nothing orders
\* records and files of two uploads; copies that fs.go:38 reports as good.
RecordBacked ==
  \A o \in Objects :
    LET record == segments.kv[o].value
    IN  (record # NoRecord /\ record.whole /\ record.upload \notin disturbed)
          => \A n \in record.nodes : Holds(n, record.upload)

\* A response without a failure means as many distinct copies as the
\* replication factor asks for and the ring has nodes for (service.go:123-170),
\* whatever the ring has become since.  Same exemptions.
FullyReplicated ==
  \A u \in Uploads :
    (upload[u].answer = "complete" /\ LocalAnswer(u) = "created" /\ u \notin disturbed)
      => Cardinality({n \in Nodes : Holds(n, u)})
           >= Min({ReplicationFactor, Max({1, Cardinality(upload[u].among)})})

\* An upload waits for its replicas and S3, or for the rest of a stream that
\* neither goes on nor ends, and for nothing else (service.go:96-159).
WaitsOnlyForOthers ==
  \A u \in Uploads :
    <>[](\/ upload[u].pc \in {"idle", "done"}
         \/ upload[u].pc = "wait" /\ upload[u].pending # {}
         \/ upload[u].pc = "receive" /\ upload[u].stream = "silent")
-----------------------------------------------------------------------------
\* Every lookup on the ring of S finds the nodes nearest clockwise, each once.
Exact(S, tokens) ==
  \A h \in 0..Top, r \in 0..(Cardinality(Nodes) + 1) :
    Lookup(tokens, h, r) = Placement(S, h, r)

\* Enumerated, for TLC to test each ring once.
ExactRings ==
  UNION {IF Exact(S, Rebuilt(S)) THEN {Rebuilt(S)} ELSE {} : S \in SUBSET Nodes}

\* Whatever has joined and left, the ring of a server answers Lookup exactly,
\* at the ends of the circle and for more replicas than nodes too
\* (chash/ring.go:61-74).
LookupNearest == \A p \in Servers : ring[p] \in ExactRings

Without(found, n) == Kept(found, {i \in DOMAIN found : found[i] # n})

\* Each node of S has taken places on the ring and moved no other one's, and
\* RemoveNode leaves the ring as if it had never joined.
Stable(S, tokens) ==
  \A n \in S :
    LET rest == Rebuilt(S \ {n})
    IN  /\ RemoveNode(tokens, n) = rest
        /\ \A h \in 0..Top, r \in 1..Cardinality(Nodes) :
             IsPrefix(Without(Lookup(tokens, h, r), n), Lookup(rest, h, r))

StableRings ==
  UNION {IF Stable(S, Rebuilt(S)) THEN {Rebuilt(S)} ELSE {} : S \in SUBSET Nodes}

\* The manager rebuilds the whole ring whenever a node joins or leaves
\* (manager.go:163): a segment changes its place only on account of that node,
\* and the ring is the one that chash's RemoveNode would leave.
PlacementStable == \A p \in Servers : ring[p] \in StableRings
=============================================================================
