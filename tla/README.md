# TritonTube: specifications and proofs

TLA+ modules for the parts of TritonTube that keep shared state under concurrency, the
TLC configurations that check them on small instances, and TLAPS proofs of what matters
most for every instance. Source references are to the files of the repository.

## 1. Inventory

| Part | State | Operations | Talks to |
|---|---|---|---|
| Metadata service, `internal/metadata/service.go` | none of its own: a retry budget and two stores | PutMetadata, GetMetadata, DeleteMetadata, ListMetadata, retry | pgxsim (read, commit), then etcdsim (guarded copy) |
| Transaction simulator, `internal/metadata/pgxsim` | `entries`: versioned records; per transaction `readset`, `writes`, `deletes`, closed flags | BeginTx, Get, Put, Delete, List, Commit, Rollback | - |
| etcd simulator, `internal/metadata/etcdsim` | revision counter, key-value map, watchers with bounded channels | Txn, Get, Put, Watch, cancellation | watch consumers |
| Metadata server, `cmd/metadata/main.go` | placement ring, fixed at start | handleCreateVideo, handlePutSegment, handleGetLocations | metadata service |
| Ring manager, `internal/storage/manager.go` | copy of the ring state (version, nodes, tokens) | NewRingManager, UpsertNode, RemoveNode, Watch, Lookup | etcd (one key, no compare), callers' event channels |
| Rebalancer, `internal/storage/rebalance.go` | position in its loop | Run | ring manager, executor |
| Hash ring, `internal/chash` | sorted tokens | AddNode, RemoveNode, Lookup | ring manager, metadata server |
| File store, `internal/storage/fs.go` | files under a root, `.tmp` files | Put, Get | storage server and service |
| Storage service, `internal/storage/{service,replication,metadata,s3}.go` | none: file store, ring, segment records in etcd | UploadSegment, GetSegment, Heartbeat, Rebalance | all of the storage package |
| Web gateway, `cmd/web/main.go` | none | upload (register, then write W replicas), playback | metadata server, storage servers |
| Commands and messages, `cmd/storage`, `cmd/storage-admin`, `*.pb.go`, `grpcstub` | none | wiring | - |

What is hard, and what makes each part correct:

- **Metadata service.** A write spans two stores and three separately scheduled steps
  (read and buffer; commit or lose; copy to etcd), with a retry in the middle. Correct
  means: each write is one atomic conditional write of the record store; a caller who
  read a record replaces that record only; a lost attempt has a cause; every call is
  answered; etcd follows the store where callers use its revisions.
- **pgxsim.** Optimistic validation. Correct means: what a transaction was shown is
  still stored when it commits, and it fails for no other reason.
- **ListMetadata.** Pages computed from independent transactions. Correct means: no
  record twice, an end, nothing missing.
- **Ring manager, etcd watches, rebalancer.** Asynchronous delivery through two bounded
  channels into a state that is also written locally and written back whole. Correct
  means: a manager that has the last write loses no membership, Lookup is not behind an
  event, plans in order, and the manager catches up.
- **File store, gateway.** A shared temporary file, failing and late puts, crashes, a
  quorum counted from answers. Correct means: what is played is one whole upload, what is
  stored is registered, what is counted is stored.
- **Storage service.** Partial failures between the local file, the replicas and the segment
  record, rings that move meanwhile, streams and targets that never answer. Correct means:
  the nodes a record names have the bytes it describes, a complete upload is replicated in
  full, and an upload waits for its replicas only.
- **Hash ring.** Tokens in order, a search that wraps, nodes met more than once. Correct means:
  a segment is on the nodes nearest clockwise, and a node that joins or leaves moves no other.

`PROJECT.json` lists every hazard at its line with the properties that cover it.

## 2. Modules

| Module | Models | Built on |
|---|---|---|
| `PgxTx` | transactions of pgxsim as operators on a record: BeginTx, Get, Put, Delete, List, validation, application | - |
| `EtcdKV` | etcdsim's map and revisions as operators | - |
| `VersionedStore` | *abstract*: an atomic store of conditional writes | - |
| `MetadataService` | service.go under concurrent calls, with the HTTP handlers as callers | `PgxTx`, `EtcdKV`; implements `VersionedStore` |
| `CasClients` | callers that pass on version and revision as service_test.go does | `MetadataService` |
| `PgxStore` | concurrent sessions with arbitrary transactions over several keys | `PgxTx` |
| `MetadataPaging` | a client walking ListMetadata while records come and go | - |
| `RingManager` | ring managers on one etcd, with the whole watch pipeline | `EtcdKV` |
| `Rebalancer` | the consumer of ring events and its executor | `RingManager` |
| `HashRing` | the consistent hash ring as operators on token sequences, and the placement it promises | - |
| `FileStore` | concurrent puts of any objects on several nodes, by system call, with failures and crashes | - |
| `Gateway` | the web gateway: upload with its quorum, playback | `FileStore` |
| `StorageService` | uploads through the storage service: local put, replicas, segment record | `FileStore`, `HashRing`, `EtcdKV` |
| `MetadataService_proofs` | proofs about `MetadataService` and `CasClients` | TLAPS |
| `PgxStore_proofs`, `MetadataPaging_proofs`, `HashRing_proofs` | proofs about the modules they are named after | TLAPS |
| `Rebalancer_proofs` | proofs about `RingManager` and `Rebalancer` | TLAPS |
| `FileStore_proofs`, `Gateway_proofs` | lemmas about the file stores; proofs about `Gateway`, which build on them | TLAPS |
| `StorageService_proofs` | proofs about `StorageService`, which build on those about file stores and ring | TLAPS |
| `MC*` | constants and symmetry for TLC; a property that the code does not have | the module they are named after |

### How state and actions correspond to the code

**MetadataService.** `entries` is `Store.entries`, `etcd` the `Client`. `pc[c]` says where
the call of client `c` is: `"read"` before the retry closure reads (service.go:79-109),
`"commit"` before `tx.Commit` (110), `"etcd"` before the etcd transaction (119-136). Within
one of these steps the code holds the lock of the one store it touches, or touches only
locals; between them any other call may run. `tx[c]` is the transaction, a local of the
closure, reset when the closure ends. `attempt[c]` is the loop counter of `retry`.

- `PutMetadata`, `DeleteMetadata`: an RPC caller picks a request; `HandleCreateVideo` and
  `HandlePutSegment` are the two writing HTTP handlers. The second one first calls
  `GetMetadata`; the time between that read and the transaction of the put is the time
  the call spends in `"read"`.
- `ReadAndBuffer` / `Refuse`: BeginTx, Get, the checks of the closure, Put or Delete.
- `Commit`, `Retry`, `GiveUp`: validation succeeds; fails with budget left; fails for the
  last time.
- `EtcdApply`, `EtcdConflict`: the guarded put or delete in etcd and the answer.

Put and delete share these actions: the code of the two differs only in the check of
`Accepts` and the change buffered by `Transaction`. History variables, read by no guard:
`overtaken[c]` counts commits of others on the key of the call, and the field `basis` of a
request is the record its caller had read.

**PgxStore.** Sessions do what `Tx` allows, in any order; `Put` numbers a record after the
one read, as service.go:97-100 does. `seen` (history) is what the store showed.

**RingManager / Rebalancer.** A write (`Persist`) holds the manager's mutex from the change
of the node map to the return of etcd's put, and etcd's mutex covers the delivery to all
watchers, so it is one action. A watch `w` consists of the subscription (`registered`,
`inbox`, `closed`), etcdsim's cancellation goroutine (`RemoveWatcher`, `CloseInbox`), the
goroutine of `RingManager.Watch` (`loop`, `current`: `Receive`, `ApplyState`, `Emit`,
`Stop`), its channel to the caller (`events`), and `Rebalancer.Run` (`run`, `plan`). A
response that finds `inbox` full is dropped (etcdsim.go:331-335); `Emit` waits for room. The
ring is its version and node set: tokens are computed from the nodes by `rebuildLocked`
on every change. `RingInit` starts with an empty etcd or with a stored ring, as
cmd/storage-admin preloads it. History:
`joined`, `source` (the revision a manager's state came from), `told` (the last write whose
response found room).

**MetadataPaging.** Keys are numbers in their lexical order and a page is the set of its
keys; 0 is the empty token.

**CasClients.** The callers act on the responses of earlier puts (`acks`), any caller on any
response. They share the service, and etcd's revision counter, with the HTTP handlers,
which write keys of their own (`HandlerStep`); `CasKeys` are the callers' keys.

**HashRing.** SHA-1 is a table (`Position`) of distinct places on the circle 0..`Top`; a ring is
the sorted sequence of tokens, and `AddNode`, `RemoveNode`, `Lookup` are the code's. `Placement`
is the reference: the nodes ordered by the clockwise distance to their nearest token. A sort is
the list of the elements by their rank (`InOrder`), and a loop that drops elements keeps the
others by position (`Kept`): definitions that TLC evaluates and proofs can use.

**FileStore.** `tmp[n][o]` and `path[n][o]` are the two directory entries of object `o` on node
`n`, `data` the contents, kept apart as handles outlive names; `put[n][u]` is the `FS.Put` of
upload `u`: `"create"` before os.Create, `"write"` until the rename, `"remove"` before
os.Remove. os.Create empties a file that is there (`Create`); io.Copy writes chunk by chunk
at the handle's own offset (`WriteChunk`); `CopyFails` returns nil, fs.go:38. The checksum is
computed from the body, so the answer says nothing about the file. `CrashPuts` loses the
running puts and keeps the files (Sync comes before Rename).

**Gateway.** `upload[u]` is the handler of `/upload`, between registering, sending a put and
awaiting its answer; a put that timed out runs on in `FileStore`. `view[v]` is the handler of
`/v/`, from what handleGetLocations tells it to the file handle that the storage server
streams from. An object is named by the index as the client wrote it, `location` by the
number it parses to (`Segment`): "1" and "01" are two objects of one segment, each with its own
`Replicas` (main.go:128, 136). Both answer codes of `cmd/storage` (201, then an ignored 200)
are one. History: `publisher`, `overlapped`.

**StorageService.** `upload[u]` is one UploadSegment on the server `primary`. The loop over Recv
ends in one of four ways (`Streams`): a commit message, the end of the stream (which the code
takes for a commit), an error, or the nil message that `localStream` returns for ever. The
local put is `FileStore`'s, system call by system call; then `Replicate` asks the server's
ring and starts the calls; `CallSucceeds` and `CallFails` are their outcomes in any order,
also after the server is gone; `RecordSegment` puts the record, without a compare, and
`ReplicationFails` leaves it out. Replicas and S3 are interfaces without an implementation
over a network in the repository, so a target stores in one step. Each server has a ring of
its own; Heartbeat adds a node to it, and a watch or RemoveNode may set it to any node set.
`Found` is RingManager.Lookup, from a table (`Lookups`) that TLC fills once. History: `among`,
`disturbed`. Nothing in the repository constructs the service.

## 3. Abstractions

Values, attributes and descriptors are model values; time stamps, JSON and formatting are
left out, as are errors that the in-memory simulators cannot return and the checks of
malformed requests (empty keys, missing items), which answer before any state is touched.
`context` values are never looked at by the simulators. Versions and revisions are
unbounded integers: the code counts writes in `int64`.

## 4. Runs

| Run | Configuration | Checks | Instance |
|---|---|---|---|
| rpc | `MCMetadata_rpc.cfg` | TypeOK, LostAttemptsOvertaken, ImplementsVersionedStore, EveryCallReturns | 2 callers x 2 calls on one key, any operation, expectations that hold or not, 2 attempts |
| cas_once | `MCCasClients_once.cfg` | LostAttemptsOvertaken, MirrorExact, CommittedNeverConflicts, NoLostUpdate | 2 callers x 3 calls, 2 keys of compare-and-swap callers with any earlier response, 1 segment and 1 video of the HTTP handlers |
| pgx_once | `MCPgxStore_once.cfg` | TypeOK, FailsOnlyIfStale, CommittedReadsCurrent | 2 sessions x 2 transactions, 2 keys |
| paging_walk | `MCMetadataPaging_walk.cfg` | PagesAscending, UncutListingComplete, WalkEnds | 5 keys, limits 0 (default), 1, 2, 4, 3 concurrent writes |
| ring_member | `MCRebalancer_member.cfg` | SettledIsCurrent, NoSendOnClosedChannel, LostOnlyWhenBehind, Converges | two writing managers, one of which watches, 2 nodes, channels of 1, 4 writes |
| ring_watch | `MCRebalancer_watch.cfg` | LookupAfterEvent, PlansInOrder | two writing managers, one of which watches, channels of 2, 4 writes |
| gateway_upload | `MCGateway_upload.cfg` | ViewsWhole, StoredIsLocated, SuccessesStored | 2 uploads of 2 chunks and 1, 2 replicas, W = 2, a viewer, 2 faults |
| storage_upload | `MCStorageService_upload.cfg` | RecordBacked, FullyReplicated, LookupNearest, PlacementStable, WaitsOnlyForOthers | 2 uploads, 3 nodes x 2 tokens, 2 servers, factor 2, S3 for one, 1 fault, 1 ring change |
| conflict | `MCMetadata_conflict.cfg` | ConflictStoresNothing (refuted) | 2 callers, 1 key |
| paging_complete | `MCMetadataPaging_complete.cfg` | EveryRecordListed (refuted) | 5 keys, no writes |
| ring_lostnode | `MCRebalancer_lostnode.cfg` | RegisteredNodeStays (refuted) | one manager with its own watch |
| gateway_copy | `MCGateway_copy.cfg` | QuorumMeansStored (refuted) | as gateway_upload |

What the passing runs show:

- `ImplementsVersionedStore`: however calls interleave, lose and retry, each write takes
  effect in one step, at an instant at which the caller's expectation holds, or not at all.
- `LostAttemptsOvertaken`: nobody is turned away with a serialization error without
  `MaxRetries` commits of others on that key during the call.
- `EveryCallReturns`: the loop ends.
- `NoLostUpdate`: a record that a caller read and replaces is the one it read. It holds for
  the HTTP handlers (no deletes) and for compare-and-swap callers on keys created once.
- `MirrorExact`, `CommittedNeverConflicts`: with compare-and-swap callers etcd equals the
  store whenever no change of the key is under way, and the etcd compare, which comes
  after the commit, never fails. For callers without revisions (the HTTP handlers)
  neither is promised.
- `CommittedReadsCurrent`, `FailsOnlyIfStale`: validation is neither too weak nor too strong.
- `PagesAscending`, `UncutListingComplete`, `WalkEnds`: what paging does give.
- `LostOnlyWhenBehind`: the ring is written whole and without a compare, so a node can be lost
  (run `ring_lostnode`); it says when: at a write of a manager that does not have the last
  write, because another one wrote it or because its own watch applied an older one.
  `SettledIsCurrent` says when not: a manager whose watch has taken and applied the last
  response is not behind and has the stored ring.
- `Converges`: a manager with a live watch gets there, unless the response to the last write
  was dropped at a full inbox, or the caller leaves the goroutine waiting at a full
  events channel, because its executor does not return or failed and ended `Run`. Both
  happen in the run; without either condition TLC refutes it.
- `LookupAfterEvent`, `PlansInOrder`: the rest of the watch pipeline, for one watch per manager.
- `ViewsWhole`: a viewer gets one upload from its start, complete if the stream ends by
  itself, beside crashed, late and repeated puts, provided the file's put did not overlap
  another put of the object on that node; without the proviso TLC shows mixed bytes,
  since overlapping puts share `.tmp`.
- `StoredIsLocated`: no blob without a location that names its node, with one spelling of
  each index; with two, the later registration moves the location away. `SuccessesStored`: apart from the 201
  of a failed copy, a counted put is a stored one; a put that timed out is not counted,
  even when it succeeds later.
- `RecordBacked`: the nodes that a segment record names hold the bytes of the upload it
  describes. `FullyReplicated`: an upload answered as complete has as many copies as factor
  and ring allow. Both exempt uploads beside or after which another upload of the segment
  stored something, for nothing orders records and files of two uploads, and uploads whose
  local copy failed (fs.go:38), which are recorded without a checksum. Both assume a
  transport that stores what it acknowledges: the default `NoopReplicationTransport`
  (replication.go:22), for tests and single nodes, answers without an error and stores
  nothing, so with replicas to call neither would hold.
- `WaitsOnlyForOthers`: an upload that does not return has a target that does not answer, or a
  stream that neither goes on nor ends.
- `LookupNearest`, `PlacementStable`: the ring of every server, whatever joined and left,
  answers every lookup with the nearest nodes, and a join or a leave moves only what is due
  to that node.

### Bounds

`MaxCalls`, `MaxBegins`, `MaxVersion` and `MaxWrites` bound histories; they guard only the
actions of the environment (new calls, new transactions, membership changes), except
`MaxVersion`, which stops a session's Put. Two callers show every pairwise race; a call that loses
both attempts loses them to two calls of the other. `MaxRetries = 2` has
an attempt that is retried and one that is not. `ChanCap` is 8 in the code; what matters
is whether a burst exceeds it: `ring_watch` writes twice as many responses as a channel holds,
and in `ring_member`, with channels of 1, two writes in a row drop a response and four fill the
pipeline up to the inbox. `MaxFaults` is shared by errors of the file
system, crashes, timeouts, refused connections and broken streams; two allow a fault
on each replica and one that follows another. Uploads of different length let a shorter
one follow what a longer one left behind. `storage_upload` has one fault and one change of a
ring (`MaxRings`): an upload sees at most one failing call, store or server, and two rings;
its six tokens include two of one node in a row, and ends of the circle that belong to
different nodes. Five keys and a limit of 4 give walks of one, two
and more pages and pages cut by the token. Symmetry is used over interchangeable values
and only in runs without liveness. Deadlock checking is off everywhere: with the bounds
used up and all calls answered, nothing is left to do.

Two constants choose an environment. `Recreate = FALSE`: a deleted key is not created again;
with TRUE, `NoLostUpdate` fails, as versions restart at 1 (service.go:97) and the etcd
revision is compared only after the commit. `Rereads = FALSE`: a transaction does not read a
stored key twice, as no code here does; with TRUE, `CommittedReadsCurrent` fails, as the
second read replaces the version remembered by the first (pgxsim.go:119).

### Fairness

- `MetadataService`: weak fairness of each call's own steps. A call runs in a goroutine of
  its own that waits only for mutexes held for a bounded time. Nobody need ever call.
- `MetadataPaging` needs none: `WalkEnds` bounds the number of pages.
- `Rebalancer`: weak fairness of the goroutines behind a watch and of a `Run` that waits for
  events, which has nothing else to do. Nothing is assumed of the executor, which may
  never return.
- `StorageService`: weak fairness of the goroutine that serves an upload, the put it calls
  included. Nothing is assumed of replicas, S3 or the stream.
- `Gateway`: none; its properties are invariants.

## 5. Disagreements between code and comments

1. service.go:67 calls PutMetadata an upsert guarded by the transaction *and* the etcd
   compare; the record is committed before the compare, and a caller told of a conflict
   has changed the store (run `conflict`).
2. service.go:213: paging; every page is cut from the first limit+1 records and the token
   itself is skipped, so a walk misses records (run `paging_complete`).
3. manager.go:105: a registered node can be dropped without removal, when the manager's
   own watch moves it back to an older state before its next write (run `ring_lostnode`).
4. fs.go:38: a failed copy returns the nil of os.Create; the node answers 201, the gateway
   counts it among the successes (web/main.go:84) and may answer 201 for a quorum of which
   no node has the segment (run `gateway_copy`).

More were met and have no run. Of two concurrent first registrations of a segment the
second replaces the first, as version 0 means "no expectation" (service.go:89), although
infra/bench/metadata-vegeta/README.md:48 speaks of protection from lost updates. A watch
response dropped at a full channel (etcdsim.go:333) is not made up for, although
manager.go:220 has events and local state follow every change: `Converges` holds only
with its conditions `Informed` and `HeldUp`. The placement is looked up with the index as written and stored under
the parsed number (cmd/metadata/main.go:128, 136): two spellings of one index place their
objects differently and share one location. The storage service records an empty checksum
when the copy failed, and GetSegment ignores the offset and the length of its request.
service.go:78 says that UploadSegment replicates "asynchronously"; the replicas are called
concurrently, but the upload waits for all of them (service.go:159) before it answers.

## 6. Proofs

All theorems are checked by TLAPS for every value of the constants. Each stands on the named
assumptions of the modules, plus those it states itself and which are named below.

**MetadataService** (`MetadataService_proofs`), for any clients, keys, values
and budget. The handlers' keys are keys and disjoint; expectations are integers; the budget
is positive, as NewService makes it; markers are not data.

- `Invariance`: `IndInv` is inductive. `TypeOK` and `LostAttemptsOvertaken` alone are not:
  that a commit stores a well-formed record follows from what the transaction *buffered*,
  and that a lost attempt has a cause from what it *read*. So `IndInv` adds: a call in
  progress has a request and budget left (`CallShape`); a transaction that is ready to
  commit read and changed the key of its request only, and its write is numbered after
  the version it read, which is the one expected (`TxShape`); and if it would not validate,
  the call has been overtaken more often than it lost attempts (`Overtaking`). The last
  conjunct is where interference is accounted for: a commit invalidates only
  transactions on its key and counts itself against exactly those calls.
- `TypeCorrect`, `AttemptsPaidFor`: the two invariants of the runs.
- `Refinement`: Spec => ImplementsVersionedStore. The outcome of a write is decided at its
  commit; validation with `TxShape` says that the version read is the stored one, hence the
  abstract guard holds and the effects agree. Refusals need no transaction: the read
  itself is the instant. All other steps stutter.
- `HttpNoLostUpdate`: with `ExpectedVersions = {}`, that is with the handlers only,
  Spec => NoLostUpdate. The invariant `BasisInv` says that the record a pending call is based
  on is still stored or has been replaced by higher versions; it holds because nobody
  deletes, so that a version stands for one record.

**CasClients** (`MetadataService_proofs`, on the lemmas above), for any number of compare-and-swap
callers beside any number of handlers, with `Recreate = FALSE`: `EtcdMirrors`,
`CommitsAreCopied`, `NobodyLosesAnUpdate`, `CasAttemptsPaidFor`. A key is created once, so its
versions go up by one until it is deleted for good. `CasInv` says of each key: until its
creation is answered that is its only call (`Untouched`); a response with the stored
version carries the stored record and etcd's revision of it, and then nothing of the key is
on its way to etcd (`AcksCurrent`). A commit validates against such a response, so its etcd
compare will pass (`CopyPasses`), and it raises the version, so no other call on the key can
commit before it is copied.

**PgxStore** (`PgxStore_proofs`): `TransactionsWellFormed`, and `FailuresAreReal`: a commit fails
only if a record it read has changed. `CommitsAreCurrent` assumes `Rereads = FALSE`: then the
version remembered for a key is that of the record shown, and validation means that all of
it is still stored.

**MetadataPaging** (`MetadataPaging_proofs`), for finite key spaces: `NothingListedTwice`,
`OnePageIsAll`, `WalksAreFinite`. Their invariant says that the pages so far lie behind the
token, and that all but the last have taken two keys or more from what is left. That a
finite set of keys has a greatest one needs an induction, which the library states with
operator parameters; the proofs take it from the well-foundedness of strict inclusion on
finite subsets instead (`GreatestKey`, `LeastKey`).

**RingManager, Rebalancer** (`Rebalancer_proofs`), for any managers, nodes, watches, capacities
and starts:

- `NeverSendsOnClosed`: a watch whose channel is closed is no longer registered.
- `PlansAreOrdered`: what lies between etcd and the plan (inbox, current response, state to
  emit, events, plan) is one increasing sequence of revisions. Drops keep it increasing.
- `LookupIsNotBehind` assumes one watch per manager (`OneWatchEach`): then the manager's ring
  is as new as anything its watch applied.
- `LosersAreBehind` assumes nothing of writers or watches. `LostOnlyWhenBehind` is not inductive:
  that a manager which is not behind has the stored ring rests on `Sourced`, by which
  everything in the pipeline that carries the latest revision is the stored ring, and on
  the increasing sequence above, by which a write is the only one to carry its revision.
- `SettledWatchIsCurrent` and `SettledWritersLoseNobody` assume `OneWatchEach`, as a second
  watch may apply an older response behind the first one's back. `OnItsWay` follows the
  last response from the end of the inbox to the manager's state; with `Sourced` it makes the
  manager current when the watch has settled, and a current manager writes back what it read.

**FileStore, Gateway** (`FileStore_proofs`, `Gateway_proofs`), for any nodes, objects, uploads of
any length, viewers, spellings and number of faults:

- `FileInv` is the invariant of the files: a put that did not overlap another has the file
  under `.tmp` for itself, with exactly the chunks before its offset (`AloneExact`); a file
  it published is its whole upload, and nobody writes to it any more (`PublishedExact`).
  Both are stated with `overlapped`, since overlapping puts break them.
- `ViewersGetWholeUploads`: from `FileInv` and `ViewsRight`, by which a playback has a prefix of
  the file that it opened. No further assumption.
- `StoredCanBeFound` assumes that the objects of one segment are placed alike (`OneSpelling`;
  each index has one spelling, or its spellings fall together): a node that was sent a put
  is in the stored location (`RegisteredFirst`).
- `SuccessesAreKept` assumes finitely many nodes and replicas that are distinct
  (`DistinctReplicas`, what Lookup returns): the successes so far inject into the replicas
  passed that keep the object or answered a failed copy (`Accounted`).

**HashRing** (`HashRing_proofs`), for any nodes, numbers of tokens, circle and positions without
collisions (`PositionAssumption`; sort.Slice leaves the order of equal hashes open):

- A ring of the nodes S (`IsRing`) is a sequence of exactly their tokens by increasing hashes.
  `RebuiltRing`: rebuildLocked makes one; `RemoveRing`: so does RemoveNode, of one node fewer;
  `OneRing`: there is only one, so removing a node and never having added it are the same.
- `LookupPlaces`: on every ring Lookup is `Placement`. The position that sort.Search finds, wrapped
  around, is the start of a walk along which the clockwise distance grows strictly (`Around`);
  so the first token of a node that the walk meets is its nearest one, and the nodes, each
  at its first time, are met by increasing distance (`DistinctNearest`). A list by increasing
  values is unique (`OneOrder`).
- `LookupKeeps`: without one of the nodes the others keep their ranks, or move up by one behind it,
  so a lookup still finds those it found before, in their order. `LookupFound`: it finds as many
  different nodes as asked for and there.

No induction over sequences is needed: ranks are cardinalities, and rebuildLocked's recursion
is unfolded along the naturals by a set closed under successor (`UpTo`), which rests on their
well-foundedness alone.

**StorageService** (`StorageService_proofs`), for any nodes, servers, objects, uploads of any
length, faults and changes of rings, with the finiteness of the nodes and the assumptions
of the modules:

- `SvcInvariance`: `SvcInv` is inductive. A put runs only on the primary, while its handler waits
  for it (`PutOfHandler`); targets are enough for what the ring had (`Placed`); a file under the
  name of an object is of an upload of that object (`FilesOfObject`); a record describes an upload
  all of whose calls went well (`RecordsDescribe`). The core is `Stored`: as long as an upload is
  undisturbed, its put has `.tmp` for itself, and the nodes that have answered it well hold the
  object. It needs `Undisturbed`: the other uploads of the object that reached a file store before
  can store nothing any more, and one that comes later disturbs it. `FileStore`'s own invariant
  does not serve here: it speaks of files that a put of the same node published, and a
  replica publishes without one.
- `RecordsAreBacked`, `Replicated`: the two properties of the runs. The count in `Replicated` comes
  from `LookupFound`: what the ring named when the upload replicated are as many different
  nodes as `FullyReplicated` asks for, and all of them hold the object.
- `LookupsNearest`, `PlacementsStable`: the ring of a server is always one that rebuildLocked
  makes of some nodes, for which `LookupPlaces`, `RemoveRing` and `LookupKeeps` say the rest.

Every safety property of the passing runs is proved. Only model-checked: liveness (`EveryCallReturns`,
`Converges`, `WaitsOnlyForOthers`), which is beyond TLAPS here, and the refuted properties.

## 7. Not modelled

The generated messages, the local gRPC stubs and the command wiring have no logic of their
own, apart from the end of `localStream`, which is one of the `Streams` of `StorageService`.
docs/architecture and proto/web.proto describe services that the repository does not
contain. GetMetadata outside the segment handler, GetSegment and Rebalance read only or
delegate. Else branches, prefix reads and multi-operation transactions of etcdsim have no
caller. Load scripts, charts, Terraform and postgres.sql are no part of the program.

## 8. Plan

Done: all components with state of their own are modelled, from the transactions to the
storage service and the hash ring, and their safety properties are proved. What is left:

1. `Gateway` over `MetadataService`: the registration as calls of `HandlePutSegment`, with its
   conflicts, in place of the one step that `Register` is now.
2. With it, the location that a viewer is given as the value of a record, so that
   `StoredIsLocated` follows from `NoLostUpdate` and not from the atomicity of `Register`.
