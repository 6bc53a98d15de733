-------------------------- MODULE MetadataService ---------------------------
(***************************************************************************)
(* The metadata service (internal/metadata/service.go) under concurrent    *)
(* calls, with the HTTP handlers that call it (cmd/metadata/main.go).      *)
(*                                                                         *)
(* A write runs in three separately scheduled steps: a transaction reads   *)
(* the record and buffers the write ("read"), the transaction commits or   *)
(* fails validation and is retried ("commit"), and only then is the change *)
(* copied to etcd under its own guard ("etcd").  The steps of different    *)
(* calls interleave; within one step the code holds the lock of the store  *)
(* or of etcd.                                                             *)
(***************************************************************************)
EXTENDS PgxTx

CONSTANTS Clients,            \* concurrent callers
          Values,             \* values an item may carry
          SegmentKeys,        \* keys written by POST /videos/{id}/segments
          VideoKeys,          \* keys written by POST /videos
          ExpectedVersions,   \* ExpectedVersion of RPC callers; {} for none
          ExpectedRevisions,  \* ExpectedEtcdRevision of RPC callers
          MaxRetries,         \* Service.maxRetries
          MaxCalls,           \* bound of the model: calls per client
          NoRequest           \* a client that has called nothing yet

ASSUME KeysAssumption ==
  /\ SegmentKeys \subseteq Keys
  /\ VideoKeys \subseteq Keys
  /\ SegmentKeys \cap VideoKeys = {}

ASSUME RequestsAssumption ==
  /\ ExpectedVersions \subseteq Nat
  /\ ExpectedRevisions \subseteq Int

\* NewService replaces a budget that is not positive by 5.
ASSUME RetriesAssumption == MaxRetries \in Nat \ {0} /\ MaxCalls \in Nat

Records == [value : Values, version : Nat \ {0}]

\* basis is a history field: the record the caller read before it called,
\* NoRecord when it read none.
PutRequests ==
  [op : {"put"}, key : Keys, value : Values, expectedVersion : Nat,
   expectedRevision : Int, basis : Records \cup {NoRecord}]

DeleteRequests ==
  [op : {"delete"}, key : Keys, value : {NoRecord}, expectedVersion : Nat,
   expectedRevision : Int, basis : Records \cup {NoRecord}]

Requests == PutRequests \cup DeleteRequests

\* The markers are not data.
ASSUME MarkersAssumption == NoRecord \notin Records /\ NoRequest \notin Requests

VARIABLES entries,    \* pgxsim.Store.entries
          etcd,       \* the etcdsim.Client: revision counter and map
          pc,         \* where each client's call is
          req,        \* the call's request
          tx,         \* the call's transaction
          attempt,    \* transactions of this call that failed validation
          resp,       \* how the client's last call was answered
          calls,      \* calls made so far
          overtaken   \* history: commits of others on the key of this call

vars == <<entries, etcd, pc, req, tx, attempt, resp, calls, overtaken>>

Etcd == INSTANCE EtcdKV WITH NoValue <- NoRecord

Unguarded == -1   \* ExpectedEtcdRevision < 0: no compare

PutRequest(k, v, ev, er, basis) ==
  [op |-> "put", key |-> k, value |-> v, expectedVersion |-> ev,
   expectedRevision |-> er, basis |-> basis]

DeleteRequest(k, ev, er, basis) ==
  [op |-> "delete", key |-> k, value |-> NoRecord, expectedVersion |-> ev,
   expectedRevision |-> er, basis |-> basis]

\* A client whose call has no transaction: none begun, or dropped.
NoTx == BeginTx("ReadWrite")

Init ==
  /\ entries = [k \in Keys |-> NoRecord]
  /\ etcd = Etcd!New(Keys)
  /\ pc = [c \in Clients |-> "idle"]
  /\ req = [c \in Clients |-> NoRequest]
  /\ tx = [c \in Clients |-> NoTx]
  /\ attempt = [c \in Clients |-> 0]
  /\ resp = [c \in Clients |-> "none"]
  /\ calls = [c \in Clients |-> 0]
  /\ overtaken = [c \in Clients |-> 0]
-----------------------------------------------------------------------------
Call(c, r) ==
  /\ pc[c] = "idle"
  /\ calls[c] < MaxCalls
  /\ calls' = [calls EXCEPT ![c] = @ + 1]
  /\ req' = [req EXCEPT ![c] = r]
  /\ attempt' = [attempt EXCEPT ![c] = 0]
  /\ overtaken' = [overtaken EXCEPT ![c] = 0]
  /\ resp' = [resp EXCEPT ![c] = "none"]
  /\ pc' = [pc EXCEPT ![c] = "read"]
  /\ UNCHANGED <<entries, etcd, tx>>

\* An RPC caller with the expectations of its choice.
PutMetadata(c) ==
  \E k \in Keys, v \in Values, ev \in ExpectedVersions, er \in ExpectedRevisions :
    Call(c, PutRequest(k, v, ev, er, NoRecord))

DeleteMetadata(c) ==
  \E k \in Keys, ev \in ExpectedVersions, er \in ExpectedRevisions :
    Call(c, DeleteRequest(k, ev, er, NoRecord))

\* A read-only transaction of one Get, rolled back.
GetMetadata(k) == GetResult(BeginTx("ReadOnly"), entries, k)

\* POST /videos stores a fresh item whatever is there.
HandleCreateVideo(c) ==
  \E k \in VideoKeys, v \in Values : Call(c, PutRequest(k, v, 0, Unguarded, NoRecord))

\* POST .../segments reads the segment, then puts it: expecting the version
\* read, or unconditionally (expecting 0) when nothing was found.
HandlePutSegment(c) ==
  \E k \in SegmentKeys, v \in Values :
    LET existing == GetMetadata(k)
    IN  Call(c, PutRequest(k, v, VersionOf(existing), Unguarded, existing))
-----------------------------------------------------------------------------
\* Mutant: the expected version is ignored.
AcceptsAnyVersion(r, existing) == r.op = "delete" => existing # NoRecord

\* The checks of the two retry closures on the record their transaction read.
Accepts(r, existing) ==
  /\ r.expectedVersion > 0 => VersionOf(existing) = r.expectedVersion
  /\ r.op = "delete" => existing # NoRecord

\* Mutant: the version is carried over.
NewRecSameVersion(r, existing) == [value |-> r.value, version |-> VersionOf(existing)]

NewRec(r, existing) == [value |-> r.value, version |-> VersionOf(existing) + 1]

\* BeginTx, Get, then the buffered Put or Delete.
Transaction(r) ==
  LET begun    == BeginTx("ReadWrite")
      existing == GetResult(begun, entries, r.key)
      read     == AfterGet(begun, entries, r.key)
  IN  IF r.op = "delete" THEN AfterDelete(read, r.key)
      ELSE AfterPut(read, r.key, NewRec(r, existing))

ReadAndBuffer(c) ==
  /\ pc[c] = "read"
  /\ Accepts(req[c], entries[req[c].key])
  /\ tx' = [tx EXCEPT ![c] = Transaction(req[c])]
  /\ pc' = [pc EXCEPT ![c] = "commit"]
  /\ UNCHANGED <<entries, etcd, req, attempt, resp, calls, overtaken>>

\* The call returns; its transaction was a local of it.
Answer(c, a) ==
  /\ pc' = [pc EXCEPT ![c] = "idle"]
  /\ resp' = [resp EXCEPT ![c] = a]
  /\ tx' = [tx EXCEPT ![c] = NoTx]

\* "missing key", "not found" or "version mismatch": an error the retry loop
\* returns at once.
Refuse(c) ==
  /\ pc[c] = "read"
  /\ ~Accepts(req[c], entries[req[c].key])
  /\ Answer(c, "refused")
  /\ UNCHANGED <<entries, etcd, req, attempt, calls, overtaken>>

\* Calls on key k that have not committed yet, other than c's.
Overtakes(c, d) ==
  /\ d # c
  /\ pc[d] \in {"read", "commit"}
  /\ req[d].key = req[c].key

Commit(c) ==
  /\ pc[c] = "commit"
  /\ Validates(tx[c], entries)
  /\ entries' = Committed(tx[c], entries)
  /\ pc' = [pc EXCEPT ![c] = "etcd"]
  /\ overtaken' = [d \in Clients |-> IF Overtakes(c, d) THEN overtaken[d] + 1
                                     ELSE overtaken[d]]
  /\ UNCHANGED <<etcd, req, tx, attempt, resp, calls>>

\* Commit returned ErrSerialization: the next attempt starts a transaction of
\* its own, until the budget is used up and the error is returned.
SerializationFailure(c) ==
  /\ pc[c] = "commit"
  /\ ~Validates(tx[c], entries)
  /\ attempt' = [attempt EXCEPT ![c] = @ + 1]
  /\ UNCHANGED <<entries, etcd, req, calls, overtaken>>

\* Mutant: the next attempt commits the transaction that just failed.
RetrySameTx(c) ==
  /\ SerializationFailure(c)
  /\ attempt[c] + 1 < MaxRetries
  /\ UNCHANGED <<pc, tx, resp>>

\* Mutant: likewise, without counting the attempt.
RetryUncounted(c) ==
  /\ pc[c] = "commit" /\ ~Validates(tx[c], entries)
  /\ attempt[c] + 1 < MaxRetries
  /\ UNCHANGED vars

Retry(c) ==
  /\ SerializationFailure(c)
  /\ attempt[c] + 1 < MaxRetries
  /\ pc' = [pc EXCEPT ![c] = "read"]
  /\ tx' = [tx EXCEPT ![c] = NoTx]
  /\ UNCHANGED resp

GiveUp(c) ==
  /\ SerializationFailure(c)
  /\ attempt[c] + 1 >= MaxRetries
  /\ Answer(c, "gaveup")
-----------------------------------------------------------------------------
\* The compare is part of the etcd transaction only for revisions >= 0.
EtcdGuard(r) ==
  r.expectedRevision >= 0 => Etcd!CompareModRevision(etcd, r.key, r.expectedRevision)

\* The item put in etcd is the record just committed.
EtcdApply(c) ==
  LET r == req[c]
  IN  /\ pc[c] = "etcd"
      /\ EtcdGuard(r)
      /\ etcd' = IF r.op = "delete" THEN Etcd!OpDelete(etcd, r.key)
                 ELSE Etcd!OpPut(etcd, r.key, tx[c].writes[r.key])
      /\ Answer(c, "ok")
      /\ UNCHANGED <<entries, req, attempt, calls, overtaken>>

\* "etcd revision conflict": the record store keeps the change.
EtcdConflict(c) ==
  /\ pc[c] = "etcd"
  /\ ~EtcdGuard(req[c])
  /\ Answer(c, "conflict")
  /\ UNCHANGED <<entries, etcd, req, attempt, calls, overtaken>>
-----------------------------------------------------------------------------
\* The steps of a call in progress.
Step(c) ==
  \/ ReadAndBuffer(c) \/ Refuse(c)
  \/ Commit(c) \/ Retry(c) \/ GiveUp(c)
  \/ EtcdApply(c) \/ EtcdConflict(c)

Request(c) ==
  \/ PutMetadata(c) \/ DeleteMetadata(c)
  \/ HandleCreateVideo(c) \/ HandlePutSegment(c)

Next == \E c \in Clients : Request(c) \/ Step(c)

\* A goroutine that serves a call keeps running; nobody need ever call.
Fairness == \A c \in Clients : WF_vars(Step(c))

Spec == Init /\ [][Next]_vars

FairSpec == Spec /\ Fairness
-----------------------------------------------------------------------------
Entries == [Keys -> Records \cup {NoRecord}]

Transactions ==
  [mode : {"ReadOnly", "ReadWrite"}, readset : [Keys -> Nat \cup {Unread}],
   writes : Entries, deletes : SUBSET Keys,
   status : {"open", "committed", "rolled"}]

\* The shape of the state of service.go and its two stores.
TypeOK ==
  /\ entries \in Entries
  /\ etcd \in [revision : Nat,
              kv : [Keys -> [value : Records \cup {NoRecord}, modRevision : Nat]]]
  /\ pc \in [Clients -> {"idle", "read", "commit", "etcd"}]
  /\ req \in [Clients -> Requests \cup {NoRequest}]
  /\ tx \in [Clients -> Transactions]
  /\ attempt \in [Clients -> 0..MaxRetries]
  /\ resp \in [Clients -> {"none", "ok", "refused", "gaveup", "conflict"}]
  /\ calls \in [Clients -> 0..MaxCalls]
  /\ overtaken \in [Clients -> Nat]

\* A transaction fails validation only because another call committed on the
\* same key since this attempt read it: every lost attempt is paid for by a
\* commit of somebody else, so a caller is turned away with a serialization
\* error (service.go:264) only after MaxRetries other writes succeeded.
LostAttemptsOvertaken ==
  \A c \in Clients :
    /\ attempt[c] <= overtaken[c]
    /\ resp[c] = "gaveup" => overtaken[c] >= MaxRetries

\* A caller that read a record before it wrote (handlePutSegment's Get then
\* Put, a caller of the RPC that passes on what it was answered) replaces
\* that very record and nothing written since.
NoLostUpdate ==
  [][\A c \in Clients :
       (pc[c] = "commit" /\ pc'[c] = "etcd" /\ req[c].basis # NoRecord)
         => entries[req[c].key] = req[c].basis]_vars

\* Every call is answered, whatever the interleaving: the retry loop of
\* service.go:254 is bounded and nothing blocks.
EveryCallReturns ==
  \A c \in Clients : (pc[c] # "idle") ~> (pc[c] = "idle")
-----------------------------------------------------------------------------
\* What the abstract store sees of a request.
AbsCall(r) ==
  IF r = NoRequest THEN NoRequest
  ELSE [op |-> r.op, key |-> r.key, value |-> r.value,
        expectedVersion |-> r.expectedVersion]

\* A write counts as applied when its transaction commits, however its etcd
\* step ends.
AbsOutcome(c) ==
  CASE pc[c] \in {"read", "commit"} -> "pending"
    [] pc[c] = "etcd" -> "applied"
    [] pc[c] = "idle" /\ resp[c] \in {"ok", "conflict"} -> "applied"
    [] OTHER -> resp[c]

Abs == INSTANCE VersionedStore
         WITH call    <- [c \in Clients |-> AbsCall(req[c])],
              outcome <- [c \in Clients |-> AbsOutcome(c)]

\* Read, validate and retry add up to one atomic conditional write: the
\* service implements VersionedStore.
ImplementsVersionedStore == Abs!Spec
=============================================================================
