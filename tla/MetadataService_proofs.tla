----------------------- MODULE MetadataService_proofs -----------------------
(***************************************************************************)
(* Proofs about MetadataService, for every set of clients, keys and values *)
(* and every retry budget; and, in the last part, about the callers of     *)
(* CasClients.                                                             *)
(***************************************************************************)
EXTENDS CasClients, TLAPS

\* A call in progress has a request, and budget left until it gives up.
CallShape(c) ==
  /\ pc[c] # "idle" => req[c] \in Requests
  /\ pc[c] \in {"read", "commit"} => attempt[c] < MaxRetries

\* The transaction of a call reads and writes the key of the call only, and
\* what it writes follows from the version it read.
TxShape(c) ==
  LET k == req[c].key
      t == tx[c]
  IN  /\ \A j \in Keys \ {k} :
           t.readset[j] = Unread /\ t.writes[j] = NoRecord /\ j \notin t.deletes
      /\ t.readset[k] \in Nat
      /\ req[c].expectedVersion > 0 => t.readset[k] = req[c].expectedVersion
      /\ req[c].op = "put" =>
           t.writes[k] = [value |-> req[c].value, version |-> t.readset[k] + 1]
      /\ req[c].op = "delete" =>
           t.writes[k] = NoRecord /\ k \in t.deletes /\ t.readset[k] > 0

\* A call is never ahead of the commits that overtook it; a transaction that
\* would fail validation has been overtaken since its attempt began.
Overtaking(c) ==
  /\ attempt[c] <= overtaken[c]
  /\ (pc[c] = "commit" /\ ~Validates(tx[c], entries)) => attempt[c] < overtaken[c]
  /\ resp[c] = "gaveup" => overtaken[c] >= MaxRetries

IndInv ==
  /\ TypeOK
  /\ \A c \in Clients : CallShape(c)
  /\ \A c \in Clients : pc[c] = "commit" => TxShape(c)
  /\ \A c \in Clients : Overtaking(c)
-----------------------------------------------------------------------------
\* The version of what a key holds: 0 exactly when it holds nothing.
LEMMA VersionOfStored ==
  ASSUME NEW rec \in Records \cup {NoRecord}
  PROVE  /\ VersionOf(rec) \in Nat
         /\ VersionOf(rec) = 0 <=> rec = NoRecord
         /\ rec # NoRecord => rec.version = VersionOf(rec)
<1>1. CASE rec = NoRecord
  BY <1>1 DEF VersionOf
<1>2. CASE rec # NoRecord
  <2>1. rec \in Records
    BY <1>2
  <2> QED
    BY <1>2, <2>1 DEF VersionOf, Records
<1> QED
  BY <1>1, <1>2

\* A transaction that has read one key.
LEMMA BegunRead ==
  ASSUME NEW key \in Keys, NEW v
  PROVE  [BeginTx("ReadWrite") EXCEPT !.readset[key] = v]
           = [mode    |-> "ReadWrite",
              readset |-> [k \in Keys |-> IF k = key THEN v ELSE Unread],
              writes  |-> [k \in Keys |-> NoRecord],
              deletes |-> {},
              status  |-> "open"]
<1>1. [[k \in Keys |-> Unread] EXCEPT ![key] = v] = [k \in Keys |-> IF k = key THEN v ELSE Unread]
  OBVIOUS
<1> QED
  BY <1>1 DEF BeginTx

\* The transaction of a request, read and buffered against the store: it
\* remembers the one version it read and carries the one change.
LEMMA TransactionOfRequest ==
  ASSUME entries \in Entries, NEW r \in Requests
  PROVE  LET t == Transaction(r)
             v == VersionOf(entries[r.key])
         IN  /\ t \in Transactions
             /\ t.readset = [k \in Keys |-> IF k = r.key THEN v ELSE Unread]
             /\ r.op = "put" =>
                  /\ t.writes = [k \in Keys |-> IF k = r.key THEN NewRec(r, entries[r.key])
                                                 ELSE NoRecord]
                  /\ t.deletes = {}
             /\ r.op = "delete" =>
                  /\ t.writes = [k \in Keys |-> NoRecord]
                  /\ t.deletes = {r.key}
<1> DEFINE begun == BeginTx("ReadWrite")
           read  == [begun EXCEPT !.readset[r.key] = VersionOf(entries[r.key])]
<1>1. r.key \in Keys /\ r.op \in {"put", "delete"}
  BY DEF Requests, PutRequests, DeleteRequests
<1>2. entries[r.key] \in Records \cup {NoRecord}
  BY <1>1 DEF Entries
<1>3. VersionOf(entries[r.key]) \in Nat
  BY <1>2, VersionOfStored
<1>4. ~Buffered(begun, r.key)
  BY <1>1 DEF BeginTx, Buffered
<1>5. GetResult(begun, entries, r.key) = entries[r.key] /\ AfterGet(begun, entries, r.key) = read
  BY <1>4 DEF GetResult, AfterGet
<1>6. read = [mode    |-> "ReadWrite",
              readset |-> [k \in Keys |-> IF k = r.key THEN VersionOf(entries[r.key]) ELSE Unread],
              writes  |-> [k \in Keys |-> NoRecord],
              deletes |-> {},
              status  |-> "open"]
  BY <1>1, BegunRead
<1> HIDE DEF begun, read
<1>7. CASE r.op = "delete"
  <2>1. Transaction(r) = [mode    |-> "ReadWrite",
              readset |-> [k \in Keys |-> IF k = r.key THEN VersionOf(entries[r.key]) ELSE Unread],
              writes  |-> [k \in Keys |-> NoRecord],
              deletes |-> {r.key},
              status  |-> "open"]
    <3>1. [[k \in Keys |-> NoRecord] EXCEPT ![r.key] = NoRecord] = [k \in Keys |-> NoRecord]
      BY <1>1
    <3>2. Transaction(r) = AfterDelete(read, r.key)
      BY <1>5, <1>7 DEF Transaction, begun
    <3> QED
      BY <1>6, <3>1, <3>2 DEF AfterDelete
  <2> QED
    BY <1>1, <1>3, <1>7, <2>1 DEF Transactions, Entries, Unread
<1>8. CASE r.op = "put"
  <2>1. NewRec(r, entries[r.key]) \in Records
    BY <1>3, <1>8 DEF NewRec, Records, Requests, PutRequests, DeleteRequests
  <2>2. Transaction(r) = [mode    |-> "ReadWrite",
              readset |-> [k \in Keys |-> IF k = r.key THEN VersionOf(entries[r.key]) ELSE Unread],
              writes  |-> [k \in Keys |-> IF k = r.key THEN NewRec(r, entries[r.key])
                                          ELSE NoRecord],
              deletes |-> {},
              status  |-> "open"]
    <3> SUFFICES ASSUME NEW rec \in Records, rec = NewRec(r, entries[r.key])
                 PROVE  Transaction(r) =
                   [mode    |-> "ReadWrite",
                    readset |-> [k \in Keys |-> IF k = r.key THEN VersionOf(entries[r.key]) ELSE Unread],
                    writes  |-> [k \in Keys |-> IF k = r.key THEN rec ELSE NoRecord],
                    deletes |-> {},
                    status  |-> "open"]
      BY <2>1
    <3>1. [[k \in Keys |-> NoRecord] EXCEPT ![r.key] = rec]
            = [k \in Keys |-> IF k = r.key THEN rec ELSE NoRecord]
      BY <1>1
    <3>2. Transaction(r) = AfterPut(read, r.key, rec)
      BY <1>5, <1>8 DEF Transaction, begun
    <3> QED
      BY <1>6, <3>1, <3>2 DEF AfterPut
  <2> QED
    BY <1>1, <1>3, <1>8, <2>1, <2>2 DEF Transactions, Entries, Unread
<1> QED
  BY <1>1, <1>7, <1>8
-----------------------------------------------------------------------------
\* What a commit does to the store, for a transaction of the shape that the
\* service builds: its key is as the transaction left it, no other key moves.
LEMMA CommitChangesOneKey ==
  ASSUME TypeOK, NEW c \in Clients, req[c] \in Requests, TxShape(c)
  PROVE  LET k == req[c].key
         IN  /\ Committed(tx[c], entries) \in Entries
             /\ \A j \in Keys \ {k} : Committed(tx[c], entries)[j] = entries[j]
             /\ Committed(tx[c], entries)[k] = tx[c].writes[k]
             /\ tx[c].writes[k] = NoRecord <=> req[c].op = "delete"
             /\ Validates(tx[c], entries) <=> VersionOf(entries[k]) = tx[c].readset[k]
<1> DEFINE k == req[c].key
<1>1. /\ k \in Keys /\ req[c].op \in {"put", "delete"}
      /\ req[c].op = "put" => req[c].value \in Values
  BY DEF Requests, PutRequests, DeleteRequests
<1>2. /\ tx[c].writes \in Entries /\ tx[c].readset \in [Keys -> Nat \cup {Unread}]
      /\ entries \in Entries
  BY DEF TypeOK, Transactions
<1>3. Committed(tx[c], entries) \in Entries
  BY <1>2 DEF Committed, Entries
<1>4. \A j \in Keys \ {k} : Committed(tx[c], entries)[j] = entries[j]
  BY DEF Committed, TxShape
<1>5. tx[c].writes[k] = NoRecord <=> req[c].op = "delete"
  <2>1. CASE req[c].op = "put"
    <3>1. tx[c].writes[k] \in Records
      BY <1>1, <2>1 DEF TxShape, Records
    <3> QED
      BY <2>1, <3>1, MarkersAssumption
  <2>2. CASE req[c].op = "delete"
    BY <2>2 DEF TxShape
  <2> QED
    BY <1>1, <2>1, <2>2
<1>6. Committed(tx[c], entries)[k] = tx[c].writes[k]
  BY <1>1, <1>5 DEF Committed, TxShape
<1>7. Validates(tx[c], entries) <=> VersionOf(entries[k]) = tx[c].readset[k]
  BY <1>1 DEF Validates, TxShape, Unread
<1> QED
  BY <1>3, <1>4, <1>5, <1>6, <1>7

\* The service starts in a state of the invariant.
LEMMA InitIndInv == Init => IndInv
<1> SUFFICES ASSUME Init PROVE IndInv
  OBVIOUS
<1>1. NoTx \in Transactions
  BY DEF NoTx, BeginTx, Transactions, Entries
<1>2. Etcd!New(Keys) \in [revision : Nat,
                kv : [Keys -> [value : Records \cup {NoRecord}, modRevision : Nat]]]
  BY DEF Etcd!New, Etcd!Absent
<1>3. TypeOK
  BY <1>1, <1>2, RetriesAssumption DEF Init, TypeOK, Entries
<1>4. \A c \in Clients : CallShape(c) /\ Overtaking(c) /\ pc[c] # "commit"
  BY DEF Init, CallShape, Overtaking
<1> QED
  BY <1>3, <1>4 DEF IndInv

\* A step of one call that leaves the store alone preserves the invariant if
\* the call itself is left in order.
LEMMA LocalStep ==
  ASSUME IndInv, TypeOK', NEW c \in Clients,
         entries' = entries,
         \A d \in Clients \ {c} :
           /\ pc'[d] = pc[d] /\ req'[d] = req[d] /\ tx'[d] = tx[d]
           /\ attempt'[d] = attempt[d] /\ resp'[d] = resp[d]
           /\ overtaken'[d] = overtaken[d],
         CallShape(c)',
         pc'[c] = "commit" => TxShape(c)',
         Overtaking(c)'
  PROVE  IndInv'
<1> SUFFICES ASSUME NEW d \in Clients, d # c
             PROVE  CallShape(d)' /\ (pc'[d] = "commit" => TxShape(d)') /\ Overtaking(d)'
  BY DEF IndInv
<1>1. CallShape(d)'
  BY DEF IndInv, CallShape
<1>2. pc'[d] = "commit" => TxShape(d)'
  BY DEF IndInv, TxShape
<1>3. Overtaking(d)'
  BY DEF IndInv, Overtaking, Validates
<1> QED
  BY <1>1, <1>2, <1>3

\* A new call.
LEMMA CallPreserves ==
  ASSUME IndInv, NEW c \in Clients, NEW r \in Requests, Call(c, r)
  PROVE  IndInv'
<1>1. TypeOK'
  BY RetriesAssumption DEF IndInv, TypeOK, Call
<1>2. CallShape(c)' /\ Overtaking(c)' /\ pc'[c] # "commit"
  BY RetriesAssumption DEF IndInv, TypeOK, Call, CallShape, Overtaking
<1> QED
  BY <1>1, <1>2, LocalStep DEF Call, IndInv, TypeOK

\* What the callers ask for are requests.
LEMMA RequestsAreCalls ==
  ASSUME IndInv, NEW c \in Clients, Request(c)
  PROVE  \E r \in Requests : Call(c, r)
<1> USE DEF PutRequest, DeleteRequest, Requests, PutRequests, DeleteRequests
<1>1. CASE PutMetadata(c)
  BY <1>1, RequestsAssumption DEF PutMetadata
<1>2. CASE DeleteMetadata(c)
  BY <1>2, RequestsAssumption DEF DeleteMetadata
<1>3. CASE HandleCreateVideo(c)
  BY <1>3, KeysAssumption DEF HandleCreateVideo, Unguarded
<1>4. CASE HandlePutSegment(c)
  <2>1. PICK k \in SegmentKeys, v \in Values :
          Call(c, PutRequest(k, v, VersionOf(GetMetadata(k)), Unguarded, GetMetadata(k)))
    BY <1>4 DEF HandlePutSegment
  <2>2. k \in Keys
    BY KeysAssumption
  <2>3. GetMetadata(k) = entries[k]
    BY <2>2 DEF GetMetadata, GetResult, Buffered, BeginTx
  <2>4. entries[k] \in Records \cup {NoRecord}
    BY <2>2 DEF IndInv, TypeOK, Entries
  <2>5. VersionOf(entries[k]) \in Nat
    BY <2>4, VersionOfStored
  <2>6. PutRequest(k, v, VersionOf(entries[k]), Unguarded, entries[k]) \in Requests
    BY <2>2, <2>4, <2>5 DEF Unguarded
  <2> QED
    BY <2>1, <2>3, <2>6
<1> QED
  BY <1>1, <1>2, <1>3, <1>4 DEF Request

\* The read of an attempt: what it buffers has the shape of its request, and
\* at this instant it would pass validation.
LEMMA ReadAndBufferPreserves ==
  ASSUME IndInv, NEW c \in Clients, ReadAndBuffer(c)
  PROVE  IndInv'
<1> DEFINE r == req[c]
           t == Transaction(r)
           v == VersionOf(entries[r.key])
<1>1. /\ r \in Requests /\ r.key \in Keys /\ r.op \in {"put", "delete"}
      /\ entries \in Entries /\ tx \in [Clients -> Transactions]
      /\ pc \in [Clients -> {"idle", "read", "commit", "etcd"}]
  BY DEF ReadAndBuffer, IndInv, CallShape, TypeOK, Requests, PutRequests, DeleteRequests
<1>2. /\ t \in Transactions
      /\ t.readset = [k \in Keys |-> IF k = r.key THEN v ELSE Unread]
      /\ r.op = "put" =>
           /\ t.writes = [k \in Keys |-> IF k = r.key THEN NewRec(r, entries[r.key])
                                          ELSE NoRecord]
           /\ t.deletes = {}
      /\ r.op = "delete" =>
           /\ t.writes = [k \in Keys |-> NoRecord]
           /\ t.deletes = {r.key}
  BY <1>1, TransactionOfRequest
<1>3. /\ tx'[c] = t /\ pc'[c] = "commit" /\ req'[c] = r /\ entries' = entries
      /\ attempt'[c] = attempt[c] /\ overtaken'[c] = overtaken[c] /\ resp'[c] = resp[c]
  BY <1>1 DEF ReadAndBuffer
<1>4. v \in Nat /\ (v = 0 <=> entries[r.key] = NoRecord)
  BY <1>1, VersionOfStored DEF Entries
<1>5. Accepts(r, entries[r.key])
  BY DEF ReadAndBuffer
<1>6. TypeOK'
  BY <1>1, <1>2 DEF IndInv, TypeOK, ReadAndBuffer
<1>7. TxShape(c)'
  <2>1. \A j \in Keys \ {r.key} :
          t.readset[j] = Unread /\ t.writes[j] = NoRecord /\ j \notin t.deletes
    BY <1>1, <1>2
  <2>2. t.readset[r.key] = v
    BY <1>1, <1>2
  <2>3. r.expectedVersion > 0 => v = r.expectedVersion
    BY <1>5 DEF Accepts
  <2>4. r.op = "put" => t.writes[r.key] = [value |-> r.value, version |-> v + 1]
    BY <1>1, <1>2 DEF NewRec
  <2>5. r.op = "delete" => t.writes[r.key] = NoRecord /\ r.key \in t.deletes /\ v > 0
    BY <1>1, <1>2, <1>4, <1>5 DEF Accepts
  <2> QED
    BY <1>3, <1>4, <2>1, <2>2, <2>3, <2>4, <2>5 DEF TxShape
<1>8. Validates(tx'[c], entries')
  BY <1>1, <1>2, <1>3 DEF Validates, Unread
<1>9. CallShape(c)' /\ Overtaking(c)'
  BY <1>1, <1>3, <1>8 DEF IndInv, CallShape, Overtaking, ReadAndBuffer
<1> QED
  BY <1>1, <1>3, <1>6, <1>7, <1>9, LocalStep DEF ReadAndBuffer

LEMMA NoTxTyped == NoTx \in Transactions
BY DEF NoTx, BeginTx, Transactions, Entries

\* The answers that change neither store.
LEMMA AnswerPreserves ==
  ASSUME IndInv, NEW c \in Clients, Refuse(c) \/ EtcdConflict(c)
  PROVE  IndInv'
<1>1. TypeOK'
  BY NoTxTyped DEF IndInv, TypeOK, Refuse, EtcdConflict, Answer
<1>2. CallShape(c)' /\ Overtaking(c)' /\ pc'[c] # "commit"
  BY DEF IndInv, TypeOK, Refuse, EtcdConflict, Answer, CallShape, Overtaking
<1> QED
  BY <1>1, <1>2, LocalStep DEF IndInv, TypeOK, Refuse, EtcdConflict, Answer

\* A failed validation is paid for: the call has been overtaken more often
\* than it has lost attempts.
LEMMA SerializationFailurePreserves ==
  ASSUME IndInv, NEW c \in Clients, Retry(c) \/ GiveUp(c)
  PROVE  IndInv'
<1>1. /\ attempt[c] \in Nat /\ attempt[c] < MaxRetries
      /\ overtaken[c] \in Nat /\ attempt[c] < overtaken[c]
      /\ attempt'[c] = attempt[c] + 1 /\ overtaken'[c] = overtaken[c]
  BY RetriesAssumption
     DEF IndInv, TypeOK, CallShape, Overtaking, Retry, GiveUp, SerializationFailure
<1>2. TypeOK'
  BY <1>1, NoTxTyped, RetriesAssumption
     DEF IndInv, TypeOK, Retry, GiveUp, SerializationFailure, Answer
<1>3. CallShape(c)'
  BY <1>1 DEF IndInv, TypeOK, CallShape, Retry, GiveUp, SerializationFailure, Answer
<1>4. Overtaking(c)' /\ pc'[c] # "commit"
  BY <1>1, RetriesAssumption
     DEF IndInv, TypeOK, Overtaking, Retry, GiveUp, SerializationFailure, Answer
<1> QED
  BY <1>2, <1>3, <1>4, LocalStep
     DEF IndInv, TypeOK, Retry, GiveUp, SerializationFailure, Answer

\* The item put in etcd is a record; etcd's revision stays a number.
LEMMA EtcdApplyPreserves ==
  ASSUME IndInv, NEW c \in Clients, EtcdApply(c)
  PROVE  IndInv'
<1> DEFINE k == req[c].key
<1>1. k \in Keys /\ tx[c].writes[k] \in Records \cup {NoRecord}
  BY DEF EtcdApply, IndInv, CallShape, TypeOK, Transactions, Entries,
         Requests, PutRequests, DeleteRequests
<1>2. etcd' \in [revision : Nat,
                 kv : [Keys -> [value : Records \cup {NoRecord}, modRevision : Nat]]]
  BY <1>1 DEF IndInv, TypeOK, EtcdApply, Etcd!OpPut, Etcd!OpDelete, Etcd!Absent
<1>3. TypeOK'
  BY <1>2, NoTxTyped DEF IndInv, TypeOK, EtcdApply, Answer
<1>4. CallShape(c)' /\ Overtaking(c)' /\ pc'[c] # "commit"
  BY DEF IndInv, TypeOK, EtcdApply, Answer, CallShape, Overtaking
<1> QED
  BY <1>3, <1>4, LocalStep DEF IndInv, TypeOK, EtcdApply, Answer

\* A commit changes one key and counts itself against every other call on that
\* key, whose transaction it may have invalidated; no other call is affected.
LEMMA CommitPreserves ==
  ASSUME IndInv, NEW c \in Clients, Commit(c)
  PROVE  IndInv'
<1> DEFINE k == req[c].key
<1>1. TypeOK /\ req[c] \in Requests /\ TxShape(c) /\ k \in Keys
  BY DEF IndInv, CallShape, Commit, Requests, PutRequests, DeleteRequests
<1>2. entries' \in Entries /\ \A j \in Keys \ {k} : entries'[j] = entries[j]
  BY <1>1, CommitChangesOneKey DEF Commit
<1>3. /\ req' = req /\ tx' = tx /\ attempt' = attempt /\ resp' = resp
      /\ pc' = [pc EXCEPT ![c] = "etcd"]
      /\ overtaken' = [d \in Clients |-> IF Overtakes(c, d) THEN overtaken[d] + 1
                                         ELSE overtaken[d]]
  BY DEF Commit
<1>4. TypeOK'
  BY <1>2, <1>3 DEF IndInv, TypeOK, Commit
<1>5. ASSUME NEW d \in Clients PROVE CallShape(d)'
  BY <1>1, <1>3 DEF IndInv, TypeOK, CallShape
<1>6. ASSUME NEW d \in Clients PROVE pc'[d] = "commit" => TxShape(d)'
  BY <1>1, <1>3 DEF IndInv, TypeOK, TxShape
<1>7. ASSUME NEW d \in Clients PROVE Overtaking(d)'
  <2>1. /\ attempt[d] \in Nat /\ overtaken[d] \in Nat /\ overtaken'[d] \in Nat
        /\ overtaken[d] <= overtaken'[d]
        /\ Overtakes(c, d) => overtaken'[d] = overtaken[d] + 1
        /\ attempt[d] <= overtaken[d]
    BY <1>1, <1>3 DEF IndInv, TypeOK, Overtaking
  <2>2. ASSUME pc'[d] = "commit", ~Validates(tx'[d], entries')
        PROVE  attempt'[d] < overtaken'[d]
    <3>1. d # c /\ pc[d] = "commit" /\ TxShape(d) /\ req[d] \in Requests
      BY <1>1, <1>3, <2>2 DEF IndInv, TypeOK, CallShape
    <3>2. CASE req[d].key = k
      BY <1>3, <2>1, <3>1, <3>2 DEF Overtakes
    <3>3. CASE req[d].key # k
      <4>1. req[d].key \in Keys
        BY <3>1 DEF Requests, PutRequests, DeleteRequests
      <4>2. ~Validates(tx[d], entries)
        BY <1>1, <1>2, <1>3, <2>2, <3>1, <3>3, <4>1 DEF Validates, TxShape
      <4> QED
        BY <1>3, <2>1, <3>1, <4>2 DEF IndInv, Overtaking
    <3> QED
      BY <3>2, <3>3
  <2>3. resp'[d] = "gaveup" => overtaken'[d] >= MaxRetries
    BY <1>3, <2>1, RetriesAssumption DEF IndInv, Overtaking
  <2> QED
    BY <1>3, <2>1, <2>2, <2>3 DEF Overtaking
<1> QED
  BY <1>4, <1>5, <1>6, <1>7 DEF IndInv

\* Every step of the service preserves the invariant.
LEMMA NextIndInv == IndInv /\ [Next]_vars => IndInv'
<1> SUFFICES ASSUME IndInv, [Next]_vars PROVE IndInv'
  OBVIOUS
<1>1. CASE UNCHANGED vars
  BY <1>1 DEF vars, IndInv, TypeOK, CallShape, TxShape, Overtaking, Validates
<1>2. ASSUME NEW c \in Clients, Request(c) PROVE IndInv'
  BY <1>2, RequestsAreCalls, CallPreserves
<1>3. ASSUME NEW c \in Clients, Step(c) PROVE IndInv'
  BY <1>3, ReadAndBufferPreserves, AnswerPreserves, CommitPreserves,
     SerializationFailurePreserves, EtcdApplyPreserves DEF Step
<1> QED
  BY <1>1, <1>2, <1>3 DEF Next

\* The inductive invariant holds in every reachable state.
THEOREM Invariance == Spec => []IndInv
BY InitIndInv, NextIndInv, PTL DEF Spec

\* Every reachable state of service.go and its stores has the shape of TypeOK:
\* no record is stored without a version, and no call ever uses more than its
\* MaxRetries attempts.
THEOREM TypeCorrect == Spec => []TypeOK
<1>1. IndInv => TypeOK
  BY DEF IndInv
<1> QED
  BY <1>1, Invariance, PTL

\* A call that loses an attempt was overtaken by another call's commit on its
\* key, and one that gives up was overtaken at least MaxRetries times.
THEOREM AttemptsPaidFor == Spec => []LostAttemptsOvertaken
<1>1. IndInv => LostAttemptsOvertaken
  BY DEF IndInv, Overtaking, LostAttemptsOvertaken
<1> QED
  BY <1>1, Invariance, PTL
-----------------------------------------------------------------------------
\* The requests of the two specifications.
LEMMA AbsCallOfRequest ==
  ASSUME NEW r \in Requests
  PROVE  /\ AbsCall(r) \in Abs!Requests
         /\ AbsCall(r) = [op |-> r.op, key |-> r.key, value |-> r.value,
                          expectedVersion |-> r.expectedVersion]
BY MarkersAssumption
   DEF AbsCall, Requests, PutRequests, DeleteRequests,
       Abs!Requests, Abs!PutRequests, Abs!DeleteRequests

LEMMA InitRefines == Init => Abs!Init
BY DEF Init, Abs!Init, AbsCall, AbsOutcome

\* Steps that the abstract store does not see.
LEMMA StutterRefines ==
  ASSUME IndInv, NEW c \in Clients,
         ReadAndBuffer(c) \/ Retry(c) \/ EtcdApply(c) \/ EtcdConflict(c)
  PROVE  UNCHANGED Abs!absVars
<1>1. entries' = entries /\ req' = req
  BY DEF ReadAndBuffer, Retry, SerializationFailure, EtcdApply, EtcdConflict
<1>2. ASSUME NEW d \in Clients PROVE AbsOutcome(d)' = AbsOutcome(d)
  BY DEF IndInv, TypeOK, AbsOutcome, Answer,
         ReadAndBuffer, Retry, SerializationFailure, EtcdApply, EtcdConflict
<1> QED
  BY <1>1, <1>2 DEF Abs!absVars

\* A step that leaves the outcome of every other client alone.
LEMMA OutcomeExcept ==
  ASSUME NEW c \in Clients, NEW o,
         AbsOutcome(c)' = o,
         \A d \in Clients \ {c} : AbsOutcome(d)' = AbsOutcome(d)
  PROVE  [d \in Clients |-> AbsOutcome(d)]'
           = [[d \in Clients |-> AbsOutcome(d)] EXCEPT ![c] = o]
OBVIOUS

LEMMA CallRefines ==
  ASSUME IndInv, NEW c \in Clients, NEW r \in Requests, Call(c, r)
  PROVE  Abs!Invoke(c)
<1> DEFINE calls0 == [d \in Clients |-> AbsCall(req[d])]
<1>1. /\ req' = [req EXCEPT ![c] = r] /\ entries' = entries
      /\ pc' = [pc EXCEPT ![c] = "read"] /\ resp' = [resp EXCEPT ![c] = "none"]
      /\ pc[c] = "idle" /\ pc \in [Clients -> {"idle", "read", "commit", "etcd"}]
      /\ resp \in [Clients -> {"none", "ok", "refused", "gaveup", "conflict"}]
      /\ req'[c] = r
  BY DEF Call, IndInv, TypeOK
<1>2. AbsOutcome(c) # "pending"
  BY <1>1 DEF AbsOutcome
<1>3. AbsOutcome(c)' = "pending"
  BY <1>1 DEF AbsOutcome
<1>4. \A d \in Clients \ {c} : AbsOutcome(d)' = AbsOutcome(d) /\ req'[d] = req[d]
  BY <1>1 DEF AbsOutcome
<1>5. calls0' = [calls0 EXCEPT ![c] = AbsCall(r)]
  <2>1. \A d \in Clients : AbsCall(req[d])' = IF d = c THEN AbsCall(r) ELSE AbsCall(req[d])
    BY <1>1, <1>4 DEF AbsCall
  <2> QED
    BY <2>1
<1>6. calls0'[c] = AbsCall(r) /\ AbsCall(r) \in Abs!Requests
  BY <1>1, AbsCallOfRequest
<1>7. [d \in Clients |-> AbsOutcome(d)]'
        = [[d \in Clients |-> AbsOutcome(d)] EXCEPT ![c] = "pending"]
  BY <1>3, <1>4, OutcomeExcept
<1> QED
  BY <1>1, <1>2, <1>5, <1>6, <1>7 DEF Abs!Invoke

\* The record read is refused only where the abstract request does not hold.
LEMMA RefuseRefines ==
  ASSUME IndInv, NEW c \in Clients, Refuse(c)
  PROVE  Abs!Refuse(c)
<1> DEFINE calls0 == [d \in Clients |-> AbsCall(req[d])]
<1>1. /\ req' = req /\ entries' = entries /\ req[c] \in Requests
      /\ pc' = [pc EXCEPT ![c] = "idle"] /\ resp' = [resp EXCEPT ![c] = "refused"]
      /\ pc[c] = "read" /\ pc \in [Clients -> {"idle", "read", "commit", "etcd"}]
      /\ resp \in [Clients -> {"none", "ok", "refused", "gaveup", "conflict"}]
      /\ ~Accepts(req[c], entries[req[c].key])
  BY DEF Refuse, Answer, IndInv, TypeOK, CallShape
<1>2. AbsOutcome(c) = "pending" /\ AbsOutcome(c)' = "refused"
  BY <1>1 DEF AbsOutcome
<1>3. \A d \in Clients \ {c} : AbsOutcome(d)' = AbsOutcome(d)
  BY <1>1 DEF AbsOutcome
<1>4. ~Abs!Holds(calls0[c])
  BY <1>1, AbsCallOfRequest DEF Abs!Holds, Abs!StoredVersion, Accepts, VersionOf
<1>5. [d \in Clients |-> AbsOutcome(d)]'
        = [[d \in Clients |-> AbsOutcome(d)] EXCEPT ![c] = "refused"]
  BY <1>2, <1>3, OutcomeExcept
<1> QED
  BY <1>1, <1>2, <1>4, <1>5 DEF Abs!Refuse

LEMMA GiveUpRefines ==
  ASSUME IndInv, NEW c \in Clients, GiveUp(c)
  PROVE  Abs!GiveUp(c)
<1>1. /\ req' = req /\ entries' = entries
      /\ pc' = [pc EXCEPT ![c] = "idle"] /\ resp' = [resp EXCEPT ![c] = "gaveup"]
      /\ pc[c] = "commit" /\ pc \in [Clients -> {"idle", "read", "commit", "etcd"}]
      /\ resp \in [Clients -> {"none", "ok", "refused", "gaveup", "conflict"}]
  BY DEF GiveUp, SerializationFailure, Answer, IndInv, TypeOK
<1>2. AbsOutcome(c) = "pending" /\ AbsOutcome(c)' = "gaveup"
  BY <1>1 DEF AbsOutcome
<1>3. \A d \in Clients \ {c} : AbsOutcome(d)' = AbsOutcome(d)
  BY <1>1 DEF AbsOutcome
<1>4. [d \in Clients |-> AbsOutcome(d)]'
        = [[d \in Clients |-> AbsOutcome(d)] EXCEPT ![c] = "gaveup"]
  BY <1>2, <1>3, OutcomeExcept
<1> QED
  BY <1>1, <1>2, <1>4 DEF Abs!GiveUp

\* A commit is the abstract write: what the transaction validated says that the
\* caller's expectation holds now, and what it wrote is numbered after the
\* record it replaces.
LEMMA CommitRefines ==
  ASSUME IndInv, NEW c \in Clients, Commit(c)
  PROVE  Abs!Apply(c)
<1> DEFINE k == req[c].key
           calls0 == [d \in Clients |-> AbsCall(req[d])]
<1>1. /\ req' = req /\ resp' = resp /\ req[c] \in Requests /\ TypeOK /\ TxShape(c)
      /\ pc' = [pc EXCEPT ![c] = "etcd"]
      /\ pc[c] = "commit" /\ pc \in [Clients -> {"idle", "read", "commit", "etcd"}]
      /\ Validates(tx[c], entries) /\ entries' = Committed(tx[c], entries)
  BY DEF Commit, IndInv, TypeOK, CallShape
<1>2. /\ k \in Keys /\ req[c].op \in {"put", "delete"} /\ req[c].expectedVersion \in Nat
      /\ entries \in Entries /\ entries[k] \in Records \cup {NoRecord}
  BY <1>1 DEF TypeOK, Entries, Requests, PutRequests, DeleteRequests
<1>3. /\ entries' \in Entries /\ \A j \in Keys \ {k} : entries'[j] = entries[j]
      /\ entries'[k] = tx[c].writes[k]
      /\ VersionOf(entries[k]) = tx[c].readset[k]
  BY <1>1, CommitChangesOneKey
<1>4. AbsOutcome(c) = "pending" /\ AbsOutcome(c)' = "applied"
  BY <1>1 DEF AbsOutcome
<1>5. \A d \in Clients \ {c} : AbsOutcome(d)' = AbsOutcome(d)
  BY <1>1 DEF AbsOutcome
<1>6. calls0[c] = [op |-> req[c].op, key |-> k, value |-> req[c].value,
                   expectedVersion |-> req[c].expectedVersion]
  BY <1>1, AbsCallOfRequest
<1>7. Abs!Holds(calls0[c])
  <2>1. req[c].expectedVersion > 0 => VersionOf(entries[k]) = req[c].expectedVersion
    BY <1>1, <1>3 DEF TxShape
  <2>2. req[c].op = "delete" => entries[k] # NoRecord
    BY <1>1, <1>2, <1>3, VersionOfStored DEF TxShape
  <2> QED
    BY <1>6, <2>1, <2>2 DEF Abs!Holds, Abs!StoredVersion, VersionOf
<1>8. tx[c].writes[k] = Abs!Effect(calls0[c])
  <2>1. CASE req[c].op = "put"
    BY <1>1, <1>3, <1>6, <2>1 DEF TxShape, Abs!Effect, Abs!StoredVersion, VersionOf
  <2>2. CASE req[c].op = "delete"
    BY <1>1, <1>6, <2>2 DEF TxShape, Abs!Effect
  <2> QED
    BY <1>2, <2>1, <2>2
<1>9. entries' = [entries EXCEPT ![k] = Abs!Effect(calls0[c])]
  BY <1>2, <1>3, <1>8 DEF Entries
<1>10. [d \in Clients |-> AbsOutcome(d)]'
         = [[d \in Clients |-> AbsOutcome(d)] EXCEPT ![c] = "applied"]
  BY <1>4, <1>5, OutcomeExcept
<1>11. UNCHANGED calls0
  BY <1>1 DEF AbsCall
<1>12. [d \in Clients |-> AbsOutcome(d)][c] = "pending"
  BY <1>4
<1>13. entries' = [entries EXCEPT ![calls0[c].key] = Abs!Effect(calls0[c])]
  <2>1. calls0[c].key = k
    BY <1>6
  <2> QED
    BY <2>1, <1>9
<1> HIDE DEF k, calls0
<1> QED
  BY <1>7, <1>10, <1>11, <1>12, <1>13 DEF Abs!Apply, calls0

\* Every step of the service is a step of the abstract store or invisible to it.
LEMMA NextRefines == IndInv /\ [Next]_vars => [Abs!Next]_(Abs!absVars)
<1> SUFFICES ASSUME IndInv, [Next]_vars PROVE [Abs!Next]_(Abs!absVars)
  OBVIOUS
<1>1. CASE UNCHANGED vars
  BY <1>1 DEF vars, Abs!absVars, AbsCall, AbsOutcome
<1>2. ASSUME NEW c \in Clients, Request(c) PROVE Abs!Next
  BY <1>2, RequestsAreCalls, CallRefines DEF Abs!Next
<1>3. ASSUME NEW c \in Clients, Step(c) PROVE [Abs!Next]_(Abs!absVars)
  <2>1. CASE Refuse(c)
    BY <2>1, RefuseRefines DEF Abs!Next
  <2>2. CASE Commit(c)
    BY <2>2, CommitRefines DEF Abs!Next
  <2>3. CASE GiveUp(c)
    BY <2>3, GiveUpRefines DEF Abs!Next
  <2>4. CASE ReadAndBuffer(c) \/ Retry(c) \/ EtcdApply(c) \/ EtcdConflict(c)
    BY <2>4, StutterRefines
  <2> QED
    BY <1>3, <2>1, <2>2, <2>3, <2>4 DEF Step
<1> QED
  BY <1>1, <1>2, <1>3 DEF Next

\* The service implements the abstract store: with its transactions, retries
\* and lost validations, every write of PutMetadata and DeleteMetadata is one
\* atomic conditional write, refused only where its expectation fails.
THEOREM Refinement == Spec => ImplementsVersionedStore
<1>1. Spec => []IndInv
  BY Invariance
<1> QED
  BY <1>1, InitRefines, NextRefines, PTL DEF Spec, ImplementsVersionedStore, Abs!Spec
-----------------------------------------------------------------------------
\* No lost update through the HTTP handlers, for any number of callers.  The
\* handlers never delete, so the versions of a key only grow and one version
\* stands for one record: that is what makes the version compare of PutMetadata
\* enough; with deletes it is not (CasClients, Recreate).

\* The record a pending call is based on is still there, or newer ones are.
BasisInv ==
  \A c \in Clients :
    LET r == req[c]
    IN  pc[c] # "idle" =>
          /\ r.op = "put"
          /\ (pc[c] \in {"read", "commit"} /\ r.basis # NoRecord) =>
               /\ r.expectedVersion = VersionOf(r.basis)
               /\ VersionOf(r.basis) <= VersionOf(entries[r.key])
               /\ VersionOf(r.basis) = VersionOf(entries[r.key]) => entries[r.key] = r.basis

LEMMA InitBasis == Init => BasisInv
BY DEF Init, BasisInv

\* What the handlers ask for: a put that expects the version of the record
\* found, if there was one.
LEMMA HandlersPut ==
  ASSUME ExpectedVersions = {}, IndInv, NEW c \in Clients, Request(c)
  PROVE  \E r \in Requests :
           /\ Call(c, r)
           /\ r.op = "put"
           /\ r.basis # NoRecord =>
                r.basis = entries[r.key] /\ r.expectedVersion = VersionOf(r.basis)
<1> USE DEF PutRequest, Requests, PutRequests, DeleteRequests
<1>1. HandleCreateVideo(c) \/ HandlePutSegment(c)
  BY DEF Request, PutMetadata, DeleteMetadata
<1>2. CASE HandleCreateVideo(c)
  BY <1>2, KeysAssumption DEF HandleCreateVideo, Unguarded
<1>3. CASE HandlePutSegment(c)
  <2>1. PICK k \in SegmentKeys, v \in Values :
          Call(c, PutRequest(k, v, VersionOf(GetMetadata(k)), Unguarded, GetMetadata(k)))
    BY <1>3 DEF HandlePutSegment
  <2>2. k \in Keys
    BY KeysAssumption
  <2>3. GetMetadata(k) = entries[k]
    BY <2>2 DEF GetMetadata, GetResult, Buffered, BeginTx
  <2>4. entries[k] \in Records \cup {NoRecord}
    BY <2>2 DEF IndInv, TypeOK, Entries
  <2>5. VersionOf(entries[k]) \in Nat
    BY <2>4, VersionOfStored
  <2> DEFINE r == PutRequest(k, v, VersionOf(entries[k]), Unguarded, entries[k])
  <2>6. r \in Requests
    BY <2>2, <2>4, <2>5 DEF Unguarded
  <2>7. r.op = "put" /\ r.key = k /\ r.basis = entries[k]
        /\ r.expectedVersion = VersionOf(entries[k])
    OBVIOUS
  <2> QED
    BY <2>1, <2>3, <2>6, <2>7
<1> QED
  BY <1>1, <1>2, <1>3

\* A new call is based on what is stored.
LEMMA CallBasis ==
  ASSUME ExpectedVersions = {}, IndInv, BasisInv, NEW c \in Clients, Request(c)
  PROVE  BasisInv'
<1>1. PICK r \in Requests :
        /\ Call(c, r)
        /\ r.op = "put"
        /\ r.basis # NoRecord =>
             r.basis = entries[r.key] /\ r.expectedVersion = VersionOf(r.basis)
  BY HandlersPut
<1>2. r.key \in Keys
  BY DEF Requests, PutRequests, DeleteRequests
<1>3. VersionOf(entries[r.key]) \in Nat
  BY <1>2, VersionOfStored DEF IndInv, TypeOK, Entries
<1>4. /\ entries' = entries
      /\ req' = [req EXCEPT ![c] = r] /\ pc' = [pc EXCEPT ![c] = "read"]
      /\ DOMAIN req = Clients /\ DOMAIN pc = Clients
  BY <1>1 DEF Call, IndInv, TypeOK
<1> SUFFICES ASSUME NEW d \in Clients, pc'[d] # "idle"
             PROVE  /\ req'[d].op = "put"
                    /\ (pc'[d] \in {"read", "commit"} /\ req'[d].basis # NoRecord) =>
                         /\ req'[d].expectedVersion = VersionOf(req'[d].basis)
                         /\ VersionOf(req'[d].basis) <= VersionOf(entries'[req'[d].key])
                         /\ VersionOf(req'[d].basis) = VersionOf(entries'[req'[d].key])
                              => entries'[req'[d].key] = req'[d].basis
  BY DEF BasisInv, VersionOf
<1>5. CASE d = c
  BY <1>1, <1>3, <1>4, <1>5
<1>6. CASE d # c
  BY <1>4, <1>6 DEF BasisInv
<1> QED
  BY <1>5, <1>6

\* A commit replaces the record of its key by one with the next version.
LEMMA CommitRaisesVersion ==
  ASSUME IndInv, BasisInv, NEW c \in Clients, Commit(c)
  PROVE  LET k == req[c].key
         IN  /\ VersionOf(entries[k]) \in Nat
             /\ VersionOf(entries'[k]) = VersionOf(entries[k]) + 1
             /\ \A j \in Keys \ {k} : entries'[j] = entries[j]
<1> DEFINE k == req[c].key
<1>1. /\ TypeOK /\ req[c] \in Requests /\ TxShape(c) /\ k \in Keys
      /\ req[c].op = "put" /\ req[c].value \in Values
  BY DEF IndInv, BasisInv, CallShape, Commit, Requests, PutRequests, DeleteRequests
<1>2. VersionOf(entries[k]) \in Nat
  BY <1>1, VersionOfStored DEF TypeOK, Entries
<1>3. /\ \A j \in Keys \ {k} : entries'[j] = entries[j]
      /\ entries'[k] = tx[c].writes[k] /\ tx[c].writes[k] # NoRecord
      /\ VersionOf(entries[k]) = tx[c].readset[k]
  BY <1>1, CommitChangesOneKey DEF Commit
<1>4. entries'[k].version = VersionOf(entries[k]) + 1
  BY <1>1, <1>3 DEF TxShape
<1> QED
  BY <1>2, <1>3, <1>4 DEF VersionOf

LEMMA CommitBasis ==
  ASSUME IndInv, BasisInv, NEW c \in Clients, Commit(c)
  PROVE  BasisInv'
<1> DEFINE k == req[c].key
<1>1. /\ VersionOf(entries[k]) \in Nat
      /\ VersionOf(entries'[k]) = VersionOf(entries[k]) + 1
      /\ \A j \in Keys \ {k} : entries'[j] = entries[j]
  BY CommitRaisesVersion
<1>2. req' = req /\ pc' = [pc EXCEPT ![c] = "etcd"] /\ DOMAIN pc = Clients
  BY DEF Commit, IndInv, TypeOK
<1> SUFFICES ASSUME NEW d \in Clients, pc'[d] # "idle"
             PROVE  /\ req[d].op = "put"
                    /\ (pc'[d] \in {"read", "commit"} /\ req[d].basis # NoRecord) =>
                         /\ req[d].expectedVersion = VersionOf(req[d].basis)
                         /\ VersionOf(req[d].basis) <= VersionOf(entries'[req[d].key])
                         /\ VersionOf(req[d].basis) = VersionOf(entries'[req[d].key])
                              => entries'[req[d].key] = req[d].basis
  BY <1>2 DEF BasisInv, VersionOf
<1>3. CASE d = c
  BY <1>2, <1>3 DEF BasisInv, Commit
<1>4. CASE d # c
  <2>1. pc'[d] = pc[d] /\ req[d].op = "put" /\ req[d] \in Requests
    BY <1>2, <1>4 DEF BasisInv, IndInv, CallShape
  <2>2. req[d].key \in Keys /\ req[d].basis \in Records \cup {NoRecord}
    BY <2>1 DEF Requests, PutRequests, DeleteRequests
  <2>3. VersionOf(req[d].basis) \in Nat
    BY <2>2, VersionOfStored
  <2>4. CASE req[d].key = k
    BY <1>1, <2>1, <2>3, <2>4 DEF BasisInv
  <2>5. CASE req[d].key # k
    BY <1>1, <2>1, <2>2, <2>5 DEF BasisInv
  <2> QED
    BY <2>4, <2>5
<1> QED
  BY <1>3, <1>4

\* The other steps leave the store and the requests alone and never go back
\* from "etcd" to an attempt.
LEMMA OtherStepBasis ==
  ASSUME IndInv, BasisInv, NEW c \in Clients,
         \/ ReadAndBuffer(c) \/ Refuse(c) \/ Retry(c) \/ GiveUp(c)
         \/ EtcdApply(c) \/ EtcdConflict(c)
  PROVE  BasisInv'
<1>1. /\ entries' = entries /\ req' = req
      /\ \A d \in Clients :
           /\ pc'[d] # "idle" => pc[d] # "idle"
           /\ pc'[d] \in {"read", "commit"} => pc[d] \in {"read", "commit"}
  BY DEF IndInv, TypeOK, ReadAndBuffer, Refuse, Retry, GiveUp, SerializationFailure,
         EtcdApply, EtcdConflict, Answer
<1> QED
  BY <1>1 DEF BasisInv, VersionOf

LEMMA NextBasis ==
  ASSUME ExpectedVersions = {}
  PROVE  IndInv /\ BasisInv /\ [Next]_vars => BasisInv'
<1> SUFFICES ASSUME IndInv, BasisInv, [Next]_vars PROVE BasisInv'
  OBVIOUS
<1>1. CASE UNCHANGED vars
  BY <1>1 DEF vars, BasisInv, VersionOf
<1>2. ASSUME NEW c \in Clients, Request(c) PROVE BasisInv'
  BY <1>2, CallBasis
<1>3. ASSUME NEW c \in Clients, Step(c) PROVE BasisInv'
  BY <1>3, CommitBasis, OtherStepBasis DEF Step
<1> QED
  BY <1>1, <1>2, <1>3 DEF Next

\* The step that moves a call from "commit" to "etcd" is its commit, and its
\* validation says that the stored record is the one the call is based on.
LEMMA CommitKeepsBasis ==
  ASSUME IndInv, BasisInv, [Next]_vars, NEW c \in Clients,
         pc[c] = "commit", pc'[c] = "etcd", req[c].basis # NoRecord
  PROVE  entries[req[c].key] = req[c].basis
<1>1. Commit(c)
  BY DEF Next, vars, Request, Step, PutMetadata, DeleteMetadata, HandleCreateVideo,
         HandlePutSegment, Call, ReadAndBuffer, Refuse, Commit, Retry, GiveUp,
         SerializationFailure, EtcdApply, EtcdConflict, Answer, IndInv, TypeOK
<1>2. TypeOK /\ req[c] \in Requests /\ TxShape(c)
  BY DEF IndInv, CallShape
<1>3. VersionOf(entries[req[c].key]) = tx[c].readset[req[c].key]
  BY <1>1, <1>2, CommitChangesOneKey DEF Commit
<1>4. req[c].expectedVersion = VersionOf(req[c].basis)
      /\ (VersionOf(req[c].basis) = VersionOf(entries[req[c].key])
            => entries[req[c].key] = req[c].basis)
  BY DEF BasisInv
<1>5. VersionOf(req[c].basis) \in Nat \ {0}
  <2>1. req[c].basis \in Records
    BY <1>2 DEF Requests, PutRequests, DeleteRequests
  <2> QED
    BY <2>1, VersionOfStored
<1> QED
  BY <1>2, <1>3, <1>4, <1>5 DEF TxShape

\* A segment that handlePutSegment found and replaces is, at the instant of
\* the commit, the very record it found: whatever other handlers did between
\* its GetMetadata and its transaction, and however often it was retried.
THEOREM HttpNoLostUpdate ==
  ASSUME ExpectedVersions = {}
  PROVE  Spec => NoLostUpdate
<1>1. Init => BasisInv
  BY InitBasis
<1>2. IndInv /\ BasisInv /\ [Next]_vars => BasisInv'
  BY NextBasis
<1>3. IndInv /\ BasisInv /\ [Next]_vars =>
        [\A c \in Clients :
           (pc[c] = "commit" /\ pc'[c] = "etcd" /\ req[c].basis # NoRecord)
             => entries[req[c].key] = req[c].basis]_vars
  BY CommitKeepsBasis
<1> QED
  BY <1>1, <1>2, <1>3, Invariance, PTL DEF Spec, NoLostUpdate
-----------------------------------------------------------------------------
(***************************************************************************)
(* Callers that pass on versions and revisions, beside the HTTP handlers,  *)
(* for any number of both: as long as no key is created twice, etcd        *)
(* follows the store on the callers' keys, the compare after the commit    *)
(* never fails, and what a caller has read is what it replaces.            *)
(***************************************************************************)
AckTypes ==
  /\ acks \in [CasKeys -> SUBSET [item : Records, etcdRevision : Nat]]
  /\ fresh \subseteq CasKeys

Pending(c, k) == pc[c] # "idle" /\ req[c].key = k

Copying(c, k) == pc[c] = "etcd" /\ req[c].key = k

\* The request that creates a key.
Creates(r) ==
  r.op = "put" /\ r.expectedVersion = 0 /\ r.expectedRevision = 0 /\ r.basis = NoRecord

\* A request that passes on a response.
BasedOn(r, a) ==
  /\ r.expectedVersion = a.item.version
  /\ r.expectedRevision = a.etcdRevision
  /\ r.basis = a.item

\* Until its creation is answered, a key has that one call at most, and etcd
\* has not heard of it.
Untouched(k) ==
  /\ k \in fresh => acks[k] = {} /\ \A c \in Clients : ~Pending(c, k)
  /\ acks[k] = {} =>
       /\ \A c, d \in Clients : Pending(c, k) /\ Pending(d, k) => c = d
       /\ etcd.kv[k] = Etcd!Absent
       /\ (\A c \in Clients : ~Copying(c, k)) => entries[k] = NoRecord

Based(c, k) ==
  Pending(c, k) /\ pc[c] \in {"read", "commit"} =>
    \/ acks[k] = {} /\ Creates(req[c])
    \/ \E a \in acks[k] : BasedOn(req[c], a)

\* A response with the stored version carries the stored record and etcd's
\* revision of it, and no change of the key is on its way to etcd.
AcksCurrent(k) ==
  \A a \in acks[k] :
    entries[k] # NoRecord =>
      /\ a.item.version <= entries[k].version
      /\ a.item.version = entries[k].version =>
           /\ a.item = entries[k]
           /\ etcd.kv[k].modRevision = a.etcdRevision
           /\ \A c \in Clients : ~Copying(c, k)

\* What is on its way to etcd is what is stored, and passes its compare.
CopyPasses(c, k) ==
  Copying(c, k) =>
    /\ EtcdGuard(req[c])
    /\ tx[c].writes[k] = entries[k]
    /\ req[c].op = "delete" <=> entries[k] = NoRecord

KeyInv(k) ==
  /\ Untouched(k)
  /\ AcksCurrent(k)
  /\ \A c \in Clients : Based(c, k) /\ CopyPasses(c, k)
  /\ \A c, d \in Clients : Copying(c, k) /\ Copying(d, k) => c = d
  /\ (\A c \in Clients : ~Copying(c, k)) => etcd.kv[k].value = entries[k]

\* The handlers put without a compare; what they have found is still stored
\* or newer records are.
HandlerBased(c) ==
  LET r == req[c]
  IN  pc[c] # "idle" /\ r.key \notin CasKeys =>
        /\ r.op = "put" /\ r.expectedRevision = Unguarded
        /\ (pc[c] \in {"read", "commit"} /\ r.basis # NoRecord) =>
             /\ r.expectedVersion = VersionOf(r.basis)
             /\ VersionOf(r.basis) <= VersionOf(entries[r.key])
             /\ VersionOf(r.basis) = VersionOf(entries[r.key]) => entries[r.key] = r.basis

CasInv ==
  /\ IndInv
  /\ AckTypes
  /\ \A k \in CasKeys : KeyInv(k)
  /\ \A c \in Clients : HandlerBased(c) /\ resp[c] # "conflict"
-----------------------------------------------------------------------------
\* Before the first call.
LEMMA InitCas == CasInit => CasInv
<1> SUFFICES ASSUME CasInit PROVE CasInv
  OBVIOUS
<1>1. IndInv
  BY InitIndInv DEF CasInit
<1>2. AckTypes
  BY DEF CasInit, AckTypes
<1>3. ASSUME NEW k \in CasKeys PROVE KeyInv(k)
  <2>1. /\ entries[k] = NoRecord /\ etcd.kv[k] = Etcd!Absent /\ acks[k] = {}
        /\ \A c \in Clients : pc[c] = "idle"
    BY DEF CasInit, Init, CasKeys, Etcd!New
  <2>2. etcd.kv[k].value = NoRecord
    BY <2>1 DEF Etcd!Absent
  <2> QED
    BY <2>1, <2>2
       DEF KeyInv, Untouched, AcksCurrent, Based, CopyPasses, Pending, Copying
<1>4. \A c \in Clients : HandlerBased(c) /\ resp[c] # "conflict"
  BY DEF CasInit, Init, HandlerBased
<1> QED
  BY <1>1, <1>2, <1>3, <1>4 DEF CasInv

\* What the key of a pending call is.
LEMMA PendingKey ==
  ASSUME IndInv, NEW c \in Clients, pc[c] # "idle"
  PROVE  req[c] \in Requests /\ req[c].key \in Keys /\ req[c].op \in {"put", "delete"}
BY DEF IndInv, CallShape, Requests, PutRequests, DeleteRequests

\* A key that a step does not concern.
LEMMA OtherKey ==
  ASSUME NEW k \in CasKeys, KeyInv(k), NEW c \in Clients,
         entries'[k] = entries[k], etcd'.kv[k] = etcd.kv[k], acks'[k] = acks[k],
         k \in fresh' <=> k \in fresh,
         ~Pending(c, k), ~Pending(c, k)',
         \A d \in Clients \ {c} :
           pc'[d] = pc[d] /\ req'[d] = req[d] /\ tx'[d] = tx[d]
  PROVE  KeyInv(k)'
<1>1. \A d \in Clients : (Pending(d, k)' <=> Pending(d, k)) /\ (Copying(d, k)' <=> Copying(d, k))
  BY DEF Pending, Copying
<1>2. Untouched(k)' /\ AcksCurrent(k)'
  BY <1>1 DEF KeyInv, Untouched, AcksCurrent
<1>3. ASSUME NEW d \in Clients PROVE Based(d, k)' /\ CopyPasses(d, k)'
  <2>1. CASE d = c
    BY <2>1 DEF Based, CopyPasses, Pending, Copying
  <2>2. CASE d # c
    <3>1. pc'[d] = pc[d] /\ req'[d] = req[d] /\ tx'[d] = tx[d]
      BY <2>2
    <3>2. Based(d, k)'
      BY <1>1, <3>1 DEF KeyInv, Based
    <3>3. CopyPasses(d, k)'
      BY <1>1, <3>1 DEF KeyInv, CopyPasses, EtcdGuard, Etcd!CompareModRevision, Copying
    <3> QED
      BY <3>2, <3>3
  <2> QED
    BY <2>1, <2>2
<1> QED
  BY <1>1, <1>2, <1>3 DEF KeyInv

\* The handlers that a step does not concern.
LEMMA OtherHandlers ==
  ASSUME CasInv, NEW c \in Clients,
         entries' = entries \/ req[c].key \in CasKeys,
         \A k \in Keys \ {req[c].key} : entries'[k] = entries[k],
         \A d \in Clients \ {c} : pc'[d] = pc[d] /\ req'[d] = req[d] /\ resp'[d] = resp[d],
         HandlerBased(c)', resp'[c] # "conflict"
  PROVE  \A d \in Clients : HandlerBased(d)' /\ resp'[d] # "conflict"
<1> SUFFICES ASSUME NEW d \in Clients, d # c
             PROVE  HandlerBased(d)' /\ resp'[d] # "conflict"
  OBVIOUS
<1>1. pc'[d] = pc[d] /\ req'[d] = req[d] /\ resp'[d] = resp[d]
  OBVIOUS
<1>2. HandlerBased(d) /\ resp[d] # "conflict" /\ IndInv
  BY DEF CasInv
<1>3. ASSUME pc[d] # "idle", req[d].key \notin CasKeys
      PROVE  entries'[req[d].key] = entries[req[d].key]
  BY <1>2, <1>3, PendingKey
<1> QED
  BY <1>1, <1>2, <1>3 DEF HandlerBased, VersionOf
-----------------------------------------------------------------------------
\* A call on one of the callers' keys: its creation, or based on a response.
LEMMA CallOnKey ==
  ASSUME CasInv, NEW c \in Clients, NEW r \in Requests, Call(c, r), r.key \in CasKeys,
         acks' = acks,
         \/ r.key \in fresh /\ Creates(r) /\ fresh' = fresh \ {r.key}
         \/ fresh' = fresh /\ \E a \in acks[r.key] : BasedOn(r, a)
  PROVE  CasInv'
<1>1. IndInv'
  BY CallPreserves DEF CasInv
<1>2. /\ entries' = entries /\ etcd' = etcd /\ tx' = tx
      /\ pc[c] = "idle" /\ pc'[c] = "read" /\ req'[c] = r /\ resp'[c] = "none"
      /\ \A d \in Clients \ {c} :
           pc'[d] = pc[d] /\ req'[d] = req[d] /\ tx'[d] = tx[d] /\ resp'[d] = resp[d]
  BY DEF Call, CasInv, IndInv, TypeOK
<1>3. AckTypes'
  BY DEF CasInv, AckTypes, CasKeys
<1>4. ASSUME NEW k \in CasKeys, k # r.key PROVE KeyInv(k)'
  <2>1. ~Pending(c, k) /\ ~Pending(c, k)'
    BY <1>2, <1>4 DEF Pending
  <2> QED
    BY <1>2, <1>4, <2>1, OtherKey DEF CasInv
<1>5. KeyInv(r.key)'
  <2> DEFINE k == r.key
  <2>1. KeyInv(k)
    BY DEF CasInv
  <2>2. \A d \in Clients : Copying(d, k)' <=> Copying(d, k)
    BY <1>2 DEF Copying
  <2>3. \A d \in Clients \ {c} : Pending(d, k)' <=> Pending(d, k)
    BY <1>2 DEF Pending
  <2>4. Based(c, k)' /\ CopyPasses(c, k)'
    BY <1>2, <2>1 DEF KeyInv, Untouched, Based, CopyPasses, Copying
  <2>5. ASSUME NEW d \in Clients, d # c PROVE Based(d, k)' /\ CopyPasses(d, k)'
    BY <1>2, <2>1, <2>2, <2>3, <2>5
       DEF KeyInv, Based, CopyPasses, EtcdGuard, Etcd!CompareModRevision
  <2>6. Untouched(k)'
    BY <1>2, <2>1, <2>2, <2>3 DEF KeyInv, Untouched
  <2>7. AcksCurrent(k)'
    BY <1>2, <2>1, <2>2 DEF KeyInv, AcksCurrent
  <2> QED
    BY <1>2, <2>1, <2>2, <2>4, <2>5, <2>6, <2>7 DEF KeyInv
<1>6. HandlerBased(c)'
  BY <1>2 DEF HandlerBased, CasKeys
<1>7. \A d \in Clients : HandlerBased(d)' /\ resp'[d] # "conflict"
  <2>1. ASSUME NEW d \in Clients, d # c PROVE HandlerBased(d)' /\ resp'[d] # "conflict"
    BY <1>2, <2>1 DEF CasInv, HandlerBased, VersionOf, CasKeys
  <2> QED
    BY <1>2, <1>6, <2>1
<1> QED
  BY <1>1, <1>3, <1>4, <1>5, <1>7 DEF CasInv, CasKeys

\* The callers create keys that are fresh and act on responses.
LEMMA CallersPreserve ==
  ASSUME CasInv, NEW c \in Clients, CasCreate(c) \/ CasPut(c) \/ CasDelete(c)
  PROVE  CasInv'
<1> USE DEF PutRequest, DeleteRequest, Requests, PutRequests, DeleteRequests
<1>1. CasKeys \subseteq Keys
  BY DEF CasKeys
<1>2. \A k \in CasKeys : \A a \in acks[k] : a.item \in Records /\ a.etcdRevision \in Nat
                                            /\ a.item.version \in Nat
  BY DEF CasInv, AckTypes, Records
<1>3. CASE CasCreate(c)
  <2>1. PICK k \in fresh, v \in Values :
          /\ Call(c, PutRequest(k, v, 0, 0, NoRecord))
          /\ fresh' = fresh \ {k}
          /\ acks' = acks
    BY <1>3 DEF CasCreate
  <2> DEFINE r == PutRequest(k, v, 0, 0, NoRecord)
  <2>2. r \in Requests /\ r.key = k /\ Creates(r) /\ k \in CasKeys
    BY <1>1 DEF Creates, CasInv, AckTypes
  <2> HIDE DEF r
  <2>3. Call(c, r)
    BY <2>1 DEF r
  <2> QED
    BY <2>1, <2>2, <2>3, CallOnKey
<1>4. CASE CasPut(c)
  <2>1. PICK k \in CasKeys, v \in Values : \E a \in acks[k] :
          Call(c, PutRequest(k, v, a.item.version, a.etcdRevision, a.item))
          /\ UNCHANGED <<acks, fresh>>
    BY <1>4 DEF CasPut
  <2>2. PICK a \in acks[k] :
          Call(c, PutRequest(k, v, a.item.version, a.etcdRevision, a.item))
          /\ UNCHANGED <<acks, fresh>>
    BY <2>1
  <2> DEFINE r == PutRequest(k, v, a.item.version, a.etcdRevision, a.item)
  <2>3. r \in Requests /\ r.key = k /\ BasedOn(r, a)
    BY <1>1, <1>2 DEF BasedOn
  <2> HIDE DEF r
  <2>4. Call(c, r)
    BY <2>2 DEF r
  <2> QED
    BY <2>2, <2>3, <2>4, CallOnKey
<1>5. CASE CasDelete(c)
  <2>1. PICK k \in CasKeys : \E a \in acks[k] :
          Call(c, DeleteRequest(k, a.item.version, a.etcdRevision, a.item))
          /\ UNCHANGED <<acks, fresh>>
    BY <1>5 DEF CasDelete
  <2>2. PICK a \in acks[k] :
          Call(c, DeleteRequest(k, a.item.version, a.etcdRevision, a.item))
          /\ UNCHANGED <<acks, fresh>>
    BY <2>1
  <2> DEFINE r == DeleteRequest(k, a.item.version, a.etcdRevision, a.item)
  <2>3. r \in Requests /\ r.key = k /\ BasedOn(r, a)
    BY <1>1, <1>2 DEF BasedOn
  <2> HIDE DEF r
  <2>4. Call(c, r)
    BY <2>2 DEF r
  <2> QED
    BY <2>2, <2>3, <2>4, CallOnKey
<1> QED
  BY <1>3, <1>4, <1>5

\* A request of a handler: on a key of its own, without a compare, and based
\* on the record that is stored.
LEMMA HandlersCall ==
  ASSUME CasInv, NEW c \in Clients, HandleCreateVideo(c) \/ HandlePutSegment(c),
         UNCHANGED <<acks, fresh>>
  PROVE  CasInv'
<1>1. \E r \in Requests :
        /\ Call(c, r)
        /\ r.key \notin CasKeys /\ r.op = "put" /\ r.expectedRevision = Unguarded
        /\ r.basis # NoRecord => r.basis = entries[r.key] /\ r.expectedVersion = VersionOf(r.basis)
  <2> USE DEF PutRequest, Requests, PutRequests, DeleteRequests
  <2>1. CASE HandleCreateVideo(c)
    BY <2>1, KeysAssumption DEF HandleCreateVideo, Unguarded, CasKeys
  <2>2. CASE HandlePutSegment(c)
    <3>1. PICK k \in SegmentKeys, v \in Values :
            Call(c, PutRequest(k, v, VersionOf(GetMetadata(k)), Unguarded, GetMetadata(k)))
      BY <2>2 DEF HandlePutSegment
    <3>2. k \in Keys /\ k \notin CasKeys
      BY KeysAssumption DEF CasKeys
    <3>3. GetMetadata(k) = entries[k]
      BY <3>2 DEF GetMetadata, GetResult, Buffered, BeginTx
    <3>4. entries[k] \in Records \cup {NoRecord}
      BY <3>2 DEF CasInv, IndInv, TypeOK, Entries
    <3>5. VersionOf(entries[k]) \in Nat
      BY <3>4, VersionOfStored
    <3> DEFINE r == PutRequest(k, v, VersionOf(entries[k]), Unguarded, entries[k])
    <3>6. /\ r \in Requests /\ r.op = "put" /\ r.key = k /\ r.basis = entries[k]
          /\ r.expectedVersion = VersionOf(entries[k]) /\ r.expectedRevision = Unguarded
      BY <3>2, <3>4, <3>5 DEF Unguarded
    <3> QED
      BY <3>1, <3>2, <3>3, <3>6
  <2> QED
    BY <2>1, <2>2
<1>2. PICK r \in Requests :
        /\ Call(c, r)
        /\ r.key \notin CasKeys /\ r.op = "put" /\ r.expectedRevision = Unguarded
        /\ r.basis # NoRecord => r.basis = entries[r.key] /\ r.expectedVersion = VersionOf(r.basis)
  BY <1>1
<1>3. IndInv'
  BY <1>2, CallPreserves DEF CasInv
<1>4. /\ entries' = entries /\ etcd' = etcd /\ tx' = tx
      /\ pc[c] = "idle" /\ pc'[c] = "read" /\ req'[c] = r /\ resp'[c] = "none"
      /\ \A d \in Clients \ {c} :
           pc'[d] = pc[d] /\ req'[d] = req[d] /\ tx'[d] = tx[d] /\ resp'[d] = resp[d]
  BY <1>2 DEF Call, CasInv, IndInv, TypeOK
<1>5. ASSUME NEW k \in CasKeys PROVE KeyInv(k)'
  <2>1. ~Pending(c, k) /\ ~Pending(c, k)'
    BY <1>2, <1>4 DEF Pending
  <2> QED
    BY <1>4, <2>1, OtherKey DEF CasInv
<1>6. HandlerBased(c)'
  <2>1. r.key \in Keys
    BY DEF Requests, PutRequests, DeleteRequests
  <2>2. VersionOf(entries[r.key]) \in Nat
    BY <2>1, VersionOfStored DEF CasInv, IndInv, TypeOK, Entries
  <2> QED
    BY <1>2, <1>4, <2>2 DEF HandlerBased, VersionOf
<1>7. \A d \in Clients : HandlerBased(d)' /\ resp'[d] # "conflict"
  BY <1>4, <1>6, OtherHandlers
<1> QED
  BY <1>3, <1>5, <1>7 DEF CasInv, AckTypes, CasKeys

\* The steps of a call before its commit, and those that end it there.
LEMMA AttemptPreserves ==
  ASSUME CasInv, NEW c \in Clients,
         ReadAndBuffer(c) \/ Refuse(c) \/ Retry(c) \/ GiveUp(c),
         UNCHANGED <<acks, fresh>>
  PROVE  CasInv'
<1>1. IndInv'
  BY ReadAndBufferPreserves, AnswerPreserves, SerializationFailurePreserves DEF CasInv
<1>2. /\ entries' = entries /\ etcd' = etcd /\ req' = req
      /\ pc[c] \in {"read", "commit"} /\ pc'[c] \in {"read", "commit", "idle"}
      /\ resp'[c] \in {resp[c], "refused", "gaveup"}
      /\ \A d \in Clients \ {c} : pc'[d] = pc[d] /\ tx'[d] = tx[d] /\ resp'[d] = resp[d]
  BY DEF CasInv, IndInv, TypeOK, ReadAndBuffer, Refuse, Retry, GiveUp, SerializationFailure, Answer
<1>3. ASSUME NEW k \in CasKeys PROVE KeyInv(k)'
  <2>1. KeyInv(k)
    BY DEF CasInv
  <2>2. \A d \in Clients : /\ Copying(d, k)' <=> Copying(d, k)
                           /\ Pending(d, k)' => Pending(d, k)
                           /\ pc'[d] \in {"read", "commit"} => pc[d] \in {"read", "commit"}
    BY <1>2 DEF Copying, Pending
  <2>3. Untouched(k)' /\ AcksCurrent(k)'
    BY <1>2, <2>1, <2>2 DEF KeyInv, Untouched, AcksCurrent
  <2>4. ASSUME NEW d \in Clients PROVE Based(d, k)' /\ CopyPasses(d, k)'
    <3>1. Based(d, k)'
      BY <1>2, <2>1, <2>2 DEF KeyInv, Based
    <3>2. Copying(d, k) => d # c
      BY <1>2 DEF Copying
    <3>3. CopyPasses(d, k)'
      BY <1>2, <2>1, <2>2, <3>2 DEF KeyInv, CopyPasses, EtcdGuard, Etcd!CompareModRevision
    <3> QED
      BY <3>1, <3>3
  <2> QED
    BY <1>2, <2>1, <2>2, <2>3, <2>4 DEF KeyInv
<1>4. HandlerBased(c)' /\ resp'[c] # "conflict"
  BY <1>2 DEF CasInv, HandlerBased, VersionOf
<1>5. \A d \in Clients : HandlerBased(d)' /\ resp'[d] # "conflict"
  BY <1>2, <1>4, OtherHandlers
<1> QED
  BY <1>1, <1>3, <1>5 DEF CasInv, AckTypes, CasKeys
-----------------------------------------------------------------------------
\* What a commit does: it changes the key of its request only, from the
\* version that its transaction read.
LEMMA CommitFacts ==
  ASSUME CasInv, NEW c \in Clients, Commit(c)
  PROVE  LET k == req[c].key
         IN  /\ k \in Keys /\ req[c] \in Requests /\ TxShape(c)
             /\ entries[k] \in Records \cup {NoRecord}
             /\ entries'[k] = tx[c].writes[k]
             /\ entries'[k] = NoRecord <=> req[c].op = "delete"
             /\ VersionOf(entries[k]) = tx[c].readset[k]
             /\ req[c].op = "put" => entries'[k].version = VersionOf(entries[k]) + 1
             /\ \A j \in Keys \ {k} : entries'[j] = entries[j]
             /\ etcd' = etcd /\ req' = req /\ tx' = tx /\ resp' = resp
             /\ pc[c] = "commit" /\ pc'[c] = "etcd"
             /\ \A d \in Clients \ {c} : pc'[d] = pc[d]
<1>1. IndInv /\ TypeOK /\ pc[c] = "commit" /\ TxShape(c)
  BY DEF CasInv, IndInv, Commit
<1>2. req[c] \in Requests /\ req[c].key \in Keys
  BY <1>1, PendingKey
<1>3. /\ entries' = Committed(tx[c], entries) /\ Validates(tx[c], entries)
      /\ etcd' = etcd /\ req' = req /\ tx' = tx /\ resp' = resp
      /\ pc' = [pc EXCEPT ![c] = "etcd"] /\ DOMAIN pc = Clients
  BY <1>1 DEF Commit, TypeOK
<1>4. req[c].op = "put" => tx[c].writes[req[c].key].version = tx[c].readset[req[c].key] + 1
  BY <1>1 DEF TxShape
<1> QED
  BY <1>1, <1>2, <1>3, <1>4, CommitChangesOneKey DEF TypeOK, Entries

\* A commit on a caller's key: the request passes on the version that is
\* stored, so it passes on etcd's revision too, and nothing else of the key
\* is on its way there.
LEMMA CommitOnKey ==
  ASSUME CasInv, NEW c \in Clients, Commit(c), NEW k \in CasKeys, k = req[c].key,
         acks' = acks, fresh' = fresh
  PROVE  KeyInv(k)'
<1>1. /\ k \in Keys /\ req[c] \in Requests /\ TxShape(c)
      /\ entries[k] \in Records \cup {NoRecord}
      /\ entries'[k] = tx[c].writes[k]
      /\ entries'[k] = NoRecord <=> req[c].op = "delete"
      /\ VersionOf(entries[k]) = tx[c].readset[k]
      /\ req[c].op = "put" => entries'[k].version = VersionOf(entries[k]) + 1
      /\ etcd' = etcd /\ req' = req /\ tx' = tx
      /\ pc[c] = "commit" /\ pc'[c] = "etcd"
      /\ \A d \in Clients \ {c} : pc'[d] = pc[d]
  BY CommitFacts
<1>2. KeyInv(k)
  BY DEF CasInv
<1>3. \A a \in acks[k] : /\ a.item \in Records /\ a.item.version \in Nat \ {0}
                         /\ a.etcdRevision \in Nat
  BY DEF CasInv, AckTypes, Records
<1>4. /\ \A d \in Clients : ~Copying(d, k)
      /\ EtcdGuard(req[c])
      /\ \A a \in acks[k] : entries[k] # NoRecord /\ a.item.version <= VersionOf(entries[k])
  <2>1. CASE acks[k] = {} /\ Creates(req[c])
    <3>1. \A d \in Clients : ~Copying(d, k)
      BY <1>1, <1>2, <2>1 DEF KeyInv, Untouched, Pending, Copying
    <3>2. EtcdGuard(req[c])
      BY <1>2, <2>1 DEF KeyInv, Untouched, Creates, EtcdGuard, Etcd!CompareModRevision, Etcd!Absent
    <3> QED
      BY <2>1, <3>1, <3>2
  <2>2. ASSUME NEW a \in acks[k], BasedOn(req[c], a)
        PROVE  /\ \A d \in Clients : ~Copying(d, k)
               /\ EtcdGuard(req[c])
               /\ \A b \in acks[k] : entries[k] # NoRecord /\ b.item.version <= VersionOf(entries[k])
    <3>1. VersionOf(entries[k]) = a.item.version
      BY <1>1, <1>3, <2>2 DEF TxShape, BasedOn
    <3>2. entries[k] # NoRecord /\ entries[k].version = a.item.version
      BY <1>1, <1>3, <3>1 DEF VersionOf
    <3>3. /\ etcd.kv[k].modRevision = a.etcdRevision
          /\ \A d \in Clients : ~Copying(d, k)
      BY <1>2, <3>2 DEF KeyInv, AcksCurrent
    <3>4. EtcdGuard(req[c])
      BY <2>2, <3>3 DEF BasedOn, EtcdGuard, Etcd!CompareModRevision
    <3>5. \A b \in acks[k] : b.item.version <= VersionOf(entries[k])
      BY <1>2, <3>2 DEF KeyInv, AcksCurrent, VersionOf
    <3> QED
      BY <3>2, <3>3, <3>4, <3>5
  <2>3. Based(c, k) /\ Pending(c, k)
    BY <1>1, <1>2 DEF KeyInv, Pending
  <2> QED
    BY <1>1, <2>1, <2>2, <2>3 DEF Based
<1>5. \A d \in Clients : /\ Pending(d, k)' <=> Pending(d, k)
                         /\ Copying(d, k)' <=> d = c
                         /\ pc'[d] \in {"read", "commit"} => pc'[d] = pc[d]
  BY <1>1, <1>4 DEF Pending, Copying
<1>6. Untouched(k)'
  BY <1>1, <1>2, <1>5 DEF KeyInv, Untouched
<1>7. AcksCurrent(k)'
  <2>1. ASSUME NEW a \in acks[k], entries'[k] # NoRecord
        PROVE  a.item.version <= entries'[k].version /\ a.item.version # entries'[k].version
    <3>1. req[c].op = "put"
      BY <1>1, <2>1 DEF Requests, PutRequests, DeleteRequests
    <3>2. entries'[k].version = VersionOf(entries[k]) + 1 /\ a.item.version <= VersionOf(entries[k])
      BY <1>1, <1>4, <3>1
    <3>3. VersionOf(entries[k]) \in Nat
      BY <1>1, VersionOfStored
    <3> QED
      BY <1>3, <3>2, <3>3
  <2> QED
    BY <2>1 DEF AcksCurrent
<1>8. ASSUME NEW d \in Clients PROVE Based(d, k)' /\ CopyPasses(d, k)'
  <2>1. Based(d, k)'
    BY <1>1, <1>2, <1>5 DEF KeyInv, Based
  <2>2. CopyPasses(d, k)'
    BY <1>1, <1>4, <1>5 DEF CopyPasses, EtcdGuard, Etcd!CompareModRevision
  <2> QED
    BY <2>1, <2>2
<1> QED
  BY <1>1, <1>5, <1>6, <1>7, <1>8 DEF KeyInv

\* A commit of any caller; on a handler's key it only raises the version.
LEMMA CommitCas ==
  ASSUME CasInv, NEW c \in Clients, Commit(c), acks' = acks, fresh' = fresh
  PROVE  CasInv'
<1>1. IndInv'
  BY CommitPreserves DEF CasInv
<1>2. /\ req[c].key \in Keys
      /\ entries[req[c].key] \in Records \cup {NoRecord}
      /\ entries'[req[c].key] = NoRecord <=> req[c].op = "delete"
      /\ req[c].op = "put" => entries'[req[c].key].version = VersionOf(entries[req[c].key]) + 1
      /\ \A j \in Keys \ {req[c].key} : entries'[j] = entries[j]
      /\ etcd' = etcd /\ req' = req /\ tx' = tx /\ resp' = resp
      /\ pc[c] = "commit" /\ pc'[c] = "etcd"
      /\ \A d \in Clients \ {c} : pc'[d] = pc[d]
  BY CommitFacts
<1>3. ASSUME NEW k \in CasKeys PROVE KeyInv(k)'
  <2>1. CASE k = req[c].key
    BY <2>1, CommitOnKey
  <2>2. CASE k # req[c].key
    <3>1. ~Pending(c, k) /\ ~Pending(c, k)' /\ entries'[k] = entries[k]
      BY <1>2, <2>2 DEF Pending, CasKeys
    <3> QED
      BY <1>2, <3>1, OtherKey DEF CasInv
  <2> QED
    BY <2>1, <2>2
<1>4. ASSUME NEW d \in Clients PROVE HandlerBased(d)' /\ resp'[d] # "conflict"
  <2>1. HandlerBased(d) /\ resp[d] # "conflict" /\ HandlerBased(c) /\ IndInv
    BY DEF CasInv
  <2>2. CASE d = c
    BY <1>2, <2>1, <2>2 DEF HandlerBased
  <2>3. CASE d # c /\ (pc[d] = "idle" \/ req[d].key \in CasKeys)
    BY <1>2, <2>1, <2>3 DEF HandlerBased, CasKeys
  <2>4. CASE d # c /\ pc[d] # "idle" /\ req[d].key \notin CasKeys
    <3>1. req[d].key \in Keys /\ req[d] \in Requests /\ req[d].basis \in Records \cup {NoRecord}
      BY <2>1, <2>4, PendingKey DEF Requests, PutRequests, DeleteRequests
    <3>2. VersionOf(req[d].basis) \in Nat
      BY <3>1, VersionOfStored
    <3>3. CASE req[d].key # req[c].key
      BY <1>2, <2>1, <2>4, <3>1, <3>3 DEF HandlerBased, VersionOf
    <3>4. CASE req[d].key = req[c].key
      <4>1. req[c].op = "put"
        BY <1>2, <2>1, <2>4, <3>4 DEF HandlerBased
      <4>2. /\ VersionOf(entries[req[c].key]) \in Nat
            /\ VersionOf(entries'[req[c].key]) = VersionOf(entries[req[c].key]) + 1
        BY <1>2, <4>1, VersionOfStored DEF VersionOf
      <4>3. /\ pc[d] \in {"read", "commit"} /\ req[d].basis # NoRecord =>
                 VersionOf(req[d].basis) <= VersionOf(entries[req[c].key])
        BY <2>1, <2>4, <3>4 DEF HandlerBased
      <4> QED
        BY <1>2, <2>1, <2>4, <3>2, <3>4, <4>2, <4>3 DEF HandlerBased, VersionOf
    <3> QED
      BY <3>3, <3>4
  <2> QED
    BY <2>2, <2>3, <2>4
<1> QED
  BY <1>1, <1>3, <1>4 DEF CasInv, AckTypes, CasKeys
-----------------------------------------------------------------------------
\* What the etcd step of a call changes: the etcd entry of its key.
LEMMA ApplyFacts ==
  ASSUME CasInv, NEW c \in Clients, EtcdApply(c)
  PROVE  LET k == req[c].key
         IN  /\ k \in Keys /\ req[c].op \in {"put", "delete"} /\ etcd.revision \in Nat
             /\ entries' = entries /\ req' = req
             /\ pc[c] = "etcd" /\ pc'[c] = "idle" /\ resp'[c] = "ok"
             /\ \A d \in Clients \ {c} : pc'[d] = pc[d] /\ tx'[d] = tx[d] /\ resp'[d] = resp[d]
             /\ \A j \in Keys \ {k} : etcd'.kv[j] = etcd.kv[j]
             /\ req[c].op = "put" =>
                  /\ etcd'.revision = etcd.revision + 1
                  /\ etcd'.kv[k] = [value |-> tx[c].writes[k], modRevision |-> etcd'.revision]
             /\ req[c].op = "delete" => etcd'.kv[k] = Etcd!Absent
<1>1. IndInv /\ TypeOK /\ pc[c] = "etcd"
  BY DEF CasInv, IndInv, EtcdApply
<1>2. req[c].key \in Keys /\ req[c].op \in {"put", "delete"}
  BY <1>1, PendingKey
<1> QED
  BY <1>1, <1>2 DEF TypeOK, EtcdApply, Answer, Etcd!OpPut, Etcd!OpDelete, Etcd!Absent

\* The etcd step of a call on a caller's key: etcd has the stored record, and
\* the response is the one that passes on its version and revision.
LEMMA ApplyOnKey ==
  ASSUME CasInv, NEW c \in Clients, EtcdApply(c), NEW k \in CasKeys, k = req[c].key,
         k \in fresh' <=> k \in fresh,
         \/ req[c].op = "put" /\ acks'[k] =
              acks[k] \cup {[item |-> tx[c].writes[k], etcdRevision |-> etcd'.revision]}
         \/ req[c].op = "delete" /\ acks'[k] = acks[k]
  PROVE  KeyInv(k)'
<1>1. /\ entries' = entries /\ req' = req
      /\ pc[c] = "etcd" /\ pc'[c] = "idle"
      /\ \A d \in Clients \ {c} : pc'[d] = pc[d] /\ tx'[d] = tx[d]
      /\ req[c].op = "put" =>
           etcd'.kv[k] = [value |-> tx[c].writes[k], modRevision |-> etcd'.revision]
      /\ req[c].op = "delete" => etcd'.kv[k] = [value |-> NoRecord, modRevision |-> 0]
  BY ApplyFacts DEF Etcd!Absent
<1>2. KeyInv(k) /\ Copying(c, k) /\ Pending(c, k)
  BY <1>1 DEF CasInv, Copying, Pending
<1>3. /\ tx[c].writes[k] = entries[k]
      /\ req[c].op = "delete" <=> entries[k] = NoRecord
  BY <1>2 DEF KeyInv, CopyPasses
<1>4. \A d \in Clients : /\ ~Copying(d, k)'
                         /\ Pending(d, k)' => Pending(d, k) /\ d # c
                         /\ pc'[d] \in {"read", "commit"} => pc'[d] = pc[d]
  BY <1>1, <1>2 DEF KeyInv, Copying, Pending
<1>5. etcd'.kv[k].value = entries'[k]
  BY <1>1, <1>3
<1>6. AcksCurrent(k)'
  <2>1. CASE req[c].op = "delete"
    BY <1>1, <1>3, <2>1 DEF AcksCurrent
  <2>2. ASSUME req[c].op = "put", NEW a \in acks'[k], entries[k] # NoRecord
        PROVE  /\ a.item.version <= entries[k].version
               /\ a.item.version = entries[k].version =>
                    a.item = entries[k] /\ etcd'.kv[k].modRevision = a.etcdRevision
    <3>1. CASE a \in acks[k]
      <4>1. a.item.version <= entries[k].version /\ a.item.version # entries[k].version
        BY <1>2, <2>2, <3>1 DEF KeyInv, AcksCurrent
      <4> QED
        BY <4>1
    <3>2. CASE a \notin acks[k]
      <4>1. a.item = entries[k] /\ a.etcdRevision = etcd'.revision
        BY <1>3, <2>2, <3>2
      <4>2. entries[k].version \in Nat
        BY <2>2 DEF CasInv, IndInv, TypeOK, Entries, Records, CasKeys
      <4> QED
        BY <1>1, <2>2, <4>1, <4>2
    <3> QED
      BY <3>1, <3>2
  <2> QED
    BY <1>1, <1>4, <2>1, <2>2 DEF AcksCurrent
<1>7. Untouched(k)'
  <2>1. acks'[k] = {} => acks[k] = {} /\ req[c].op = "delete"
    OBVIOUS
  <2>2. k \notin fresh'
    BY <1>2 DEF KeyInv, Untouched
  <2>3. ASSUME acks'[k] = {}
        PROVE  /\ \A d, e \in Clients : Pending(d, k)' /\ Pending(e, k)' => d = e
               /\ etcd'.kv[k] = Etcd!Absent /\ entries'[k] = NoRecord
    BY <1>1, <1>2, <1>3, <1>4, <2>1, <2>3 DEF KeyInv, Untouched, Etcd!Absent
  <2> QED
    BY <2>2, <2>3 DEF Untouched, Etcd!Absent
<1>8. ASSUME NEW d \in Clients PROVE Based(d, k)' /\ CopyPasses(d, k)'
  <2>1. CopyPasses(d, k)'
    BY <1>4 DEF CopyPasses
  <2>2. ASSUME Pending(d, k)', pc'[d] \in {"read", "commit"}
        PROVE  \E a \in acks'[k] : BasedOn(req[d], a)
    <3>1. Pending(d, k) /\ d # c /\ pc[d] \in {"read", "commit"}
      BY <1>4, <2>2
    <3>2. acks[k] # {}
      BY <1>2, <3>1 DEF KeyInv, Untouched
    <3> QED
      BY <1>2, <3>1, <3>2 DEF KeyInv, Based
  <2>3. Based(d, k)'
    BY <1>1, <2>2 DEF Based, BasedOn
  <2> QED
    BY <2>1, <2>3
<1> QED
  BY <1>4, <1>5, <1>6, <1>7, <1>8 DEF KeyInv

\* The etcd step of any caller.
LEMMA ApplyCas ==
  ASSUME CasInv, NEW c \in Clients, EtcdApply(c), AckTypes',
         \A k \in CasKeys \ {req[c].key} : acks'[k] = acks[k],
         \A k \in CasKeys : k \in fresh' <=> k \in fresh,
         req[c].key \in CasKeys =>
           LET k == req[c].key
           IN  \/ req[c].op = "put" /\ acks'[k] =
                    acks[k] \cup {[item |-> tx[c].writes[k], etcdRevision |-> etcd'.revision]}
               \/ req[c].op = "delete" /\ acks'[k] = acks[k]
  PROVE  CasInv'
<1>1. IndInv'
  BY EtcdApplyPreserves DEF CasInv
<1>2. /\ entries' = entries /\ req' = req
      /\ pc[c] = "etcd" /\ pc'[c] = "idle" /\ resp'[c] = "ok"
      /\ \A d \in Clients \ {c} : pc'[d] = pc[d] /\ tx'[d] = tx[d] /\ resp'[d] = resp[d]
      /\ \A j \in Keys \ {req[c].key} : etcd'.kv[j] = etcd.kv[j]
  BY ApplyFacts
<1>3. ASSUME NEW k \in CasKeys PROVE KeyInv(k)'
  <2>1. CASE k = req[c].key
    BY <2>1, ApplyOnKey
  <2>2. CASE k # req[c].key
    <3>1. ~Pending(c, k) /\ ~Pending(c, k)' /\ etcd'.kv[k] = etcd.kv[k] /\ acks'[k] = acks[k]
      BY <1>2, <2>2 DEF Pending, CasKeys
    <3> QED
      BY <1>2, <3>1, OtherKey DEF CasInv
  <2> QED
    BY <2>1, <2>2
<1>4. HandlerBased(c)' /\ resp'[c] # "conflict"
  BY <1>2 DEF HandlerBased
<1>5. \A d \in Clients : HandlerBased(d)' /\ resp'[d] # "conflict"
  BY <1>2, <1>4, OtherHandlers
<1> QED
  BY <1>1, <1>3, <1>5 DEF CasInv, CasKeys

\* The compare in etcd never fails.
LEMMA NoConflict ==
  ASSUME CasInv, NEW c \in Clients, EtcdConflict(c)
  PROVE  FALSE
<1>1. pc[c] = "etcd" /\ ~EtcdGuard(req[c])
  BY DEF EtcdConflict
<1>2. CASE req[c].key \in CasKeys
  BY <1>1, <1>2 DEF CasInv, KeyInv, CopyPasses, Copying
<1>3. CASE req[c].key \notin CasKeys
  BY <1>1, <1>3 DEF CasInv, HandlerBased, EtcdGuard, Unguarded
<1> QED
  BY <1>2, <1>3
-----------------------------------------------------------------------------
\* Every step of callers and handlers preserves the invariant.
LEMMA CasStepPreserves ==
  ASSUME Recreate = FALSE, CasInv, [CasNext]_casVars
  PROVE  CasInv'
<1>1. CASE UNCHANGED casVars
  <2>1. UNCHANGED vars /\ acks' = acks /\ fresh' = fresh
    BY <1>1 DEF casVars
  <2>2. IndInv'
    BY <2>1, NextIndInv DEF CasInv
  <2> QED
    BY <2>1, <2>2
       DEF vars, CasInv, AckTypes, KeyInv, Untouched, AcksCurrent, Based, CopyPasses, Pending,
           Copying, BasedOn, EtcdGuard, Etcd!CompareModRevision, HandlerBased, VersionOf, CasKeys
<1>2. ASSUME NEW c \in Clients, CasCreate(c) \/ CasPut(c) \/ CasDelete(c) PROVE CasInv'
  BY <1>2, CallersPreserve
<1>3. ASSUME NEW c \in Clients, PutResponse(c) PROVE CasInv'
  <2> DEFINE k == req[c].key
             a == [item |-> tx[c].writes[k], etcdRevision |-> etcd'.revision]
  <2>1. /\ EtcdApply(c) /\ req[c].op = "put" /\ k \in CasKeys /\ fresh' = fresh
        /\ acks' = [acks EXCEPT ![k] = @ \cup {a}]
    BY <1>3 DEF PutResponse
  <2>2. /\ tx[c].writes[k] \in Records /\ etcd'.revision \in Nat
    <3>1. Copying(c, k) /\ KeyInv(k)
      BY <2>1 DEF EtcdApply, Copying, CasInv
    <3>2. tx[c].writes[k] = entries[k] /\ entries[k] # NoRecord
      BY <2>1, <3>1 DEF KeyInv, CopyPasses
    <3>3. entries[k] \in Records \cup {NoRecord}
      BY <2>1 DEF CasInv, IndInv, TypeOK, Entries, CasKeys
    <3>4. etcd.revision \in Nat /\ etcd'.revision = etcd.revision + 1
      BY <2>1, ApplyFacts
    <3> QED
      BY <3>2, <3>3, <3>4
  <2>3. AckTypes'
    BY <2>1, <2>2 DEF CasInv, AckTypes, CasKeys
  <2> QED
    BY <2>1, <2>3, ApplyCas DEF CasInv, AckTypes
<1>4. ASSUME NEW c \in Clients, DeleteResponse(c) PROVE CasInv'
  <2>1. EtcdApply(c) /\ req[c].op = "delete" /\ fresh' = fresh /\ acks' = acks
    BY <1>4 DEF DeleteResponse
  <2>2. AckTypes'
    BY <2>1 DEF CasInv, AckTypes, CasKeys
  <2> QED
    BY <2>1, <2>2, ApplyCas
<1>5. ASSUME NEW c \in Clients, Unanswered(c) PROVE CasInv'
  BY <1>5, AttemptPreserves, CommitCas, NoConflict DEF Unanswered
<1>6. ASSUME NEW c \in Clients, HandlerStep(c) PROVE CasInv'
  <2>1. CASE HandleCreateVideo(c) \/ HandlePutSegment(c)
    BY <1>6, <2>1, HandlersCall DEF HandlerStep
  <2>2. CASE req[c].key \notin CasKeys /\ EtcdApply(c)
    <3>1. acks' = acks /\ fresh' = fresh
      BY <1>6 DEF HandlerStep
    <3>2. AckTypes'
      BY <3>1 DEF CasInv, AckTypes, CasKeys
    <3> QED
      BY <2>2, <3>1, <3>2, ApplyCas
  <2> QED
    BY <1>6, <2>1, <2>2 DEF HandlerStep
<1> QED
  BY <1>1, <1>2, <1>3, <1>4, <1>5, <1>6 DEF CasNext

\* CasInv holds in every reachable state of callers that pass on versions and
\* revisions as service_test.go does.
THEOREM CasInvariance == ASSUME Recreate = FALSE PROVE CasSpec => []CasInv
<1>1. CasInit => CasInv
  BY InitCas
<1>2. CasInv /\ [CasNext]_casVars => CasInv'
  BY CasStepPreserves
<1> QED
  BY <1>1, <1>2, PTL DEF CasSpec

\* etcd holds exactly the stored record of every key of which no change is
\* under way (service.go:110-131), whoever raced for it before.
THEOREM EtcdMirrors == ASSUME Recreate = FALSE PROVE CasSpec => []MirrorExact
<1>1. CasInv => MirrorExact
  BY DEF CasInv, KeyInv, Copying, MirrorExact
<1> QED
  BY <1>1, CasInvariance, PTL

\* Nobody whose transaction committed is told of an etcd conflict
\* (service.go:133).
THEOREM CommitsAreCopied == ASSUME Recreate = FALSE PROVE CasSpec => []CommittedNeverConflicts
<1>1. CasInv => CommittedNeverConflicts
  BY DEF CasInv, CommittedNeverConflicts
<1> QED
  BY <1>1, CasInvariance, PTL

\* The lost attempts of these callers are paid for as those of all others are
\* (service.go:254-264).
THEOREM CasAttemptsPaidFor == ASSUME Recreate = FALSE PROVE CasSpec => []LostAttemptsOvertaken
<1>1. CasInv => LostAttemptsOvertaken
  BY DEF CasInv, IndInv, Overtaking, LostAttemptsOvertaken
<1> QED
  BY <1>1, CasInvariance, PTL

\* Only Commit(c) takes a call from "commit" to "etcd".
LEMMA CommitsOnly ==
  ASSUME CasInv, [CasNext]_casVars, NEW c \in Clients, pc[c] = "commit", pc'[c] = "etcd"
  PROVE  Commit(c)
<1>1. pc \in [Clients -> {"idle", "read", "commit", "etcd"}]
  BY DEF CasInv, IndInv, TypeOK
<1>2. PICK d \in Clients :
        \/ CasCreate(d) \/ CasPut(d) \/ CasDelete(d)
        \/ PutResponse(d) \/ DeleteResponse(d) \/ Unanswered(d)
        \/ HandlerStep(d)
  <2>1. pc' # pc
    OBVIOUS
  <2> QED
    BY <2>1, Zenon DEF CasNext, casVars, vars
<1>3. ASSUME NEW x \in {"idle", "read", "commit"}, pc' = [pc EXCEPT ![d] = x] PROVE FALSE
  BY <1>1, <1>3
<1>4. ~\E r : Call(d, r)
  BY <1>3, Zenon DEF Call
<1>5. ~EtcdApply(d) /\ ~EtcdConflict(d) /\ ~Refuse(d) /\ ~GiveUp(d)
  BY <1>3, Zenon DEF EtcdApply, EtcdConflict, Refuse, GiveUp, Answer
<1>6. ~ReadAndBuffer(d) /\ ~Retry(d)
  BY <1>3, Zenon DEF ReadAndBuffer, Retry
<1>7. Commit(d)
  BY <1>2, <1>4, <1>5, <1>6, Zenon
     DEF CasCreate, CasPut, CasDelete, PutResponse, DeleteResponse, Unanswered,
         HandlerStep, HandleCreateVideo, HandlePutSegment
<1>8. d = c
  BY <1>1, <1>7 DEF Commit
<1> QED
  BY <1>7, <1>8

\* Validation compares versions; AcksCurrent and HandlerBased make that a
\* comparison of records.
LEMMA ReplacesWhatWasRead ==
  ASSUME CasInv, NEW c \in Clients, Commit(c), req[c].basis # NoRecord
  PROVE  entries[req[c].key] = req[c].basis
<1> DEFINE k == req[c].key
<1>1. /\ k \in Keys /\ req[c] \in Requests /\ TxShape(c)
      /\ entries[k] \in Records \cup {NoRecord}
      /\ VersionOf(entries[k]) = tx[c].readset[k]
      /\ pc[c] = "commit"
  BY CommitFacts
<1>2. req[c].basis \in Records
  BY <1>1 DEF Requests, PutRequests, DeleteRequests
<1>3. CASE k \in CasKeys
  <2>1. PICK a \in acks[k] : BasedOn(req[c], a)
    BY <1>1, <1>3 DEF CasInv, KeyInv, Based, Creates, Pending
  <2>2. req[c].expectedVersion = req[c].basis.version /\ a.item = req[c].basis
    BY <2>1 DEF BasedOn
  <2>3. entries[k] # NoRecord /\ entries[k].version = a.item.version
    BY <1>1, <1>2, <2>2 DEF TxShape, VersionOf, Records
  <2> QED
    BY <1>3, <2>2, <2>3 DEF CasInv, KeyInv, AcksCurrent
<1>4. CASE k \notin CasKeys
  <2>1. req[c].expectedVersion = VersionOf(req[c].basis)
        /\ (VersionOf(req[c].basis) = VersionOf(entries[k]) => entries[k] = req[c].basis)
    BY <1>1, <1>4 DEF CasInv, HandlerBased
  <2>2. VersionOf(req[c].basis) \in Nat \ {0}
    BY <1>2, VersionOfStored
  <2> QED
    BY <1>1, <2>1, <2>2 DEF TxShape
<1> QED
  BY <1>3, <1>4

\* What a caller has read is what it replaces (service.go:89, 144), for
\* callers that pass on what they were answered and for handlePutSegment.
THEOREM NobodyLosesAnUpdate == ASSUME Recreate = FALSE PROVE CasSpec => NoLostUpdate
<1>1. CasInv /\ [CasNext]_casVars =>
        [\A c \in Clients :
           (pc[c] = "commit" /\ pc'[c] = "etcd" /\ req[c].basis # NoRecord)
             => entries[req[c].key] = req[c].basis]_vars
  BY CommitsOnly, ReplacesWhatWasRead
<1> QED
  BY <1>1, CasInvariance, PTL DEF CasSpec, NoLostUpdate
=============================================================================
