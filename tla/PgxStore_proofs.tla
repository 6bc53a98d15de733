--------------------------- MODULE PgxStore_proofs --------------------------
(***************************************************************************)
(* Validation in pgxsim is exact, for any sessions, keys and prefixes: a   *)
(* transaction commits only while all that it was shown is still stored,   *)
(* and fails only when something it was shown is not.                      *)
(***************************************************************************)
EXTENDS PgxStore, TLAPS

Record == [version : 1..MaxVersion] \cup {NoRecord}

TxType ==
  [mode : {"ReadOnly", "ReadWrite"}, readset : [Keys -> 0..MaxVersion \cup {Unread}],
   writes : [Keys -> Record], deletes : SUBSET Keys, status : {"open", "committed", "rolled"}]

\* A key is never both written and deleted.
Disjoint(t) == \A k \in t.deletes : t.writes[k] = NoRecord

Shape ==
  /\ entries \in [Keys -> Record]
  /\ begins \in [Sessions -> 0..MaxBegins]
  /\ tx \in [Sessions -> TxType]
  /\ seen \in [Sessions -> SUBSET [key : Keys, version : 0..MaxVersion]]
  /\ \A s \in Sessions : Disjoint(tx[s])

\* What the readset holds was shown.
Justified ==
  \A s \in Sessions, k \in Keys :
    Open(s) /\ tx[s].readset[k] # Unread => Answer(k, tx[s].readset[k]) \in seen[s]

\* What was shown is in the readset.
Remembered ==
  \A s \in Sessions :
    Open(s) => \A a \in seen[s] : tx[s].readset[a.key] = a.version

LEMMA VersionRange == ASSUME NEW rec \in Record PROVE VersionOf(rec) \in 0..MaxVersion
BY BoundsAssumption DEF Record, VersionOf

\* A transaction as BeginTx and Close leave it.
LEMMA NewTx ==
  ASSUME NEW mode \in {"ReadOnly", "ReadWrite"}
  PROVE  /\ BeginTx(mode) \in TxType
         /\ Disjoint(BeginTx(mode))
BY DEF BeginTx, TxType, Disjoint, Record

LEMMA CloseTx ==
  ASSUME NEW t \in TxType, Disjoint(t), NEW how \in {"committed", "rolled"}
  PROVE  /\ Close(t, how) \in TxType
         /\ Disjoint(Close(t, how))
         /\ Close(t, how).status = how
BY DEF Close, TxType, Disjoint

LEMMA GetTx ==
  ASSUME NEW t \in TxType, Disjoint(t), entries \in [Keys -> Record], NEW k \in Keys
  PROVE  /\ AfterGet(t, entries, k) \in TxType
         /\ Disjoint(AfterGet(t, entries, k))
<1>1. VersionOf(entries[k]) \in 0..MaxVersion
  BY VersionRange
<1> QED
  BY <1>1 DEF AfterGet, TxType, Disjoint

LEMMA PutTx ==
  ASSUME NEW t \in TxType, Disjoint(t), NEW k \in Keys, NEW rec \in Record
  PROVE  /\ AfterPut(t, k, rec) \in TxType
         /\ Disjoint(AfterPut(t, k, rec))
BY DEF AfterPut, TxType, Disjoint

LEMMA DeleteTx ==
  ASSUME NEW t \in TxType, Disjoint(t), NEW k \in Keys
  PROVE  /\ AfterDelete(t, k) \in TxType
         /\ Disjoint(AfterDelete(t, k))
<1>1. NoRecord \in Record
  BY DEF Record
<1> QED
  BY <1>1 DEF AfterDelete, TxType, Disjoint

LEMMA ListTx ==
  ASSUME NEW t \in TxType, Disjoint(t), entries \in [Keys -> Record],
         NEW prefix \in SUBSET Keys
  PROVE  /\ AfterList(t, entries, prefix) \in TxType
         /\ Disjoint(AfterList(t, entries, prefix))
<1>1. \A k \in Listed(entries, prefix) : entries[k].version \in 0..MaxVersion
  BY BoundsAssumption DEF Listed, Record
<1>2. [k \in Keys |-> IF k \in Listed(entries, prefix) THEN entries[k].version ELSE t.readset[k]]
        \in [Keys -> 0..MaxVersion \cup {Unread}]
  BY <1>1 DEF TxType
<1> QED
  BY <1>2 DEF AfterList, TxType, Disjoint

LEMMA CommittedEntries ==
  ASSUME NEW t \in TxType, entries \in [Keys -> Record]
  PROVE  Committed(t, entries) \in [Keys -> Record]
BY DEF Committed, TxType, Record

LEMMA InitShape == Init => Shape
<1> SUFFICES ASSUME Init PROVE Shape
  OBVIOUS
<1>1. BeginTx("ReadWrite") \in TxType /\ Disjoint(BeginTx("ReadWrite"))
  BY NewTx
<1>2. Close(BeginTx("ReadWrite"), "rolled") \in TxType
      /\ Disjoint(Close(BeginTx("ReadWrite"), "rolled"))
  BY <1>1, CloseTx
<1> QED
  BY <1>2, BoundsAssumption DEF Init, Shape, Record

LEMMA NextShape == Shape /\ [Next]_vars => Shape'
<1> SUFFICES ASSUME Shape, [Next]_vars PROVE Shape'
  OBVIOUS
<1> USE DEF Shape
<1>1. CASE UNCHANGED vars
  BY <1>1 DEF vars, Disjoint
<1>2. ASSUME NEW s \in Sessions, Begin(s) PROVE Shape'
  <2>1. PICK mode \in {"ReadOnly", "ReadWrite"} : tx' = [tx EXCEPT ![s] = BeginTx(mode)]
    BY <1>2 DEF Begin
  <2>2. BeginTx(mode) \in TxType /\ Disjoint(BeginTx(mode))
    BY NewTx
  <2>3. begins' \in [Sessions -> 0..MaxBegins]
    BY <1>2, BoundsAssumption DEF Begin
  <2> QED
    BY <1>2, <2>1, <2>2, <2>3 DEF Begin
<1>3. ASSUME NEW s \in Sessions, Get(s) PROVE Shape'
  <2>1. PICK k \in Keys :
          /\ tx' = [tx EXCEPT ![s] = AfterGet(@, entries, k)]
          /\ seen' = IF Buffered(tx[s], k) THEN seen
                     ELSE [seen EXCEPT ![s] = @ \cup {Answer(k, VersionOf(entries[k]))}]
          /\ UNCHANGED <<entries, begins>>
    BY <1>3 DEF Get
  <2>2. AfterGet(tx[s], entries, k) \in TxType /\ Disjoint(AfterGet(tx[s], entries, k))
    BY GetTx
  <2>3. Answer(k, VersionOf(entries[k])) \in [key : Keys, version : 0..MaxVersion]
    BY VersionRange DEF Answer
  <2>4. seen' \in [Sessions -> SUBSET [key : Keys, version : 0..MaxVersion]]
    BY <2>1, <2>3
  <2> QED
    BY <2>1, <2>2, <2>4
<1>4. ASSUME NEW s \in Sessions, Put(s) PROVE Shape'
  <2>1. PICK k \in Keys :
          /\ ReadVersion(tx[s], k) + 1 <= MaxVersion
          /\ HasRead(s, k) \/ Buffered(tx[s], k)
          /\ tx' = [tx EXCEPT ![s] = AfterPut(@, k, [version |-> ReadVersion(tx[s], k) + 1])]
          /\ UNCHANGED <<entries, begins, seen>>
    BY <1>4 DEF Put
  <2>2. ReadVersion(tx[s], k) \in Nat
    <3>1. tx[s] \in TxType
      OBVIOUS
    <3>2. VersionOf(tx[s].writes[k]) \in 0..MaxVersion
      BY <3>1, VersionRange DEF TxType
    <3> QED
      BY <3>1, <3>2, BoundsAssumption DEF ReadVersion, TxType
  <2>3. [version |-> ReadVersion(tx[s], k) + 1] \in Record
    BY <2>1, <2>2, BoundsAssumption DEF Record
  <2> DEFINE t == AfterPut(tx[s], k, [version |-> ReadVersion(tx[s], k) + 1])
  <2>4. t \in TxType /\ Disjoint(t)
    BY <2>3, PutTx
  <2> HIDE DEF t
  <2>5. tx' = [tx EXCEPT ![s] = t]
    BY <2>1 DEF t
  <2> QED
    BY <2>1, <2>4, <2>5
<1>5. ASSUME NEW s \in Sessions, Delete(s) PROVE Shape'
  <2>1. PICK k \in Keys :
          tx' = [tx EXCEPT ![s] = AfterDelete(@, k)] /\ UNCHANGED <<entries, begins, seen>>
    BY <1>5 DEF Delete
  <2>2. AfterDelete(tx[s], k) \in TxType /\ Disjoint(AfterDelete(tx[s], k))
    BY DeleteTx
  <2> QED
    BY <2>1, <2>2
<1>6. ASSUME NEW s \in Sessions, List(s) PROVE Shape'
  <2>1. PICK prefix \in Prefixes :
          /\ tx' = [tx EXCEPT ![s] = AfterList(@, entries, prefix)]
          /\ seen' = [seen EXCEPT ![s] =
               @ \cup {Answer(k, VersionOf(entries[k])) : k \in Listed(entries, prefix)}]
          /\ UNCHANGED <<entries, begins>>
    BY <1>6 DEF List
  <2>2. prefix \in SUBSET Keys
    BY PrefixesAssumption
  <2>3. AfterList(tx[s], entries, prefix) \in TxType
        /\ Disjoint(AfterList(tx[s], entries, prefix))
    BY <2>2, ListTx
  <2>4. \A k \in Listed(entries, prefix) :
          Answer(k, VersionOf(entries[k])) \in [key : Keys, version : 0..MaxVersion]
    BY <2>2, VersionRange DEF Answer, Listed
  <2>5. seen' \in [Sessions -> SUBSET [key : Keys, version : 0..MaxVersion]]
    BY <2>1, <2>4
  <2> QED
    BY <2>1, <2>3, <2>5
<1>7. ASSUME NEW s \in Sessions, NEW how \in {"committed", "rolled"},
             tx' = [tx EXCEPT ![s] = Close(@, how)],
             entries' \in [Keys -> Record], UNCHANGED <<begins, seen>>
      PROVE  Shape'
  <2>1. Close(tx[s], how) \in TxType /\ Disjoint(Close(tx[s], how))
    BY CloseTx
  <2> QED
    BY <1>7, <2>1
<1>8. ASSUME NEW s \in Sessions, Commit(s) PROVE Shape'
  BY <1>7, <1>8, CommittedEntries DEF Commit
<1>9. ASSUME NEW s \in Sessions, CommitFails(s) \/ Rollback(s) PROVE Shape'
  BY <1>7, <1>9 DEF CommitFails, Rollback
<1> QED
  BY <1>1, <1>2, <1>3, <1>4, <1>5, <1>6, <1>8, <1>9 DEF Next

\* The session that takes a step, and the others.
LEMMA Others ==
  ASSUME Shape, NEW s \in Sessions, NEW t, tx' = [tx EXCEPT ![s] = t]
  PROVE  tx'[s] = t /\ \A r \in Sessions \ {s} : tx'[r] = tx[r]
BY DEF Shape

LEMMA InitReadset == Init => Justified /\ Remembered
BY DEF Init, Justified, Remembered, Open, Close, BeginTx

\* Steps that leave the session without an open transaction.
LEMMA ClosedReadset ==
  ASSUME Shape, NEW s \in Sessions, NEW how \in {"committed", "rolled"},
         tx' = [tx EXCEPT ![s] = Close(@, how)], UNCHANGED seen
  PROVE  /\ Justified => Justified'
         /\ Remembered => Remembered'
<1>1. Close(tx[s], how).status = how
  BY CloseTx DEF Shape
<1>2. ~Open(s)' /\ \A r \in Sessions \ {s} : Open(r)' => Open(r) /\ tx'[r] = tx[r]
  BY <1>1, Others DEF Open, Shape
<1> QED
  BY <1>2 DEF Justified, Remembered

\* Steps on the buffer alone.
LEMMA SameReadset ==
  ASSUME Shape, NEW s \in Sessions, NEW t, tx' = [tx EXCEPT ![s] = t], Open(s),
         t.readset = tx[s].readset, UNCHANGED seen
  PROVE  /\ Justified => Justified'
         /\ Remembered => Remembered'
BY Others DEF Justified, Remembered, Open

LEMMA BeginReadset ==
  ASSUME Shape, NEW s \in Sessions, Begin(s)
  PROVE  /\ Justified => Justified'
         /\ Remembered => Remembered'
<1>1. PICK mode \in {"ReadOnly", "ReadWrite"} : tx' = [tx EXCEPT ![s] = BeginTx(mode)]
  BY DEF Begin
<1>2. tx'[s] = BeginTx(mode) /\ \A r \in Sessions \ {s} : tx'[r] = tx[r]
  BY <1>1, Others
<1>3. seen'[s] = {} /\ \A r \in Sessions \ {s} : seen'[r] = seen[r]
  BY DEF Begin, Shape
<1>4. \A k \in Keys : tx'[s].readset[k] = Unread
  BY <1>2 DEF BeginTx
<1> QED
  BY <1>2, <1>3, <1>4 DEF Justified, Remembered, Open

\* The answers of one Get or List join the readset and what was shown.
LEMMA MoreReadset ==
  ASSUME Shape, NEW s \in Sessions, NEW t, NEW K \in SUBSET Keys,
         Open(s),
         tx' = [tx EXCEPT ![s] = t],
         \A k \in Keys : t.readset[k] = IF k \in K THEN VersionOf(entries[k]) ELSE tx[s].readset[k],
         seen' = [seen EXCEPT ![s] = @ \cup {Answer(k, VersionOf(entries[k])) : k \in K}]
  PROVE  /\ Justified => Justified'
         /\ Remembered /\ (\A k \in K : ~HasRead(s, k)) => Remembered'
<1>1. tx'[s] = t /\ \A r \in Sessions \ {s} : tx'[r] = tx[r]
  BY Others
<1>2. /\ seen'[s] = seen[s] \cup {Answer(k, VersionOf(entries[k])) : k \in K}
      /\ \A r \in Sessions \ {s} : seen'[r] = seen[r]
  BY DEF Shape
<1>3. Justified => Justified'
  BY <1>1, <1>2 DEF Justified, Open
<1>4. ASSUME Remembered, \A k \in K : ~HasRead(s, k)
      PROVE  Remembered'
  <2>1. ASSUME NEW a \in seen'[s] PROVE tx'[s].readset[a.key] = a.version
    <3>1. CASE a \in seen[s]
      <4>1. a.key \in Keys /\ a.key \notin K
        BY <1>4, <3>1 DEF HasRead, Shape
      <4> QED
        BY <1>1, <1>4, <3>1, <4>1 DEF Remembered
    <3>2. CASE \E k \in K : a = Answer(k, VersionOf(entries[k]))
      BY <1>1, <3>2 DEF Answer
    <3> QED
      BY <1>2, <2>1, <3>1, <3>2
  <2> QED
    BY <1>1, <1>2, <1>4, <2>1 DEF Remembered, Open
<1> QED
  BY <1>3, <1>4

LEMMA GetReadset ==
  ASSUME Shape, NEW s \in Sessions, Get(s)
  PROVE  /\ Justified => Justified'
         /\ Rereads = FALSE /\ Remembered => Remembered'
<1>1. PICK k \in Keys :
        /\ Open(s)
        /\ HasRead(s, k) => Rereads \/ Buffered(tx[s], k)
        /\ tx' = [tx EXCEPT ![s] = AfterGet(@, entries, k)]
        /\ seen' = IF Buffered(tx[s], k) THEN seen
                   ELSE [seen EXCEPT ![s] = @ \cup {Answer(k, VersionOf(entries[k]))}]
  BY DEF Get
<1>2. CASE Buffered(tx[s], k)
  <2>1. tx' = [tx EXCEPT ![s] = tx[s]] /\ UNCHANGED seen
    BY <1>1, <1>2 DEF AfterGet
  <2> QED
    BY <1>1, <2>1, SameReadset
<1>3. CASE ~Buffered(tx[s], k)
  <2> DEFINE t == [tx[s] EXCEPT !.readset[k] = VersionOf(entries[k])]
  <2>1. tx' = [tx EXCEPT ![s] = t]
    BY <1>1, <1>3 DEF AfterGet
  <2>2. \A j \in Keys : t.readset[j] = IF j \in {k} THEN VersionOf(entries[j]) ELSE tx[s].readset[j]
    BY DEF Shape, TxType
  <2>3. seen' = [seen EXCEPT ![s] = @ \cup {Answer(j, VersionOf(entries[j])) : j \in {k}}]
    BY <1>1, <1>3
  <2> HIDE DEF t
  <2>4. /\ Justified => Justified'
        /\ Remembered /\ (\A j \in {k} : ~HasRead(s, j)) => Remembered'
    <3>1. Open(s) /\ {k} \in SUBSET Keys
      BY <1>1
    <3> DEFINE K == {k}
    <3>2. /\ K \in SUBSET Keys
          /\ \A j \in Keys : t.readset[j] = IF j \in K THEN VersionOf(entries[j]) ELSE tx[s].readset[j]
          /\ seen' = [seen EXCEPT ![s] = @ \cup {Answer(j, VersionOf(entries[j])) : j \in K}]
      BY <2>2, <2>3, <3>1
    <3> HIDE DEF K
    <3>3. /\ Justified => Justified'
          /\ Remembered /\ (\A j \in K : ~HasRead(s, j)) => Remembered'
      BY <2>1, <3>1, <3>2, MoreReadset
    <3> QED
      BY <3>3 DEF K
  <2> QED
    BY <1>1, <1>3, <2>4
<1> QED
  BY <1>2, <1>3

LEMMA ListReadset ==
  ASSUME Shape, NEW s \in Sessions, List(s)
  PROVE  /\ Justified => Justified'
         /\ Rereads = FALSE /\ Remembered => Remembered'
<1>1. PICK prefix \in Prefixes :
        /\ Open(s)
        /\ (\E k \in Listed(entries, prefix) : HasRead(s, k)) => Rereads
        /\ tx' = [tx EXCEPT ![s] = AfterList(@, entries, prefix)]
        /\ seen' = [seen EXCEPT ![s] =
             @ \cup {Answer(k, VersionOf(entries[k])) : k \in Listed(entries, prefix)}]
  BY DEF List
<1>2. Listed(entries, prefix) \in SUBSET Keys
  BY PrefixesAssumption DEF Listed
<1> DEFINE t == AfterList(tx[s], entries, prefix)
<1>3. \A k \in Keys : t.readset[k] =
        IF k \in Listed(entries, prefix) THEN VersionOf(entries[k]) ELSE tx[s].readset[k]
  BY DEF AfterList, Shape, TxType, VersionOf, Listed
<1>4. tx' = [tx EXCEPT ![s] = t]
  BY <1>1
<1> HIDE DEF t
<1>5. /\ Justified => Justified'
      /\ Remembered /\ (\A k \in Listed(entries, prefix) : ~HasRead(s, k)) => Remembered'
  BY <1>1, <1>2, <1>3, <1>4, MoreReadset
<1> QED
  BY <1>1, <1>5

LEMMA NextReadset ==
  ASSUME Shape, [Next]_vars
  PROVE  /\ Justified => Justified'
         /\ Rereads = FALSE /\ Remembered => Remembered'
<1>1. CASE UNCHANGED vars
  BY <1>1 DEF vars, Justified, Remembered, Open
<1>2. ASSUME NEW s \in Sessions, Put(s)
      PROVE  (Justified => Justified') /\ (Remembered => Remembered')
  <2>1. PICK k \in Keys :
          tx' = [tx EXCEPT ![s] = AfterPut(@, k, [version |-> ReadVersion(tx[s], k) + 1])]
    BY <1>2 DEF Put
  <2> DEFINE t == AfterPut(tx[s], k, [version |-> ReadVersion(tx[s], k) + 1])
  <2>2. t.readset = tx[s].readset
    BY DEF AfterPut, Shape, TxType
  <2>3. tx' = [tx EXCEPT ![s] = t] /\ Open(s) /\ UNCHANGED seen
    BY <1>2, <2>1 DEF Put
  <2> HIDE DEF t
  <2> QED
    BY <2>2, <2>3, SameReadset
<1>3. ASSUME NEW s \in Sessions, Delete(s)
      PROVE  (Justified => Justified') /\ (Remembered => Remembered')
  <2>1. PICK k \in Keys : tx' = [tx EXCEPT ![s] = AfterDelete(@, k)]
    BY <1>3 DEF Delete
  <2> DEFINE t == AfterDelete(tx[s], k)
  <2>2. t.readset = tx[s].readset
    BY DEF AfterDelete, Shape, TxType
  <2>3. tx' = [tx EXCEPT ![s] = t] /\ Open(s) /\ UNCHANGED seen
    BY <1>3, <2>1 DEF Delete
  <2> HIDE DEF t
  <2> QED
    BY <2>2, <2>3, SameReadset
<1>4. ASSUME NEW s \in Sessions, Commit(s) \/ CommitFails(s) \/ Rollback(s)
      PROVE  (Justified => Justified') /\ (Remembered => Remembered')
  BY <1>4, ClosedReadset DEF Commit, CommitFails, Rollback
<1> QED
  BY <1>1, <1>2, <1>3, <1>4, BeginReadset, GetReadset, ListReadset DEF Next

LEMMA Invariance == Spec => [](Shape /\ Justified)
<1>1. Init => Shape /\ Justified
  BY InitShape, InitReadset
<1>2. Shape /\ Justified /\ [Next]_vars => (Shape /\ Justified)'
  BY NextShape, NextReadset
<1> QED
  BY <1>1, <1>2, PTL DEF Spec

\* Store and transactions keep their shape: no record is stored without a
\* version, and no key is both written and deleted by one transaction.
THEOREM TransactionsWellFormed == Spec => []TypeOK
<1>1. Shape => TypeOK
  <2> SUFFICES ASSUME Shape PROVE TypeOK
    OBVIOUS
  <2>1. ASSUME NEW s \in Sessions
        PROVE  /\ tx[s] \in TxType
               /\ tx[s].deletes \subseteq {k \in Keys : tx[s].writes[k] = NoRecord}
    BY DEF Shape, TxType, Disjoint
  <2> QED
    BY <2>1 DEF Shape, TypeOK, TxType, Record
<1> QED
  BY <1>1, Invariance, PTL

\* A failed commit is never for nothing (pgxsim.go:177-192): some version that
\* the transaction was shown is out of date.
THEOREM FailuresAreReal == Spec => []FailsOnlyIfStale
<1>1. Shape /\ Justified => FailsOnlyIfStale
  <2> SUFFICES ASSUME Shape, Justified, NEW s \in Sessions, Open(s), ~Validates(tx[s], entries)
               PROVE  \E a \in seen[s] : Stale(a)
    BY DEF FailsOnlyIfStale
  <2>1. PICK k \in Keys : tx[s].readset[k] # Unread /\ VersionOf(entries[k]) # tx[s].readset[k]
    BY DEF Validates
  <2>2. Answer(k, tx[s].readset[k]) \in seen[s]
    BY <2>1 DEF Justified
  <2> QED
    BY <2>1, <2>2 DEF Stale, Answer
<1> QED
  BY <1>1, Invariance, PTL

\* When no transaction reads a stored key twice, as none of this repository
\* does, a transaction commits only while everything it was shown is still
\* stored: serializable isolation of the keys it has read.
THEOREM CommitsAreCurrent ==
  ASSUME Rereads = FALSE PROVE Spec => CommittedReadsCurrent
<1> DEFINE Inv == Shape /\ Remembered
<1>1. Init => Inv
  BY InitShape, InitReadset
<1>2. Inv /\ [Next]_vars => Inv'
  BY NextShape, NextReadset
<1>3. Inv /\ [Next]_vars =>
        [\A s \in Sessions :
           (Open(s) /\ tx'[s].status = "committed") => \A a \in seen[s] : ~Stale(a)]_vars
  <2> SUFFICES ASSUME Shape, Remembered, Next, NEW s \in Sessions, Open(s),
                      tx'[s].status = "committed", NEW a \in seen[s]
               PROVE  ~Stale(a)
    OBVIOUS
  <2>1. PICK r \in Sessions :
          \/ Begin(r) \/ Get(r) \/ Put(r) \/ Delete(r) \/ List(r)
          \/ Commit(r) \/ CommitFails(r) \/ Rollback(r)
    BY DEF Next
  <2>2. tx[r] \in TxType /\ tx[s].status = "open"
    BY DEF Shape, Open
  <2>3. s # r => tx'[s] = tx[s]
    <3>1. \E t : tx' = [tx EXCEPT ![r] = t]
      BY <2>1 DEF Begin, Get, Put, Delete, List, Commit, CommitFails, Rollback
    <3> QED
      BY <3>1, Others
  <2>4. s = r
    BY <2>2, <2>3
  <2>5. ~Begin(s) /\ ~CommitFails(s) /\ ~Rollback(s)
    <3>1. ~Begin(s)
      BY <2>2 DEF Begin, Open
    <3>2. Close(tx[s], "rolled").status = "rolled"
      BY <2>2, <2>4, CloseTx DEF Shape
    <3>3. ASSUME tx' = [tx EXCEPT ![s] = Close(tx[s], "rolled")] PROVE FALSE
      BY <3>2, <3>3 DEF Shape
    <3> QED
      BY <3>1, <3>3 DEF CommitFails, Rollback
  <2>6. ~Get(s)
    <3>1. \A k \in Keys : AfterGet(tx[s], entries, k).status = "open"
      BY <2>2, <2>4 DEF AfterGet, TxType
    <3> QED
      BY <3>1 DEF Get, Shape
  <2>7. ~Put(s)
    <3>1. \A k \in Keys : \A rec : AfterPut(tx[s], k, rec).status = "open"
      BY <2>2, <2>4 DEF AfterPut, TxType
    <3> QED
      BY <3>1 DEF Put, Shape
  <2>8. ~Delete(s)
    <3>1. \A k \in Keys : AfterDelete(tx[s], k).status = "open"
      BY <2>2, <2>4 DEF AfterDelete, TxType
    <3> QED
      BY <3>1 DEF Delete, Shape
  <2>9. ~List(s)
    <3>1. \A prefix \in Prefixes : AfterList(tx[s], entries, prefix).status = "open"
      BY <2>2, <2>4 DEF AfterList, TxType
    <3> QED
      BY <3>1 DEF List, Shape
  <2>10. Validates(tx[s], entries)
    BY <2>1, <2>4, <2>5, <2>6, <2>7, <2>8, <2>9 DEF Commit
  <2>11. a.key \in Keys /\ a.version \in 0..MaxVersion /\ tx[s].readset[a.key] = a.version
    BY DEF Shape, Remembered
  <2> QED
    BY <2>10, <2>11, BoundsAssumption DEF Validates, Stale, Unread
<1> QED
  BY <1>1, <1>2, <1>3, PTL DEF Spec, CommittedReadsCurrent
=============================================================================
