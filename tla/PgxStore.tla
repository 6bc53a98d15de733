------------------------------ MODULE PgxStore ------------------------------
(***************************************************************************)
(* Concurrent transactions of internal/metadata/pgxsim over several keys:  *)
(* sessions of a Pool that read, list, write and delete in any order and   *)
(* then commit or roll back.  The metadata service uses one key per        *)
(* transaction (MetadataService); this module is about the general promise *)
(* of the simulator, serializable isolation.                               *)
(***************************************************************************)
EXTENDS PgxTx, FiniteSets

CONSTANTS Sessions,    \* concurrent users of the pool
          Prefixes,    \* the key sets that List may be asked for
          Rereads,     \* FALSE: no transaction reads a stored key again, as
                       \* in every caller in the repository
          MaxBegins,   \* bound of the model: transactions per session
          MaxVersion   \* bound of the model: versions written

ASSUME PrefixesAssumption == \A p \in Prefixes : p \subseteq Keys
ASSUME BoundsAssumption ==
  MaxBegins \in Nat /\ MaxVersion \in Nat /\ Rereads \in BOOLEAN
ASSUME NoRecordAssumption == NoRecord \notin [version : Nat]

VARIABLES entries,   \* Store.entries
          tx,        \* the current transaction of each session
          begins,    \* transactions begun
          seen       \* history: what the store answered to the transaction

vars == <<entries, tx, begins, seen>>

\* One answer of the store: version 0 for "no such key".
Answer(k, v) == [key |-> k, version |-> v]

Init ==
  /\ entries = [k \in Keys |-> NoRecord]
  /\ tx = [s \in Sessions |-> Close(BeginTx("ReadWrite"), "rolled")]
  /\ begins = [s \in Sessions |-> 0]
  /\ seen = [s \in Sessions |-> {}]

Open(s) == tx[s].status = "open"

HasRead(s, k) == \E a \in seen[s] : a.key = k

Begin(s) ==
  /\ ~Open(s)
  /\ begins[s] < MaxBegins
  /\ begins' = [begins EXCEPT ![s] = @ + 1]
  /\ \E mode \in {"ReadOnly", "ReadWrite"} : tx' = [tx EXCEPT ![s] = BeginTx(mode)]
  /\ seen' = [seen EXCEPT ![s] = {}]
  /\ UNCHANGED entries

Get(s) ==
  \E k \in Keys :
    /\ Open(s)
    /\ HasRead(s, k) => Rereads \/ Buffered(tx[s], k)
    /\ tx' = [tx EXCEPT ![s] = AfterGet(@, entries, k)]
    /\ seen' = IF Buffered(tx[s], k) THEN seen
               ELSE [seen EXCEPT ![s] = @ \cup {Answer(k, VersionOf(entries[k]))}]
    /\ UNCHANGED <<entries, begins>>

\* Writers number a record after the one they read (service.go:97-100), which
\* may be their own.
ReadVersion(t, k) ==
  IF Buffered(t, k) THEN VersionOf(t.writes[k])
  ELSE IF t.readset[k] # Unread THEN t.readset[k]
  ELSE 0

Put(s) ==
  \E k \in Keys :
    LET version == ReadVersion(tx[s], k) + 1
    IN  /\ Open(s)
        /\ Writable(tx[s])
        /\ HasRead(s, k) \/ Buffered(tx[s], k)
        /\ version <= MaxVersion
        /\ tx' = [tx EXCEPT ![s] = AfterPut(@, k, [version |-> version])]
        /\ UNCHANGED <<entries, begins, seen>>

Delete(s) ==
  \E k \in Keys :
    /\ Open(s)
    /\ Writable(tx[s])
    /\ tx' = [tx EXCEPT ![s] = AfterDelete(@, k)]
    /\ UNCHANGED <<entries, begins, seen>>

\* The transaction remembers the records under the prefix, not the prefix: a
\* record that appears there later does not invalidate it.
List(s) ==
  \E prefix \in Prefixes :
    /\ Open(s)
    /\ (\E k \in Listed(entries, prefix) : HasRead(s, k)) => Rereads
    /\ tx' = [tx EXCEPT ![s] = AfterList(@, entries, prefix)]
    /\ seen' = [seen EXCEPT ![s] =
                  @ \cup {Answer(k, VersionOf(entries[k])) : k \in Listed(entries, prefix)}]
    /\ UNCHANGED <<entries, begins>>

Commit(s) ==
  /\ Open(s)
  /\ Validates(tx[s], entries)
  /\ entries' = Committed(tx[s], entries)
  /\ tx' = [tx EXCEPT ![s] = Close(@, "committed")]
  /\ UNCHANGED <<begins, seen>>

\* ErrSerialization; the transaction counts as rolled back.
CommitFails(s) ==
  /\ Open(s)
  /\ ~Validates(tx[s], entries)
  /\ tx' = [tx EXCEPT ![s] = Close(@, "rolled")]
  /\ UNCHANGED <<entries, begins, seen>>

Rollback(s) ==
  /\ Open(s)
  /\ tx' = [tx EXCEPT ![s] = Close(@, "rolled")]
  /\ UNCHANGED <<entries, begins, seen>>

Next ==
  \E s \in Sessions :
    \/ Begin(s) \/ Get(s) \/ Put(s) \/ Delete(s) \/ List(s)
    \/ Commit(s) \/ CommitFails(s) \/ Rollback(s)

Spec == Init /\ [][Next]_vars
-----------------------------------------------------------------------------
\* The shape of Store and Tx: a key is never both written and deleted, and no
\* record is stored without a version.
TypeOK ==
  /\ entries \in [Keys -> [version : 1..MaxVersion] \cup {NoRecord}]
  /\ begins \in [Sessions -> 0..MaxBegins]
  /\ \A s \in Sessions :
       /\ tx[s].mode \in {"ReadOnly", "ReadWrite"}
       /\ tx[s].readset \in [Keys -> 0..MaxVersion \cup {Unread}]
       /\ tx[s].writes \in [Keys -> [version : 1..MaxVersion] \cup {NoRecord}]
       /\ tx[s].deletes \subseteq {k \in Keys : tx[s].writes[k] = NoRecord}
       /\ tx[s].status \in {"open", "committed", "rolled"}

Stale(a) == VersionOf(entries[a.key]) # a.version

\* A transaction commits at an instant at which every version that Get showed
\* it, and every record that List showed it, is still the stored one
\* (pgxsim.go:170 "returning ErrSerialization if the read versions were
\* invalidated"): no write skew and no lost update across several keys.
CommittedReadsCurrent ==
  [][\A s \in Sessions :
       (Open(s) /\ tx'[s].status = "committed")
         => \A a \in seen[s] : ~Stale(a)]_vars

\* A commit fails only on account of a version that really is out of date: the
\* transaction's own writes never count against it.
FailsOnlyIfStale ==
  \A s \in Sessions :
    (Open(s) /\ ~Validates(tx[s], entries)) => \E a \in seen[s] : Stale(a)
=============================================================================
