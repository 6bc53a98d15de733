------------------------------- MODULE PgxTx -------------------------------
(***************************************************************************)
(* The transactions of internal/metadata/pgxsim: a store of versioned      *)
(* records and optimistic transactions over it.  A transaction reads the   *)
(* store directly, remembers the version of every key it read, buffers its *)
(* writes, and is validated when it commits.                               *)
(*                                                                         *)
(* These are operators only: a module that runs transactions keeps the     *)
(* store (entries) and its transactions as variables and applies them.     *)
(* Maps that lack a key are total functions with a marker: NoRecord for    *)
(* entries and writes, Unread for readset.                                 *)
(***************************************************************************)
EXTENDS Integers

CONSTANTS Keys,      \* the primary keys in play
          NoRecord   \* stands for "no row under this key"

\* readset holds no version for the key.
Unread == -1

\* The version a readset stores for what was found: 0 when nothing was.
VersionOf(rec) == IF rec = NoRecord THEN 0 ELSE rec.version

BeginTx(mode) ==
  [mode    |-> mode,
   readset |-> [k \in Keys |-> Unread],
   writes  |-> [k \in Keys |-> NoRecord],
   deletes |-> {},
   status  |-> "open"]

Writable(tx) == tx.mode = "ReadWrite"

\* Get serves the key from the transaction's own buffer.
Buffered(tx, k) == tx.writes[k] # NoRecord \/ k \in tx.deletes

GetResult(tx, entries, k) == IF Buffered(tx, k) THEN tx.writes[k] ELSE entries[k]

\* Mutant: what the buffer returned is remembered as read from the store.
AfterGetOwnWrite(tx, entries, k) ==
  [tx EXCEPT !.readset[k] = VersionOf(GetResult(tx, entries, k))]

\* The bookkeeping of Get: a version read before is overwritten.
AfterGet(tx, entries, k) ==
  IF Buffered(tx, k) THEN tx
  ELSE [tx EXCEPT !.readset[k] = VersionOf(entries[k])]

AfterPut(tx, k, rec) ==
  [tx EXCEPT !.writes[k] = rec, !.deletes = tx.deletes \ {k}]

\* Mutant: the buffered write is not dropped.
AfterDeleteKeepWrite(tx, k) == [tx EXCEPT !.deletes = tx.deletes \cup {k}]

AfterDelete(tx, k) ==
  [tx EXCEPT !.writes[k] = NoRecord, !.deletes = tx.deletes \cup {k}]

\* List reads the store under a prefix, not the buffer, and remembers only
\* the keys that are there.
Listed(entries, prefix) == {k \in prefix : entries[k] # NoRecord}

AfterList(tx, entries, prefix) ==
  [tx EXCEPT !.readset = [k \in Keys |->
     IF k \in Listed(entries, prefix) THEN entries[k].version ELSE tx.readset[k]]]

\* Mutant: a key that was read as absent is not checked.
ValidatesPresent(tx, entries) ==
  \A k \in Keys : tx.readset[k] > 0 => VersionOf(entries[k]) = tx.readset[k]

\* Commit's check: every version read is the version stored now.
Validates(tx, entries) ==
  \A k \in Keys : tx.readset[k] # Unread => VersionOf(entries[k]) = tx.readset[k]

\* The store after a commit: deletes first, then writes.
Committed(tx, entries) ==
  [k \in Keys |-> IF tx.writes[k] # NoRecord THEN tx.writes[k]
                  ELSE IF k \in tx.deletes THEN NoRecord
                  ELSE entries[k]]

\* The flags committed and rolled of Tx; neither is set while it is open.
Close(tx, how) == [tx EXCEPT !.status = how]
=============================================================================
