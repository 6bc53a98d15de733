------------------------------ MODULE EtcdKV -------------------------------
(***************************************************************************)
(* The key-value part of internal/metadata/etcdsim: a map from keys to     *)
(* values, each stamped with the revision of its last write, under one     *)
(* global revision counter.  Every operation below runs while the client's *)
(* mutex is held, so the modules that use it take it as one step.          *)
(***************************************************************************)
EXTENDS Integers

CONSTANT NoValue   \* stands for "the key is not in the map"

\* A key that is absent compares as modRevision 0.
Absent == [value |-> NoValue, modRevision |-> 0]

\* The state of a client made by New, for the keys in use.
New(keys) == [revision |-> 0, kv |-> [k \in keys |-> Absent]]

\* The guard of a Txn with one CompareModRevision(key, "=", rev).
CompareModRevision(etcd, k, rev) == etcd.kv[k].modRevision = rev

OpPut(etcd, k, v) ==
  LET next == etcd.revision + 1
  IN  [revision |-> next,
       kv |-> [etcd.kv EXCEPT ![k] = [value |-> v, modRevision |-> next]]]

\* Mutant: the delete takes a revision and leaves the key.
OpDeleteKept(etcd, k) == [etcd EXCEPT !.revision = @ + 1]

\* Deleting a key that is not there takes no revision.
OpDelete(etcd, k) ==
  IF etcd.kv[k] = Absent THEN etcd
  ELSE [revision |-> etcd.revision + 1, kv |-> [etcd.kv EXCEPT ![k] = Absent]]
=============================================================================
