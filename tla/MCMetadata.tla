----------------------------- MODULE MCMetadata -----------------------------
(***************************************************************************)
(* MetadataService on small sets of callers, keys and values.              *)
(***************************************************************************)
EXTENDS MetadataService, TLC

\* RPC callers: no expectation, and expectations that may or may not hold.
RpcVersions == {0, 1}
RpcRevisions == {-1, 0}

Symmetry == Permutations(Clients) \cup Permutations(Values)

-----------------------------------------------------------------------------
\* service.go:67: the put is a conditional upsert, "guarded by a SERIALIZABLE
\* pgx transaction and an etcd revision compare": a put refused by the compare
\* has not stored its record.
ConflictStoresNothing ==
  [][\A c \in Clients :
       (resp[c] # "conflict" /\ resp'[c] = "conflict" /\ req[c].op = "put")
         => entries[req[c].key] # tx[c].writes[req[c].key]]_vars
=============================================================================
