----------------------------- MODULE CasClients -----------------------------
(***************************************************************************)
(* Callers of the metadata RPC that update with "CAS semantics", the way   *)
(* internal/metadata/service_test.go does: a key is created once, and an   *)
(* update or a delete passes on the version and the etcd revision of an    *)
(* earlier PutMetadataResponse.  Callers hand responses to each other, so  *)
(* any of them may act on any response, stale ones included.               *)
(* The HTTP handlers write keys of their own through the same service, and *)
(* their etcd puts take revisions of the same counter.                     *)
(***************************************************************************)
EXTENDS MetadataService

CONSTANT Recreate   \* TRUE: a key whose delete was answered may be created again

ASSUME RecreateAssumption == Recreate \in BOOLEAN

VARIABLES acks,    \* history: responses to the puts of each key
          fresh    \* keys a caller may create

\* The keys of these callers: those that no HTTP handler writes.
CasKeys == Keys \ (SegmentKeys \cup VideoKeys)

casVars == <<vars, acks, fresh>>

CasInit ==
  /\ Init
  /\ acks = [k \in CasKeys |-> {}]
  /\ fresh = CasKeys

\* The zero values of the two expectations: the etcd key must be absent.
CasCreate(c) ==
  \E k \in fresh, v \in Values :
    /\ Call(c, PutRequest(k, v, 0, 0, NoRecord))
    /\ fresh' = fresh \ {k}
    /\ UNCHANGED acks

CasPut(c) ==
  \E k \in CasKeys, v \in Values : \E a \in acks[k] :
    /\ Call(c, PutRequest(k, v, a.item.version, a.etcdRevision, a.item))
    /\ UNCHANGED <<acks, fresh>>

CasDelete(c) ==
  \E k \in CasKeys : \E a \in acks[k] :
    /\ Call(c, DeleteRequest(k, a.item.version, a.etcdRevision, a.item))
    /\ UNCHANGED <<acks, fresh>>

\* PutMetadataResponse: the item as stored and the revision of the etcd put.
PutResponse(c) ==
  /\ EtcdApply(c)
  /\ req[c].op = "put" /\ req[c].key \in CasKeys
  /\ acks' = [acks EXCEPT ![req[c].key] =
       @ \cup {[item |-> tx[c].writes[req[c].key], etcdRevision |-> etcd'.revision]}]
  /\ UNCHANGED fresh

DeleteResponse(c) ==
  /\ EtcdApply(c)
  /\ req[c].op = "delete"
  /\ fresh' = IF Recreate THEN fresh \cup {req[c].key} ELSE fresh
  /\ UNCHANGED acks

Unanswered(c) ==
  /\ \/ ReadAndBuffer(c) \/ Refuse(c)
     \/ Commit(c) \/ Retry(c) \/ GiveUp(c)
     \/ EtcdConflict(c)
  /\ UNCHANGED <<acks, fresh>>

\* A request of an HTTP handler, and its etcd put.
HandlerStep(c) ==
  /\ \/ HandleCreateVideo(c) \/ HandlePutSegment(c)
     \/ req[c] # NoRequest /\ req[c].key \notin CasKeys /\ EtcdApply(c)
  /\ UNCHANGED <<acks, fresh>>

CasNext ==
  \E c \in Clients :
    \/ CasCreate(c) \/ CasPut(c) \/ CasDelete(c)
    \/ PutResponse(c) \/ DeleteResponse(c) \/ Unanswered(c)
    \/ HandlerStep(c)

CasSpec == CasInit /\ [][CasNext]_casVars
-----------------------------------------------------------------------------
\* While no change of a key is on its way to etcd (service.go:124-131 run after
\* the commit of l.110), etcd holds exactly the stored record.
MirrorExact ==
  \A k \in CasKeys :
    (\A c \in Clients : pc[c] = "etcd" => req[c].key # k)
      => etcd.kv[k].value = entries[k]

\* A caller whose transaction committed is never told "etcd revision conflict"
\* (service.go:133): for these callers the compare after the commit cannot fail.
CommittedNeverConflicts == \A c \in Clients : resp[c] # "conflict"
=============================================================================
