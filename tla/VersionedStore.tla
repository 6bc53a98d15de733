--------------------------- MODULE VersionedStore ---------------------------
(***************************************************************************)
(* What the metadata service promises its callers about the record store,  *)
(* without transactions, retries or etcd: a write takes effect in one      *)
(* atomic step, at an instant at which the version the caller expects is   *)
(* the stored one; it is refused only at an instant at which it is not;    *)
(* and a write that gives up has had no effect.                            *)
(***************************************************************************)
EXTENDS Integers

CONSTANTS Clients, Keys, Values,
          NoRecord,   \* stands for "no record under this key"
          NoRequest   \* a client that has asked for nothing yet

VARIABLES entries,   \* the stored records
          call,      \* the write each client asked for last
          outcome    \* what became of it

absVars == <<entries, call, outcome>>

StoredVersion(k) == IF entries[k] = NoRecord THEN 0 ELSE entries[k].version

PutRequests ==
  [op : {"put"}, key : Keys, value : Values, expectedVersion : Nat]

DeleteRequests ==
  [op : {"delete"}, key : Keys, value : {NoRecord}, expectedVersion : Nat]

Requests == PutRequests \cup DeleteRequests

\* A caller that expects a version (> 0) must find it; a delete must find
\* something to delete.
Holds(r) ==
  /\ r.expectedVersion > 0 => StoredVersion(r.key) = r.expectedVersion
  /\ r.op = "delete" => entries[r.key] # NoRecord

Effect(r) ==
  IF r.op = "delete" THEN NoRecord
  ELSE [value |-> r.value, version |-> StoredVersion(r.key) + 1]

Init ==
  /\ entries = [k \in Keys |-> NoRecord]
  /\ call = [c \in Clients |-> NoRequest]
  /\ outcome = [c \in Clients |-> "none"]

\* Any request, by a client that awaits no answer.
Invoke(c) ==
  /\ outcome[c] # "pending"
  /\ call'[c] \in Requests
  /\ call' = [call EXCEPT ![c] = call'[c]]
  /\ outcome' = [outcome EXCEPT ![c] = "pending"]
  /\ UNCHANGED entries

Apply(c) ==
  /\ outcome[c] = "pending"
  /\ Holds(call[c])
  /\ entries' = [entries EXCEPT ![call[c].key] = Effect(call[c])]
  /\ outcome' = [outcome EXCEPT ![c] = "applied"]
  /\ UNCHANGED call

Refuse(c) ==
  /\ outcome[c] = "pending"
  /\ ~Holds(call[c])
  /\ outcome' = [outcome EXCEPT ![c] = "refused"]
  /\ UNCHANGED <<entries, call>>

GiveUp(c) ==
  /\ outcome[c] = "pending"
  /\ outcome' = [outcome EXCEPT ![c] = "gaveup"]
  /\ UNCHANGED <<entries, call>>

Next == \E c \in Clients : Invoke(c) \/ Apply(c) \/ Refuse(c) \/ GiveUp(c)

Spec == Init /\ [][Next]_absVars
=============================================================================
