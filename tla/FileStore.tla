----------------------------- MODULE FileStore ------------------------------
(***************************************************************************)
(* Concurrent puts and gets in the file stores (internal/storage/fs.go) of *)
(* several storage nodes, one system call per step.  A put writes a file   *)
(* next to the object, under a name all puts of the object share (.tmp),   *)
(* and renames it when it is complete.                                     *)
(*                                                                         *)
(* A file lives on under its handles when its name goes, so names and      *)
(* contents are kept apart: a file is named by the upload whose put        *)
(* created it, and its content is the sequence of its chunks, each the     *)
(* upload that wrote it.                                                   *)
(***************************************************************************)
EXTENDS Naturals, Sequences, SequencesExt, FiniteSets

CONSTANTS Nodes,
          Objects,
          Uploads,
          Object,        \* the object each upload writes
          Length,        \* how many chunks it has
          MaxFaults,     \* bound of the model: errors, crashes, timeouts
          NoFile         \* stands for "no such file"

ASSUME ObjectAssumption == Object \in [Uploads -> Objects]
ASSUME LengthAssumption == Length \in [Uploads -> Nat \ {0}]
ASSUME MaxFaultsAssumption == MaxFaults \in Nat
ASSUME NoFileAssumption == NoFile \notin Uploads

VARIABLES tmp,          \* the file under object.tmp, on each node, for each object
          path,         \* the file under the object's own name
          data,         \* the content of each file
          put,          \* the put of each upload on each node
          publisher,    \* history: the put that renamed a file
          overlapped,   \* history: puts that ran while another one did
          faults

fsDisk == <<tmp, path, data, put, publisher, overlapped>>
fsVars == <<fsDisk, faults>>

\* What a file shows where nothing was written.
Hole == "hole"

Whole(u) == [i \in 1..Length[u] |-> u]

\* No handle, nothing written, not answered.
NoPut == [pc |-> "idle", fd |-> NoFile, offset |-> 0, answer |-> "none"]

FSInit ==
  /\ tmp = [n \in Nodes |-> [o \in Objects |-> NoFile]]
  /\ path = [n \in Nodes |-> [o \in Objects |-> NoFile]]
  /\ data = [n \in Nodes |-> [u \in Uploads |-> <<>>]]
  /\ put = [n \in Nodes |-> [u \in Uploads |-> NoPut]]
  /\ publisher = [n \in Nodes |-> [u \in Uploads |-> NoFile]]
  /\ overlapped = {}
  /\ faults = 0
-----------------------------------------------------------------------------
Fault == faults < MaxFaults /\ faults' = faults + 1

Running(n, u) == put[n][u].pc \in {"create", "write", "remove"}

\* A put reaches the node.
Receive(n, u) ==
  /\ put[n][u].pc = "idle"
  /\ put' = [put EXCEPT ![n][u].pc = "create"]
  /\ LET others == {v \in Uploads : Object[v] = Object[u] /\ Running(n, v)}
     IN  overlapped' = overlapped \cup
           (IF others = {} THEN {} ELSE {<<n, v>> : v \in others \cup {u}})
  /\ UNCHANGED <<tmp, path, data, publisher, faults>>

\* The put returns; its handle is closed.
Ended(answer) == [NoPut EXCEPT !.pc = "done", !.answer = answer]

Answered(n, u, answer) == put' = [put EXCEPT ![n][u] = Ended(answer)]

\* Neither a directory nor a file could be made.
CreateFails(n, u) ==
  /\ Fault
  /\ put[n][u].pc = "create"
  /\ Answered(n, u, "failed")
  /\ UNCHANGED <<tmp, path, data, publisher, overlapped>>

\* Mutant: a file that is there is opened as it is.
CreateAppending(n, u) ==
  LET file == IF tmp[n][Object[u]] = NoFile THEN u ELSE tmp[n][Object[u]]
  IN  /\ put[n][u].pc = "create"
      /\ tmp' = [tmp EXCEPT ![n][Object[u]] = file]
      /\ put' = [put EXCEPT ![n][u].pc = "write", ![n][u].fd = file]
      /\ UNCHANGED <<path, data, publisher, overlapped, faults>>

\* os.Create: a new file, or the one that is there, emptied.
Create(n, u) ==
  LET file == IF tmp[n][Object[u]] = NoFile THEN u ELSE tmp[n][Object[u]]
  IN  /\ put[n][u].pc = "create"
      /\ tmp' = [tmp EXCEPT ![n][Object[u]] = file]
      /\ data' = [data EXCEPT ![n][file] = <<>>]
      /\ put' = [put EXCEPT ![n][u].pc = "write", ![n][u].fd = file]
      /\ UNCHANGED <<path, publisher, overlapped, faults>>

\* A write at a handle's own offset, wherever the file ends by now.
Written(content, at, u) ==
  [i \in 1..(IF at > Len(content) THEN at ELSE Len(content)) |->
     IF i = at THEN u ELSE IF i <= Len(content) THEN content[i] ELSE Hole]

WriteChunk(n, u) ==
  LET p == put[n][u]
  IN  /\ p.pc = "write"
      /\ p.offset < Length[u]
      /\ data' = [data EXCEPT ![n][p.fd] = Written(@, p.offset + 1, u)]
      /\ put' = [put EXCEPT ![n][u].offset = @ + 1]
      /\ UNCHANGED <<tmp, path, publisher, overlapped, faults>>

\* The copy fails (a full disk, a body that breaks off): .tmp is removed,
\* whoever's it is, and the error returned is that of os.Create, nil.  The
\* server answers 201 with size 0.
CopyFails(n, u) ==
  /\ Fault
  /\ put[n][u].pc = "write"
  /\ tmp' = [tmp EXCEPT ![n][Object[u]] = NoFile]
  /\ Answered(n, u, "empty")
  /\ UNCHANGED <<path, data, publisher, overlapped>>

\* Publish what is under .tmp; the answer carries the checksum of the upload.
Rename(n, u) ==
  /\ put[n][u].pc = "write"
  /\ put[n][u].offset = Length[u]
  /\ tmp[n][Object[u]] # NoFile
  /\ path' = [path EXCEPT ![n][Object[u]] = tmp[n][Object[u]]]
  /\ publisher' = [publisher EXCEPT ![n][tmp[n][Object[u]]] = u]
  /\ tmp' = [tmp EXCEPT ![n][Object[u]] = NoFile]
  /\ Answered(n, u, "created")
  /\ UNCHANGED <<data, overlapped, faults>>

\* Sync, Close or Rename reports an error.
SyncFails(n, u) ==
  /\ Fault
  /\ put[n][u].pc = "write"
  /\ put[n][u].offset = Length[u]
  /\ put' = [put EXCEPT ![n][u].pc = "remove"]
  /\ UNCHANGED <<tmp, path, data, publisher, overlapped>>

\* Another put has renamed or removed the file.
RenameFails(n, u) ==
  /\ put[n][u].pc = "write"
  /\ put[n][u].offset = Length[u]
  /\ tmp[n][Object[u]] = NoFile
  /\ put' = [put EXCEPT ![n][u].pc = "remove"]
  /\ UNCHANGED <<tmp, path, data, publisher, overlapped, faults>>

\* What is under .tmp by now is removed, whoever's it is.
RemoveTmp(n, u) ==
  /\ put[n][u].pc = "remove"
  /\ tmp' = [tmp EXCEPT ![n][Object[u]] = NoFile]
  /\ Answered(n, u, "failed")
  /\ UNCHANGED <<path, data, publisher, overlapped, faults>>

\* The server goes down with its puts and is started again; .tmp stays.
CrashPuts(n) ==
  /\ Fault
  /\ put' = [put EXCEPT ![n] = [u \in Uploads |->
       IF Running(n, u) THEN Ended("failed") ELSE put[n][u]]]
  /\ UNCHANGED <<tmp, path, data, publisher, overlapped>>

PutStep(n, u) ==
  \/ Create(n, u) \/ CreateFails(n, u) \/ WriteChunk(n, u) \/ CopyFails(n, u)
  \/ SyncFails(n, u) \/ Rename(n, u) \/ RenameFails(n, u) \/ RemoveTmp(n, u)
=============================================================================
