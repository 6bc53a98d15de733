--------------------------- MODULE Gateway_proofs ---------------------------
(***************************************************************************)
(* Theorems about the web gateway over any number of nodes, objects,       *)
(* uploads and viewers, with any number of faults.                         *)
(***************************************************************************)
EXTENDS Gateway, FileStore_proofs, FiniteSetTheorems

\* What a step of any put and the crash of any server may do to the files.
FilesGrow ==
  /\ \A n \in Nodes, f \in Uploads :
       publisher[n][f] # NoFile => publisher'[n][f] = publisher[n][f]
  /\ overlapped \subseteq overlapped'
  /\ \A n \in Nodes, o \in Objects : path[n][o] # NoFile => path'[n][o] # NoFile
  /\ \A n \in Nodes, o \in Objects :
       path'[n][o] # NoFile =>
         \/ path[n][o] # NoFile
         \/ \E u \in Uploads : Object[u] = o /\ put[n][u].pc # "idle"
  /\ \A n \in Nodes, u \in Uploads :
       /\ put[n][u].pc = "done" => put'[n][u] = put[n][u]
       /\ put'[n][u].answer = put[n][u].answer \/ put'[n][u].pc = "done"

NobodyCalled ==
  \A n \in Nodes, u \in Uploads : put[n][u].pc = "idle" => put'[n][u].pc = "idle"

\* A step on one put that publishes nothing.
LEMMA QuietPut ==
  ASSUME FileTypes, NEW n \in Nodes, NEW u \in Uploads, NEW p \in Puts,
         put' = [put EXCEPT ![n][u] = p], put[n][u].pc # "done",
         p.answer = put[n][u].answer \/ p.pc = "done",
         overlapped \subseteq overlapped', UNCHANGED <<path, publisher>>
  PROVE  FilesGrow
<1>1. \A m \in Nodes, w \in Uploads :
        /\ put[m][w].pc = "done" => put'[m][w] = put[m][w]
        /\ put'[m][w].answer = put[m][w].answer \/ put'[m][w].pc = "done"
  BY OnePut
<1> QED
  BY <1>1 DEF FilesGrow

LEMMA ReceiveGrows ==
  ASSUME FileInv, NEW n \in Nodes, NEW u \in Uploads, Receive(n, u)
  PROVE  /\ FilesGrow
         /\ \A m \in Nodes, w \in Uploads : (m # n \/ w # u) => put'[m][w] = put[m][w]
<1> DEFINE p == [put[n][u] EXCEPT !.pc = "create"]
<1>1. FileTypes /\ put[n][u] \in Puts
  BY DEF FileInv, FileTypes
<1>2. p \in Puts /\ p.answer = put[n][u].answer
  BY <1>1 DEF Puts
<1>3. /\ put[n][u].pc = "idle" /\ put' = [put EXCEPT ![n][u] = p]
      /\ overlapped \subseteq overlapped' /\ UNCHANGED <<path, publisher>>
  BY DEF Receive
<1> HIDE DEF p
<1>4. FilesGrow
  <2>1. put[n][u].pc # "done"
    BY <1>3
  <2> QED
    BY <1>1, <1>2, <1>3, <2>1, QuietPut
<1>5. \A m \in Nodes, w \in Uploads : (m # n \/ w # u) => put'[m][w] = put[m][w]
  BY <1>1, <1>2, <1>3, OnePut
<1> QED
  BY <1>4, <1>5

LEMMA AnsweredGrows ==
  ASSUME FileTypes, NEW n \in Nodes, NEW u \in Uploads, put[n][u].pc \notin {"idle", "done"},
         NEW answer \in {"none", "created", "empty", "failed"}, Answered(n, u, answer),
         UNCHANGED <<path, publisher, overlapped>>
  PROVE  FilesGrow /\ NobodyCalled
<1>1. Ended(answer) \in Puts /\ Ended(answer).pc = "done"
  BY EndedPut
<1>2. put' = [put EXCEPT ![n][u] = Ended(answer)]
  BY DEF Answered
<1>3. FilesGrow
  BY <1>1, <1>2, QuietPut
<1>4. NobodyCalled
  BY <1>1, <1>2, OnePut DEF NobodyCalled
<1> QED
  BY <1>3, <1>4

LEMMA RenameGrows ==
  ASSUME FileInv, NEW n \in Nodes, NEW u \in Uploads, Rename(n, u)
  PROVE  FilesGrow /\ NobodyCalled
<1>1. /\ FileTypes /\ put[n][u].pc = "write" /\ tmp[n][Object[u]] # NoFile
      /\ Object[u] \in Objects /\ overlapped' = overlapped
  BY ObjectAssumption DEF Rename, FileInv
<1>2. tmp[n][Object[u]] \in Uploads /\ publisher[n][tmp[n][Object[u]]] = NoFile
  BY <1>1 DEF FileInv, TmpUnpublished, Born
<1>3. Ended("created") \in Puts /\ Ended("created").pc = "done"
  BY EndedPut
<1>4. put' = [put EXCEPT ![n][u] = Ended("created")]
  BY DEF Rename, Answered
<1>5. /\ put'[n][u].pc = "done"
      /\ \A m \in Nodes, w \in Uploads : (m # n \/ w # u) => put'[m][w] = put[m][w]
  <2> SUFFICES ASSUME NEW p \in Puts, p.pc = "done", put' = [put EXCEPT ![n][u] = p]
               PROVE  /\ put'[n][u] = p
                      /\ \A m \in Nodes, w \in Uploads :
                           (m # n \/ w # u) => put'[m][w] = put[m][w]
    BY <1>3, <1>4
  <2>1. put \in [Nodes -> [Uploads -> Puts]]
    BY <1>1 DEF FileTypes
  <2> QED
    BY <2>1
<1>6. \A m \in Nodes, f \in Uploads :
        publisher[m][f] # NoFile => publisher'[m][f] = publisher[m][f]
  BY <1>1, <1>2 DEF Rename, FileTypes
<1>7. \A m \in Nodes, o \in Objects :
        \/ path'[m][o] = path[m][o]
        \/ m = n /\ o = Object[u] /\ path'[m][o] # NoFile
  BY <1>1 DEF Rename, FileTypes
<1>8. FilesGrow
  BY <1>1, <1>5, <1>6, <1>7 DEF FilesGrow
<1>9. NobodyCalled
  BY <1>1, <1>5 DEF NobodyCalled
<1> QED
  BY <1>8, <1>9

LEMMA PutStepGrows ==
  ASSUME FileInv, NEW n \in Nodes, NEW u \in Uploads, PutStep(n, u)
  PROVE  FilesGrow /\ NobodyCalled
<1>1. FileTypes /\ put[n][u] \in Puts
  BY DEF FileInv, FileTypes
<1>2. CASE CreateFails(n, u) \/ CopyFails(n, u) \/ RemoveTmp(n, u)
  BY <1>1, <1>2, AnsweredGrows DEF CreateFails, CopyFails, RemoveTmp
<1>3. CASE Rename(n, u)
  BY <1>3, RenameGrows
<1>4. ASSUME NEW p \in Puts, put' = [put EXCEPT ![n][u] = p],
             p.answer = put[n][u].answer, p.pc # "idle",
             put[n][u].pc \notin {"idle", "done"},
             UNCHANGED <<path, publisher, overlapped>>
      PROVE  FilesGrow /\ NobodyCalled
  <2>1. FilesGrow
    BY <1>1, <1>4, QuietPut
  <2>2. NobodyCalled
    BY <1>1, <1>4, OnePut DEF NobodyCalled
  <2> QED
    BY <2>1, <2>2
<1>5. CASE Create(n, u)
  <2>1. PICK file \in Uploads \cup {NoFile} :
          /\ put' = [put EXCEPT ![n][u].pc = "write", ![n][u].fd = file]
          /\ put[n][u].pc = "create" /\ UNCHANGED <<path, publisher, overlapped>>
    <3>1. (IF tmp[n][Object[u]] = NoFile THEN u ELSE tmp[n][Object[u]]) \in Uploads \cup {NoFile}
      BY <1>1, ObjectAssumption DEF FileTypes
    <3> QED
      BY <1>5, <3>1, Zenon DEF Create
  <2> DEFINE p == [put[n][u] EXCEPT !.pc = "write", !.fd = file]
  <2>2. p \in Puts /\ p.pc = "write" /\ p.answer = put[n][u].answer
    BY <1>1 DEF Puts
  <2>3. put' = [put EXCEPT ![n][u] = p]
    BY <2>1
  <2> HIDE DEF p
  <2> QED
    BY <1>4, <2>1, <2>2, <2>3
<1>6. CASE WriteChunk(n, u)
  <2> DEFINE p == [put[n][u] EXCEPT !.offset = @ + 1]
  <2>1. p \in Puts /\ p.pc = put[n][u].pc /\ p.answer = put[n][u].answer
    BY <1>1 DEF Puts
  <2>2. /\ put' = [put EXCEPT ![n][u] = p] /\ put[n][u].pc = "write"
        /\ UNCHANGED <<path, publisher, overlapped>>
    BY <1>6 DEF WriteChunk
  <2> HIDE DEF p
  <2> QED
    BY <1>4, <2>1, <2>2
<1>7. CASE SyncFails(n, u) \/ RenameFails(n, u)
  <2> DEFINE p == [put[n][u] EXCEPT !.pc = "remove"]
  <2>1. p \in Puts /\ p.pc = "remove" /\ p.answer = put[n][u].answer
    BY <1>1 DEF Puts
  <2>2. /\ put' = [put EXCEPT ![n][u] = p] /\ put[n][u].pc = "write"
        /\ UNCHANGED <<path, publisher, overlapped>>
    BY <1>7 DEF SyncFails, RenameFails
  <2> HIDE DEF p
  <2> QED
    BY <1>4, <2>1, <2>2
<1> QED
  BY <1>2, <1>3, <1>5, <1>6, <1>7 DEF PutStep

LEMMA CrashGrows ==
  ASSUME FileInv, NEW n \in Nodes, CrashPuts(n)
  PROVE  FilesGrow /\ NobodyCalled
<1>1. \A m \in Nodes, w \in Uploads :
        put'[m][w] = put[m][w] \/ (Running(m, w) /\ put'[m][w] = Ended("failed"))
  BY DEF FileInv, FileTypes, CrashPuts
<1>2. Ended("failed").pc = "done"
  BY EndedPut
<1>3. UNCHANGED <<path, publisher, overlapped>>
  BY DEF CrashPuts
<1> QED
  BY <1>1, <1>2, <1>3 DEF FilesGrow, NobodyCalled, Running

LEMMA NothingGrows ==
  ASSUME FileInv, UNCHANGED fsDisk
  PROVE  FileInv' /\ FilesGrow /\ NobodyCalled
<1>1. FileInv'
  BY DEF fsDisk, FileInv, FileTypes, StartsAtZero, TmpUnpublished, HandlesOpen,
     PathsPublished, OverlapsMarked, AloneExact, PublishedExact, CreatedIsThere, Born, Running
<1>2. FilesGrow /\ NobodyCalled
  BY DEF fsDisk, FilesGrow, NobodyCalled
<1> QED
  BY <1>1, <1>2
-----------------------------------------------------------------------------
UploadHandlers ==
  [pc : {"idle", "send", "await", "created", "badgateway", "unavailable"},
   at : Nat, success : Nat]

ViewHandlers ==
  [pc : {"idle", "try", "copy", "ended", "cut", "error"}, replicas : Seq(Nodes), at : Nat,
   node : Nodes \cup {"none"}, fd : Uploads \cup {NoFile}, got : Seq(Uploads \cup {Hole})]

UploadTypes ==
  /\ upload \in [Uploads -> UploadHandlers]
  /\ \A u \in Uploads : upload[u].at \in 1..Len(Targets(u))

LEMMA TargetsType ==
  ASSUME NEW u \in Uploads
  PROVE  Targets(u) \in Seq(Nodes) /\ Len(Targets(u)) \in Nat \ {0}
BY ObjectAssumption, ReplicasAssumption DEF Targets

LEMMA NodeType ==
  ASSUME UploadTypes, NEW u \in Uploads
  PROVE  Node(u) \in Nodes
BY TargetsType DEF UploadTypes, Node

\* The other handlers of uploads go on as they were.
OthersWait(u) == \A w \in Uploads \ {u} : upload'[w] = upload[w]

LEMMA UploadMoves ==
  ASSUME UploadTypes, NEW u \in Uploads,
         NEW pc \in {"idle", "send", "await", "created", "badgateway", "unavailable"},
         upload' = [upload EXCEPT ![u].pc = pc]
  PROVE  /\ UploadTypes' /\ OthersWait(u)
         /\ upload'[u].pc = pc
         /\ upload'[u].at = upload[u].at
         /\ upload'[u].success = upload[u].success
<1>1. upload[u] \in UploadHandlers
  BY DEF UploadTypes
<1>2. [upload[u] EXCEPT !.pc = pc] \in UploadHandlers
  BY <1>1 DEF UploadHandlers
<1>3. /\ upload'[u].pc = pc /\ upload'[u].at = upload[u].at
      /\ upload'[u].success = upload[u].success
  BY <1>1 DEF UploadTypes, UploadHandlers
<1>4. upload' \in [Uploads -> UploadHandlers] /\ OthersWait(u)
  BY <1>2 DEF UploadTypes, OthersWait
<1> QED
  BY <1>3, <1>4 DEF UploadTypes, OthersWait, Targets

\* What the end of one put does to the upload.
Passes(u, gained) ==
  /\ OthersWait(u)
  /\ upload'[u].success = upload[u].success + gained
  /\ \/ /\ upload[u].at < Len(Targets(u))
        /\ upload'[u].at = upload[u].at + 1
        /\ upload'[u].pc = "send"
     \/ /\ upload'[u].at = upload[u].at
        /\ upload'[u].pc \in {"created", "badgateway"}

LEMMA UploadAdvances ==
  ASSUME UploadTypes, NEW u \in Uploads, NEW gained \in {0, 1}, Advance(u, gained)
  PROVE  UploadTypes' /\ Passes(u, gained)
<1> DEFINE pc == IF upload[u].at < Len(Targets(u)) THEN "send"
                 ELSE IF upload[u].success + gained >= WriteW THEN "created" ELSE "badgateway"
           at == IF upload[u].at < Len(Targets(u)) THEN upload[u].at + 1 ELSE upload[u].at
           r == [upload[u] EXCEPT !.success = upload[u].success + gained, !.at = at, !.pc = pc]
<1>1. /\ upload \in [Uploads -> UploadHandlers] /\ upload[u] \in UploadHandlers
      /\ upload[u].at \in 1..Len(Targets(u)) /\ Len(Targets(u)) \in Nat
  BY TargetsType DEF UploadTypes
<1>2. upload' = [upload EXCEPT ![u] = r]
  BY <1>1 DEF Advance
<1>3. at \in 1..Len(Targets(u)) /\ upload[u].success \in Nat
  BY <1>1 DEF UploadHandlers
<1>4. pc \in {"send", "created", "badgateway"}
  OBVIOUS
<1>5. /\ upload[u].at < Len(Targets(u)) => at = upload[u].at + 1 /\ pc = "send"
      /\ ~(upload[u].at < Len(Targets(u))) => at = upload[u].at /\ pc \in {"created", "badgateway"}
  OBVIOUS
<1> HIDE DEF pc, at
<1>6. /\ r \in UploadHandlers /\ r.at = at /\ r.pc = pc
      /\ r.success = upload[u].success + gained
  <2>1. at \in Nat /\ upload[u].success + gained \in Nat
    BY <1>1, <1>3
  <2> QED
    BY <1>1, <1>4, <2>1 DEF UploadHandlers
<1> HIDE DEF r
<1>7. upload' \in [Uploads -> UploadHandlers] /\ upload'[u] = r /\ OthersWait(u)
  BY <1>1, <1>2, <1>6 DEF OthersWait
<1>8. UploadTypes'
  BY <1>3, <1>6, <1>7 DEF UploadTypes, OthersWait, Targets
<1>9. Passes(u, gained)
  BY <1>5, <1>6, <1>7 DEF Passes
<1> QED
  BY <1>8, <1>9

\* Who was called: the node an upload is at.
Called ==
  \A n \in Nodes, u \in Uploads :
    put[n][u].pc = "idle" /\ put'[n][u].pc # "idle" => upload[u].pc = "send" /\ n = Node(u)

\* Any step leaves the files right and forgets nothing.
LEMMA FilesStep ==
  ASSUME FileInv, UploadTypes, Next
  PROVE  FileInv' /\ FilesGrow /\ Called
<1>1. CASE UNCHANGED fsDisk
  BY <1>1, NothingGrows DEF Called, NobodyCalled
<1>2. ASSUME NEW u \in Uploads, SendPut(u) PROVE FileInv' /\ FilesGrow /\ Called
  <2>1. Node(u) \in Nodes /\ upload[u].pc = "send" /\ Receive(Node(u), u)
    BY <1>2, NodeType DEF SendPut
  <2> QED
    BY <2>1, ReceiveInv, ReceiveGrows DEF Called
<1>3. ASSUME NEW n \in Nodes, NEW u \in Uploads, PutStep(n, u) PROVE FileInv' /\ FilesGrow /\ Called
  BY <1>3, PutStepInv, PutStepGrows DEF Called, NobodyCalled
<1>4. ASSUME NEW n \in Nodes, Crash(n) PROVE FileInv' /\ FilesGrow /\ Called
  BY <1>4, CrashInv, CrashGrows DEF Crash, Called, NobodyCalled
<1>5. ASSUME NEW u \in Uploads, Register(u) \/ RegisterFails(u) \/ UploadStep(u)
      PROVE  FileInv' /\ FilesGrow /\ Called
  BY <1>1, <1>2, <1>5 DEF Register, RegisterFails, UploadStep, PutUnreachable, PutAnswered,
     PutTimesOut, fsVars
<1>6. ASSUME NEW v \in Viewers, Locate(v) \/ ViewStep(v) PROVE FileInv' /\ FilesGrow /\ Called
  BY <1>1, <1>6 DEF Locate, ViewStep, Open, TryNext, CopyChunk, CopyEnds, CopyCut, fsVars
<1> QED
  BY <1>3, <1>4, <1>5, <1>6 DEF Next
-----------------------------------------------------------------------------
\* The steps of the handler of an upload.
Begins(u) ==
  /\ upload[u].pc = "idle" /\ upload'[u].pc \in {"send", "unavailable"}
  /\ upload'[u].at = upload[u].at /\ upload'[u].success = upload[u].success
  /\ upload'[u].pc = "send" => location' = Located(u)

Sends(u) ==
  /\ upload[u].pc = "send" /\ upload'[u].pc = "await"
  /\ upload'[u].at = upload[u].at /\ upload'[u].success = upload[u].success

Counts(u) ==
  /\ upload[u].pc = "await"
  /\ put[Node(u)][u].answer \in {"created", "empty"}
  /\ Passes(u, 1)

UploadGoes(u) ==
  /\ OthersWait(u)
  /\ \/ Begins(u)
     \/ Sends(u)
     \/ upload[u].pc \in {"send", "await"} /\ Passes(u, 0)
     \/ Counts(u)

LEMMA RegisterGoes ==
  ASSUME UploadTypes, NEW u \in Uploads, Register(u) \/ RegisterFails(u)
  PROVE  UploadTypes' /\ UploadGoes(u) /\ (location' = location \/ location' = Located(u))
<1>1. CASE Register(u)
  <2>1. /\ upload' = [upload EXCEPT ![u].pc = "send"] /\ location' = Located(u)
        /\ upload[u].pc = "idle"
    BY <1>1 DEF Register
  <2> QED
    BY <2>1, UploadMoves DEF UploadGoes, Begins
<1>2. CASE RegisterFails(u)
  <2>1. /\ upload' = [upload EXCEPT ![u].pc = "unavailable"]
        /\ location' = location \/ location' = Located(u)
        /\ upload[u].pc = "idle"
    BY <1>2 DEF RegisterFails
  <2> QED
    BY <2>1, UploadMoves DEF UploadGoes, Begins
<1> QED
  BY <1>1, <1>2

LEMMA UploadStepGoes ==
  ASSUME UploadTypes, NEW u \in Uploads, UploadStep(u)
  PROVE  UploadTypes' /\ UploadGoes(u) /\ UNCHANGED <<location, view>>
<1>1. CASE SendPut(u)
  <2>1. /\ upload' = [upload EXCEPT ![u].pc = "await"] /\ upload[u].pc = "send"
        /\ UNCHANGED <<location, view>>
    BY <1>1 DEF SendPut
  <2> QED
    BY <2>1, UploadMoves DEF UploadGoes, Sends
<1>2. CASE PutUnreachable(u) \/ PutTimesOut(u)
  <2>1. /\ Advance(u, 0) /\ upload[u].pc \in {"send", "await"}
        /\ UNCHANGED <<location, view>>
    BY <1>2 DEF PutUnreachable, PutTimesOut
  <2> QED
    BY <2>1, UploadAdvances DEF UploadGoes, Passes
<1>3. CASE PutAnswered(u)
  <2>1. upload[u].pc = "await" /\ UNCHANGED <<location, view>>
    BY <1>3 DEF PutAnswered
  <2>2. CASE put[Node(u)][u].answer \in {"created", "empty"}
    <3>1. Advance(u, 1)
      BY <1>3, <2>2 DEF PutAnswered
    <3> QED
      BY <2>1, <2>2, <3>1, UploadAdvances DEF UploadGoes, Counts, Passes
  <2>3. CASE put[Node(u)][u].answer \notin {"created", "empty"}
    <3>1. Advance(u, 0)
      BY <1>3, <2>3 DEF PutAnswered
    <3> QED
      BY <2>1, <3>1, UploadAdvances DEF UploadGoes, Passes
  <2> QED
    BY <2>2, <2>3
<1> QED
  BY <1>1, <1>2, <1>3 DEF UploadStep

LEMMA UploadsStep ==
  ASSUME UploadTypes, Next
  PROVE  /\ UploadTypes'
         /\ upload' = upload \/ \E u \in Uploads : UploadGoes(u)
         /\ location' = location \/ \E u \in Uploads : location' = Located(u)
<1>1. ASSUME UNCHANGED <<location, upload>>
      PROVE  /\ UploadTypes'
             /\ upload' = upload /\ location' = location
  BY <1>1 DEF UploadTypes, Targets
<1>2. ASSUME NEW u \in Uploads, Register(u) \/ RegisterFails(u) \/ UploadStep(u)
      PROVE  /\ UploadTypes'
             /\ UploadGoes(u)
             /\ location' = location \/ location' = Located(u)
  BY <1>2, RegisterGoes, UploadStepGoes
<1>3. ASSUME NEW v \in Viewers, Locate(v) \/ ViewStep(v) PROVE UNCHANGED <<location, upload>>
  BY <1>3 DEF Locate, ViewStep, Open, TryNext, CopyChunk, CopyEnds, CopyCut
<1>4. ASSUME NEW n \in Nodes, Crash(n) PROVE UNCHANGED <<location, upload>>
  BY <1>4 DEF Crash
<1>5. CASE \E u \in Uploads : Register(u) \/ RegisterFails(u) \/ UploadStep(u)
  BY <1>2, <1>5
<1>6. CASE UNCHANGED <<location, upload>>
  BY <1>1, <1>6
<1> QED
  BY <1>3, <1>4, <1>5, <1>6 DEF Next
-----------------------------------------------------------------------------
\* All spellings of a segment are stored on the same replicas.
OneSpelling == \A o, q \in Objects : Segment[o] = Segment[q] => Replicas[o] = Replicas[q]

Settled(o) == location[Segment[o]] = Replicas[o]

LocationTypes == location \in [Segments -> Seq(Nodes)]

\* Nothing is sent, and so nothing is stored, before the location is.
RegisteredFirst ==
  /\ \A u \in Uploads : upload[u].pc \notin {"idle", "unavailable"} => Settled(Object[u])
  /\ \A n \in Nodes, u \in Uploads :
       put[n][u].pc # "idle" => Settled(Object[u]) /\ n \in ToSet(Replicas[Object[u]])
  /\ \A n \in Nodes, o \in Objects :
       path[n][o] # NoFile => Settled(o) /\ n \in ToSet(Replicas[o])

LEMMA LocatedFacts ==
  ASSUME LocationTypes, NEW u \in Uploads, location' = Located(u)
  PROVE  /\ LocationTypes' /\ Settled(Object[u])'
         /\ OneSpelling => \A o \in Objects : Settled(o) => Settled(o)'
<1>1. /\ Object[u] \in Objects /\ Segment[Object[u]] \in Segments
      /\ Replicas[Object[u]] \in Seq(Nodes)
  BY ObjectAssumption, SegmentAssumption, ReplicasAssumption
<1>2. location' = [location EXCEPT ![Segment[Object[u]]] = Replicas[Object[u]]]
  BY DEF Located
<1>3. LocationTypes' /\ Settled(Object[u])'
  BY <1>1, <1>2 DEF LocationTypes, Settled
<1>4. ASSUME OneSpelling, NEW o \in Objects, Settled(o) PROVE Settled(o)'
  BY <1>1, <1>2, <1>4, SegmentAssumption DEF LocationTypes, Settled, OneSpelling
<1> QED
  BY <1>3, <1>4

LEMMA RegisteredStep ==
  ASSUME FileInv, UploadTypes, LocationTypes, RegisteredFirst, OneSpelling, Next
  PROVE  LocationTypes' /\ RegisteredFirst'
<1>1. FilesGrow /\ Called
  BY FilesStep
<1>2. /\ UploadTypes'
      /\ upload' = upload \/ \E u \in Uploads : UploadGoes(u)
      /\ location' = location \/ \E u \in Uploads : location' = Located(u)
  BY UploadsStep
<1>3. LocationTypes' /\ \A o \in Objects : Settled(o) => Settled(o)'
  <2>1. CASE location' = location
    BY <2>1 DEF LocationTypes, Settled
  <2>2. CASE \E u \in Uploads : location' = Located(u)
    BY <2>2, LocatedFacts
  <2> QED
    BY <1>2, <2>1, <2>2
<1>4. ASSUME NEW u \in Uploads, upload'[u].pc \notin {"idle", "unavailable"}
      PROVE  Settled(Object[u])'
  <2>1. CASE upload[u].pc \notin {"idle", "unavailable"}
    BY <1>3, <2>1, ObjectAssumption DEF RegisteredFirst
  <2>2. CASE upload[u].pc \in {"idle", "unavailable"}
    <3>1. PICK w \in Uploads : UploadGoes(w)
      BY <1>2, <1>4, <2>2
    <3>2. w = u
      BY <1>4, <2>2, <3>1 DEF UploadGoes, OthersWait
    <3>3. Begins(u)
      BY <2>2, <3>1, <3>2 DEF UploadGoes, Sends, Counts
    <3>4. location' = Located(u)
      BY <1>4, <3>3 DEF Begins
    <3> QED
      BY <3>4, LocatedFacts
  <2> QED
    BY <2>1, <2>2
<1>5. ASSUME NEW n \in Nodes, NEW u \in Uploads, put'[n][u].pc # "idle"
      PROVE  Settled(Object[u])' /\ n \in ToSet(Replicas[Object[u]])
  <2>1. CASE put[n][u].pc # "idle"
    BY <1>3, <2>1, ObjectAssumption DEF RegisteredFirst
  <2>2. CASE put[n][u].pc = "idle"
    <3>1. upload[u].pc = "send" /\ n = Node(u)
      BY <1>1, <1>5, <2>2 DEF Called
    <3>2. Settled(Object[u])'
      BY <1>3, <3>1, ObjectAssumption DEF RegisteredFirst
    <3>3. Node(u) \in ToSet(Targets(u))
      BY TargetsType DEF UploadTypes, Node, ToSet
    <3> QED
      BY <3>1, <3>2, <3>3 DEF Targets
  <2> QED
    BY <2>1, <2>2
<1>6. ASSUME NEW n \in Nodes, NEW o \in Objects, path'[n][o] # NoFile
      PROVE  Settled(o)' /\ n \in ToSet(Replicas[o])
  <2>1. path[n][o] # NoFile \/ \E u \in Uploads : Object[u] = o /\ put[n][u].pc # "idle"
    BY <1>1, <1>6 DEF FilesGrow
  <2> QED
    BY <1>3, <2>1 DEF RegisteredFirst
<1> QED
  BY <1>3, <1>4, <1>5, <1>6 DEF RegisteredFirst

LEMMA StartInv ==
  ASSUME Init
  PROVE  FileInv /\ UploadTypes /\ LocationTypes /\ RegisteredFirst
<1>1. FileInv
  BY FSInitInv DEF Init
<1>2. upload = [u \in Uploads |-> [pc |-> "idle", at |-> 1, success |-> 0]]
  BY DEF Init
<1>3. UploadTypes
  BY <1>2, TargetsType DEF UploadTypes, UploadHandlers
<1>4. LocationTypes
  BY DEF Init, LocationTypes
<1>5. \A n \in Nodes : (\A u \in Uploads : put[n][u].pc = "idle") /\ \A o \in Objects : path[n][o] = NoFile
  BY DEF Init, FSInit, NoPut
<1>6. RegisteredFirst
  BY <1>2, <1>5 DEF RegisteredFirst
<1> QED
  BY <1>1, <1>3, <1>4, <1>6

LEMMA StutterStep ==
  ASSUME FileInv, UploadTypes, LocationTypes, RegisteredFirst, UNCHANGED vars
  PROVE  (FileInv /\ UploadTypes /\ LocationTypes /\ RegisteredFirst)'
<1>1. FileInv'
  BY NothingGrows DEF vars, fsVars
<1>2. UploadTypes' /\ LocationTypes'
  BY DEF vars, UploadTypes, LocationTypes, Targets
<1>3. RegisteredFirst'
  BY DEF vars, fsVars, fsDisk, RegisteredFirst, Settled
<1> QED
  BY <1>1, <1>2, <1>3

\* If all spellings of a segment have the same replicas, what a node stores can
\* be found: the location stored for the segment names the node
\* (web/main.go:54-64 registers before it puts), whatever fails and comes late.
THEOREM StoredCanBeFound ==
  ASSUME OneSpelling
  PROVE  Spec => []StoredIsLocated
<1> DEFINE Inv == FileInv /\ UploadTypes /\ LocationTypes /\ RegisteredFirst
<1>1. Init => Inv
  BY StartInv
<1>2. Inv /\ [Next]_vars => Inv'
  <2>1. Inv /\ Next => Inv'
    BY FilesStep, UploadsStep, RegisteredStep
  <2> QED
    BY <2>1, StutterStep
<1>3. Inv => StoredIsLocated
  BY DEF RegisteredFirst, Settled, StoredIsLocated
<1> QED
  BY <1>1, <1>2, <1>3, PTL DEF Spec
-----------------------------------------------------------------------------
\* The nodes that an upload has on its account.
Kept(u) == {n \in Nodes : path[n][Object[u]] # NoFile \/ put[n][u].answer = "empty"}

\* The replicas that the upload has dealt with.
Passed(u) ==
  {Targets(u)[i] : i \in 1..(IF upload[u].pc \in {"created", "badgateway"}
                             THEN upload[u].at ELSE upload[u].at - 1)}

AnsweredOnce ==
  \A n \in Nodes, u \in Uploads : put[n][u].answer # "none" => put[n][u].pc = "done"

Accounted == \A u \in Uploads : upload[u].success <= Cardinality(Kept(u) \cap Passed(u))

DistinctReplicas ==
  \A o \in Objects : \A i, j \in 1..Len(Replicas[o]) : Replicas[o][i] = Replicas[o][j] => i = j

LEMMA KeptGrows ==
  ASSUME FilesGrow, AnsweredOnce
  PROVE  AnsweredOnce' /\ \A u \in Uploads : Kept(u) \subseteq Kept(u)'
<1>1. AnsweredOnce'
  BY DEF FilesGrow, AnsweredOnce
<1>2. \A n \in Nodes, u \in Uploads : put[n][u].answer = "empty" => put'[n][u].answer = "empty"
  BY DEF FilesGrow, AnsweredOnce
<1> QED
  BY <1>1, <1>2, ObjectAssumption DEF FilesGrow, Kept

LEMMA AccountGoes ==
  ASSUME FileInv, UploadTypes, UploadTypes', AnsweredOnce, Accounted, FilesGrow,
         DistinctReplicas, IsFiniteSet(Nodes), NEW u \in Uploads, UploadGoes(u)
  PROVE  upload'[u].success <= Cardinality((Kept(u) \cap Passed(u))')
<1> DEFINE Old == Kept(u) \cap Passed(u)
           New == (Kept(u) \cap Passed(u))'
<1>1. Kept(u) \subseteq Kept(u)' /\ Old \subseteq Kept(u)
  BY KeptGrows
<1>2. /\ upload[u].success \in Nat /\ upload[u].at \in Nat /\ upload[u].at \in 1..Len(Targets(u))
      /\ upload'[u].success \in Nat /\ upload'[u].at \in Nat
      /\ upload[u].success <= Cardinality(Old)
  BY DEF UploadTypes, UploadHandlers, Accounted
<1>3. Targets(u)' = Targets(u) /\ Len(Targets(u)) \in Nat
  BY TargetsType DEF Targets
<1>4. Kept(u)' \subseteq Nodes
  BY DEF Kept
<1>5. IsFiniteSet(New) /\ IsFiniteSet(Old) /\ Cardinality(New) \in Nat /\ Cardinality(Old) \in Nat
  <2>1. New \in SUBSET Nodes /\ Old \in SUBSET Nodes
    BY <1>1, <1>4
  <2> QED
    BY <2>1, FS_Subset, FS_CardinalityType
<1>6. ASSUME Passed(u) \subseteq Passed(u)', upload'[u].success = upload[u].success
      PROVE  upload'[u].success <= Cardinality(New)
  <2>1. Old \in SUBSET New
    BY <1>1, <1>6
  <2>2. Cardinality(Old) <= Cardinality(New)
    BY <1>5, <2>1, FS_Subset
  <2> QED
    BY <1>2, <1>5, <1>6, <2>2
<1>7. CASE Begins(u) \/ Sends(u)
  <2>1. /\ upload'[u].at = upload[u].at /\ upload'[u].success = upload[u].success
        /\ upload[u].pc \notin {"created", "badgateway"}
        /\ upload'[u].pc \notin {"created", "badgateway"}
    BY <1>7 DEF Begins, Sends
  <2>2. Passed(u)' = Passed(u)
    BY <1>3, <2>1 DEF Passed
  <2> QED
    BY <1>6, <2>1, <2>2
<1>8. ASSUME NEW gained \in {0, 1}, Passes(u, gained), upload[u].pc \in {"send", "await"}
      PROVE  Passed(u)' = Passed(u) \cup {Node(u)}
  <2>1. Passed(u) = {Targets(u)[i] : i \in 1..(upload[u].at - 1)}
    BY <1>8 DEF Passed
  <2>2. Passed(u)' = {Targets(u)[i] : i \in 1..upload[u].at}
    <3>1. CASE upload'[u].at = upload[u].at + 1 /\ upload'[u].pc = "send"
      BY <1>2, <1>3, <3>1 DEF Passed
    <3>2. CASE upload'[u].at = upload[u].at /\ upload'[u].pc \in {"created", "badgateway"}
      BY <1>3, <3>2 DEF Passed
    <3> QED
      BY <1>8, <3>1, <3>2 DEF Passes
  <2>3. 1..upload[u].at = (1..(upload[u].at - 1)) \cup {upload[u].at}
    BY <1>2
  <2> QED
    BY <2>1, <2>2, <2>3 DEF Node
<1>9. CASE upload[u].pc \in {"send", "await"} /\ Passes(u, 0)
  <2>1. Passed(u) \subseteq Passed(u)'
    BY <1>8, <1>9
  <2>2. upload'[u].success = upload[u].success
    BY <1>2, <1>9 DEF Passes
  <2> QED
    BY <1>6, <2>1, <2>2
<1>10. CASE Counts(u)
  <2>1. /\ upload[u].pc = "await" /\ Passes(u, 1)
        /\ put[Node(u)][u].answer \in {"created", "empty"}
    BY <1>10 DEF Counts
  <2>2. Node(u) \in Nodes
    BY NodeType
  <2>3. Node(u) \in Kept(u)
    <3>1. put[Node(u)][u].answer = "created" => path[Node(u)][Object[u]] # NoFile
      BY <2>2 DEF FileInv, CreatedIsThere
    <3> QED
      BY <2>1, <2>2, <3>1 DEF Kept
  <2>4. Node(u) \notin Passed(u)
    <3> SUFFICES ASSUME NEW i \in 1..(upload[u].at - 1), Targets(u)[i] = Targets(u)[upload[u].at]
                 PROVE  FALSE
      BY <2>1 DEF Passed, Node
    <3>1. i \in 1..Len(Targets(u)) /\ i # upload[u].at
      BY <1>2, <1>3
    <3> QED
      BY <1>2, <3>1, ObjectAssumption DEF DistinctReplicas, Targets
  <2>5. Old \cup {Node(u)} \in SUBSET New /\ Node(u) \notin Old
    BY <1>1, <1>8, <2>1, <2>3, <2>4
  <2> HIDE DEF Old, New
  <2>6. Cardinality(Old \cup {Node(u)}) = Cardinality(Old) + 1
    BY <1>5, <2>5, FS_AddElement
  <2>7. Cardinality(Old \cup {Node(u)}) <= Cardinality(New)
    BY <1>5, <2>5, FS_Subset
  <2>8. upload'[u].success = upload[u].success + 1
    BY <2>1 DEF Passes
  <2>9. upload'[u].success <= Cardinality(New)
    BY <1>2, <1>5, <2>6, <2>7, <2>8
  <2> QED
    BY <2>9 DEF New
<1> QED
  BY <1>7, <1>9, <1>10 DEF UploadGoes

LEMMA AccountStays ==
  ASSUME FilesGrow, AnsweredOnce, Accounted, UploadTypes, IsFiniteSet(Nodes),
         NEW u \in Uploads, upload'[u] = upload[u]
  PROVE  upload'[u].success <= Cardinality((Kept(u) \cap Passed(u))')
<1> DEFINE Old == Kept(u) \cap Passed(u)
           New == (Kept(u) \cap Passed(u))'
<1>1. Passed(u)' = Passed(u)
  BY DEF Passed, Targets
<1>2. Old \in SUBSET New /\ New \in SUBSET Nodes /\ Old \in SUBSET Nodes
  BY <1>1, KeptGrows DEF Kept
<1>3. upload[u].success \in Nat /\ upload[u].success <= Cardinality(Old)
  BY DEF UploadTypes, UploadHandlers, Accounted
<1> HIDE DEF Old, New
<1>4. IsFiniteSet(New) /\ Cardinality(New) \in Nat
  BY <1>2, FS_Subset, FS_CardinalityType
<1>5. Cardinality(Old) \in Nat /\ Cardinality(Old) <= Cardinality(New)
  BY <1>2, <1>4, FS_Subset, FS_CardinalityType
<1>6. upload'[u].success <= Cardinality(New)
  BY <1>3, <1>4, <1>5
<1> QED
  BY <1>6 DEF New

LEMMA AccountStep ==
  ASSUME FileInv, UploadTypes, AnsweredOnce, Accounted, DistinctReplicas, IsFiniteSet(Nodes),
         [Next]_vars
  PROVE  AnsweredOnce' /\ Accounted'
<1>1. CASE UNCHANGED vars
  BY <1>1 DEF vars, fsVars, fsDisk, AnsweredOnce, Accounted, Kept, Passed, Targets
<1>2. CASE Next
  <2>1. FilesGrow
    BY <1>2, FilesStep
  <2>2. UploadTypes' /\ (upload' = upload \/ \E u \in Uploads : UploadGoes(u))
    BY <1>2, UploadsStep
  <2>3. ASSUME NEW w \in Uploads
        PROVE  upload'[w].success <= Cardinality((Kept(w) \cap Passed(w))')
    <3>1. CASE upload'[w] = upload[w]
      BY <2>1, <3>1, AccountStays
    <3>2. CASE UploadGoes(w)
      BY <2>1, <2>2, <3>2, AccountGoes
    <3> QED
      BY <2>2, <3>1, <3>2 DEF UploadGoes, OthersWait
  <2>4. Accounted'
    BY <2>3 DEF Accounted
  <2> QED
    BY <2>1, <2>4, KeptGrows
<1> QED
  BY <1>1, <1>2

\* On finitely many nodes, and with replicas that differ, an upload never has
\* more successes than nodes that keep its object or answered 201 to a copy
\* that failed (web/main.go:95-121 counts answers; fs.go:35-38), however puts
\* time out, servers crash and other uploads run.
THEOREM SuccessesAreKept ==
  ASSUME DistinctReplicas, IsFiniteSet(Nodes)
  PROVE  Spec => []SuccessesStored
<1> DEFINE Inv == FileInv /\ UploadTypes /\ AnsweredOnce /\ Accounted
<1>1. Init => Inv
  <2> SUFFICES ASSUME Init PROVE Inv
    OBVIOUS
  <2>1. FileInv /\ UploadTypes
    BY StartInv
  <2>2. AnsweredOnce
    BY DEF Init, FSInit, NoPut, AnsweredOnce
  <2>3. \A u \in Uploads : upload[u].success = 0 /\ Passed(u) = {}
    BY DEF Init, Passed
  <2>4. \A u \in Uploads : Kept(u) \cap Passed(u) = {}
    BY <2>3
  <2>5. Accounted
    BY <2>3, <2>4, FS_EmptySet DEF Accounted
  <2> QED
    BY <2>1, <2>2, <2>5
<1>2. Inv /\ [Next]_vars => Inv'
  <2> SUFFICES ASSUME Inv, [Next]_vars PROVE Inv'
    OBVIOUS
  <2>1. CASE Next
    BY <2>1, FilesStep, UploadsStep, AccountStep
  <2>2. CASE UNCHANGED vars
    <3>1. FileInv'
      BY <2>2, NothingGrows DEF vars, fsVars
    <3>2. UploadTypes'
      BY <2>2 DEF vars, UploadTypes, Targets
    <3> QED
      BY <3>1, <3>2, AccountStep
  <2> QED
    BY <2>1, <2>2
<1>3. Inv => SuccessesStored
  <2> SUFFICES ASSUME Inv, NEW u \in Uploads
               PROVE  upload[u].success <= Cardinality(Kept(u))
    BY DEF SuccessesStored, Kept
  <2>1. Kept(u) \in SUBSET Nodes /\ (Kept(u) \cap Passed(u)) \in SUBSET Kept(u)
    BY DEF Kept
  <2>2. IsFiniteSet(Kept(u))
    BY <2>1, FS_Subset
  <2>3. /\ IsFiniteSet(Kept(u) \cap Passed(u))
        /\ Cardinality(Kept(u) \cap Passed(u)) <= Cardinality(Kept(u))
    BY <2>1, <2>2, FS_Subset
  <2>4. Cardinality(Kept(u)) \in Nat /\ Cardinality(Kept(u) \cap Passed(u)) \in Nat
    BY <2>2, <2>3, FS_CardinalityType
  <2>5. upload[u].success \in Nat /\ upload[u].success <= Cardinality(Kept(u) \cap Passed(u))
    BY DEF UploadTypes, UploadHandlers, Accounted
  <2> QED
    BY <2>3, <2>4, <2>5
<1> QED
  BY <1>1, <1>2, <1>3, PTL DEF Spec
-----------------------------------------------------------------------------
ViewTypes == view \in [Viewers -> ViewHandlers]

\* What the handler of a playback has sent is the start of the upload whose put
\* published the file, if that put ran alone.
Faithful(r, u) ==
  /\ Len(r.got) <= Length[u]
  /\ \A i \in 1..Len(r.got) : r.got[i] = u
  /\ r.pc = "ended" => Len(r.got) = Length[u]

Right(r) ==
  /\ r.pc \in {"idle", "try", "error"} => r.fd = NoFile /\ r.got = <<>>
  /\ r.pc = "idle" => r.at = 1
  /\ r.pc = "try" => r.at \in 1..Len(r.replicas)
  /\ r.pc = "copy" => r.fd # NoFile
  /\ r.fd # NoFile =>
       /\ r.node \in Nodes
       /\ publisher[r.node][r.fd] # NoFile
       /\ <<r.node, publisher[r.node][r.fd]>> \notin overlapped =>
            Faithful(r, publisher[r.node][r.fd])

ViewsRight == \A v \in Viewers : Right(view[v])

LEMMA RightStays ==
  ASSUME FilesGrow, FileTypes, NEW r \in ViewHandlers, Right(r)
  PROVE  Right(r)'
<1>1. ASSUME r.fd # NoFile
      PROVE  /\ r.node \in Nodes
             /\ publisher[r.node][r.fd] # NoFile
             /\ publisher'[r.node][r.fd] = publisher[r.node][r.fd]
             /\ <<r.node, publisher[r.node][r.fd]>> \notin overlapped' =>
                  Faithful(r, publisher[r.node][r.fd])
  <2>1. r.fd \in Uploads /\ r.node \in Nodes /\ publisher[r.node][r.fd] # NoFile
    BY <1>1 DEF Right, ViewHandlers
  <2>2. publisher'[r.node][r.fd] = publisher[r.node][r.fd] /\ overlapped \subseteq overlapped'
    BY <2>1 DEF FilesGrow
  <2> QED
    BY <1>1, <2>1, <2>2 DEF Right
<1> QED
  BY <1>1 DEF Right, Faithful

LEMMA OneView ==
  ASSUME ViewTypes, NEW v \in Viewers, NEW r \in ViewHandlers, view' = [view EXCEPT ![v] = r]
  PROVE  ViewTypes' /\ view'[v] = r /\ \A w \in Viewers \ {v} : view'[w] = view[w]
BY DEF ViewTypes

\* A step on one playback whose handler is right after it.
LEMMA OneRight ==
  ASSUME ViewTypes, ViewsRight, FileTypes, FilesGrow, NEW v \in Viewers,
         NEW r \in ViewHandlers, view' = [view EXCEPT ![v] = r], Right(r)'
  PROVE  ViewTypes' /\ ViewsRight'
<1>1. ViewTypes' /\ view'[v] = r /\ \A w \in Viewers \ {v} : view'[w] = view[w]
  BY OneView
<1>2. ASSUME NEW w \in Viewers, w # v, NEW q, q = view[w]
      PROVE  Right(view[w])'
  <2>1. q \in ViewHandlers /\ Right(q)
    BY <1>2 DEF ViewTypes, ViewsRight
  <2>2. Right(q)' /\ view'[w] = q
    BY <1>1, <1>2, <2>1, RightStays
  <2> QED
    BY <2>2 DEF Right
<1>3. Right(view[v])'
  BY <1>1 DEF Right
<1> QED
  BY <1>1, <1>2, <1>3 DEF ViewsRight

\* The file of an upload holds its chunk at every offset.
LEMMA WholeFile ==
  ASSUME NEW u \in Uploads
  PROVE  /\ Length[u] \in Nat /\ Whole(u) \in Seq(Uploads)
         /\ Len(Whole(u)) = Length[u] /\ \A i \in 1..Length[u] : Whole(u)[i] = u
<1> SUFFICES ASSUME NEW k \in Nat, k = Length[u], NEW file, file = [i \in 1..k |-> u]
             PROVE  /\ file \in Seq(Uploads)
                    /\ Len(file) = k /\ \A i \in 1..k : file[i] = u
  BY LengthAssumption DEF Whole
<1>1. file \in Seq(Uploads)
  OBVIOUS
<1> QED
  BY <1>1

LEMMA QuietRight ==
  ASSUME ViewTypes, ViewsRight, FileInv, UNCHANGED fsDisk, NEW v \in Viewers,
         NEW r \in ViewHandlers, view' = [view EXCEPT ![v] = r], Right(r)
  PROVE  ViewTypes' /\ ViewsRight'
<1>1. FilesGrow /\ FileTypes
  BY NothingGrows DEF FileInv
<1> QED
  BY <1>1, RightStays, OneRight

LEMMA LookupMoves ==
  ASSUME ViewTypes, ViewsRight, FileInv, LocationTypes, NEW v \in Viewers,
         Locate(v) \/ TryNext(v) \/ CopyEnds(v) \/ CopyCut(v)
  PROVE  ViewTypes' /\ ViewsRight'
<1> SUFFICES ASSUME NEW q \in ViewHandlers, view[v] = q, Right(q)
             PROVE  ViewTypes' /\ ViewsRight'
  BY DEF ViewTypes, ViewsRight
<1>1. UNCHANGED fsDisk
  BY DEF Locate, TryNext, CopyEnds, CopyCut, fsVars
<1>2. CASE Locate(v)
  <2> SUFFICES ASSUME NEW replicas \in Seq(Nodes), replicas = location[Segment[Wanted[v]]]
               PROVE  ViewTypes' /\ ViewsRight'
    BY WantedAssumption, SegmentAssumption DEF LocationTypes
  <2> DEFINE pc == IF replicas = <<>> THEN "error" ELSE "try"
             r == [q EXCEPT !.pc = pc, !.replicas = replicas]
  <2>1. view' = [view EXCEPT ![v] = r] /\ q.pc = "idle"
    BY <1>2 DEF Locate
  <2>2. pc \in {"try", "error"} /\ (pc = "try" => 1 \in 1..Len(replicas))
    OBVIOUS
  <2> HIDE DEF pc
  <2>3. /\ r \in ViewHandlers /\ r.pc = pc /\ r.replicas = replicas /\ r.at = q.at
        /\ r.fd = q.fd /\ r.got = q.got
    BY <2>2 DEF ViewHandlers
  <2> HIDE DEF r
  <2>4. Right(r)
    BY <2>1, <2>2, <2>3 DEF Right
  <2> QED
    BY <1>1, <2>1, <2>3, <2>4, QuietRight
<1>3. CASE TryNext(v)
  <2> DEFINE pc == IF q.at < Len(q.replicas) THEN "try" ELSE "error"
             at == IF q.at < Len(q.replicas) THEN q.at + 1 ELSE q.at
             r == [q EXCEPT !.pc = pc, !.at = at]
  <2>1. view' = [view EXCEPT ![v] = r] /\ q.pc = "try"
    BY <1>3 DEF TryNext
  <2>2. q.at \in Nat /\ Len(q.replicas) \in Nat
    BY DEF ViewHandlers
  <2>3. /\ pc \in {"try", "error"} /\ at \in Nat
        /\ pc = "try" => at \in 1..Len(q.replicas)
    BY <2>2
  <2> HIDE DEF pc, at
  <2>4. /\ r \in ViewHandlers /\ r.pc = pc /\ r.replicas = q.replicas /\ r.at = at
        /\ r.fd = q.fd /\ r.got = q.got
    BY <2>3 DEF ViewHandlers
  <2> HIDE DEF r
  <2>5. Right(r)
    BY <2>1, <2>3, <2>4 DEF Right
  <2> QED
    BY <1>1, <2>1, <2>4, <2>5, QuietRight
<1>4. CASE CopyEnds(v) \/ CopyCut(v)
  <2>1. PICK pc \in {"ended", "cut"} :
          /\ view' = [view EXCEPT ![v].pc = pc] /\ q.pc = "copy"
          /\ pc = "ended" => Len(q.got) >= Len(data[q.node][q.fd])
    BY <1>4, Zenon DEF CopyEnds, CopyCut, Streamed
  <2> DEFINE r == [q EXCEPT !.pc = pc]
  <2>2. /\ r \in ViewHandlers /\ r.pc = pc /\ r.node = q.node
        /\ r.fd = q.fd /\ r.got = q.got
    BY DEF ViewHandlers
  <2>3. view' = [view EXCEPT ![v] = r]
    BY <2>1
  <2> HIDE DEF r
  <2>4. /\ q.fd \in Uploads /\ q.fd # NoFile /\ q.node \in Nodes /\ publisher[q.node][q.fd] # NoFile
        /\ q.got \in Seq(Uploads \cup {Hole}) /\ Len(q.got) \in Nat
    BY <2>1, NoFileAssumption DEF Right, ViewHandlers
  <2>5. ASSUME <<q.node, publisher[q.node][q.fd]>> \notin overlapped
        PROVE  Faithful(r, publisher[q.node][q.fd])
    <3>1. Faithful(q, publisher[q.node][q.fd])
      BY <2>4, <2>5 DEF Right
    <3>2. data[q.node][q.fd] = Whole(publisher[q.node][q.fd])
      BY <2>4, <2>5 DEF FileInv, PublishedExact
    <3>3. publisher[q.node][q.fd] \in Uploads
      BY <2>4 DEF FileInv, FileTypes
    <3>4. Len(data[q.node][q.fd]) = Length[publisher[q.node][q.fd]]
      BY <3>2, <3>3, LengthAssumption DEF Whole
    <3> QED
      BY <2>1, <2>2, <2>4, <3>1, <3>3, <3>4, LengthAssumption DEF Faithful
  <2>6. Right(r)
    BY <2>1, <2>2, <2>4, <2>5 DEF Right
  <2> QED
    BY <1>1, <2>2, <2>3, <2>6, QuietRight
<1> QED
  BY <1>2, <1>3, <1>4

LEMMA OpenMoves ==
  ASSUME ViewTypes, ViewsRight, FileInv, NEW v \in Viewers, Open(v)
  PROVE  ViewTypes' /\ ViewsRight'
<1> SUFFICES ASSUME NEW q \in ViewHandlers, view[v] = q, Right(q)
             PROVE  ViewTypes' /\ ViewsRight'
  BY DEF ViewTypes, ViewsRight
<1>1. q.pc = "try" /\ q.at \in 1..Len(q.replicas) /\ q.got = <<>>
  BY DEF Open, Right
<1>2. q.replicas[q.at] \in Nodes /\ Wanted[v] \in Objects
  BY <1>1, WantedAssumption DEF ViewHandlers
<1> SUFFICES ASSUME NEW n \in Nodes, n = q.replicas[q.at],
                    NEW file \in Uploads \cup {NoFile}, file = path[n][Wanted[v]]
             PROVE  ViewTypes' /\ ViewsRight'
  BY <1>2 DEF FileInv, FileTypes
<1> DEFINE r == [q EXCEPT !.pc = "copy", !.node = n, !.fd = file]
<1>3. view' = [view EXCEPT ![v] = r] /\ file # NoFile /\ UNCHANGED fsDisk
  BY DEF Open, fsVars
<1>4. /\ r \in ViewHandlers /\ r.pc = "copy" /\ r.node = n
      /\ r.fd = file /\ r.got = q.got
  BY DEF ViewHandlers
<1> HIDE DEF r
<1>5. publisher[n][file] # NoFile
  BY <1>2, <1>3 DEF FileInv, PathsPublished
<1>6. Faithful(r, publisher[n][file])
  <2>1. publisher[n][file] \in Uploads
    <3>1. publisher \in [Nodes -> [Uploads -> Uploads \cup {NoFile}]]
      BY DEF FileInv, FileTypes
    <3> QED
      BY <1>3, <1>5, <3>1
  <2>3. r.pc = "copy" /\ Len(r.got) = 0
    BY <1>1, <1>4
  <2>4. 0 <= Length[publisher[n][file]] /\ \A i \in 1..0 : FALSE
    <3>1. \A u \in Uploads : 0 <= Length[u]
      BY LengthAssumption
    <3>2. \A i \in 1..0 : FALSE
      OBVIOUS
    <3> QED
      BY <2>1, <3>1, <3>2, Zenon
  <2>5. Len(r.got) <= Length[publisher[n][file]] /\ \A i \in 1..Len(r.got) : FALSE
    BY <2>3, <2>4, Zenon
  <2>6. r.pc # "ended"
    BY <2>3
  <2> QED
    BY <2>5, <2>6, Zenon DEF Faithful
<1>7. Right(r)
  BY <1>3, <1>4, <1>5, <1>6 DEF Right
<1> QED
  BY <1>3, <1>4, <1>7, QuietRight

LEMMA NextIndex == \A k, l \in Nat : k + 1 <= l => k + 1 \in 1..l
OBVIOUS

LEMMA AppendChunk ==
  ASSUME NEW S, NEW s \in Seq(S), NEW e \in S
  PROVE  /\ Len(Append(s, e)) = Len(s) + 1
         /\ \A i \in 1..Len(s) : Append(s, e)[i] = s[i]
         /\ Append(s, e)[Len(s) + 1] = e
OBVIOUS

LEMMA ChunkMoves ==
  ASSUME ViewTypes, ViewsRight, FileInv, NEW v \in Viewers, CopyChunk(v)
  PROVE  ViewTypes' /\ ViewsRight'
<1> SUFFICES ASSUME NEW q \in ViewHandlers, view[v] = q, Right(q)
             PROVE  ViewTypes' /\ ViewsRight'
  BY DEF ViewTypes, ViewsRight
<1>1. q.pc = "copy" /\ Len(q.got) + 1 <= Len(data[q.node][q.fd]) /\ UNCHANGED fsDisk
  BY DEF CopyChunk, Streamed, fsVars
<1>2. /\ q.fd \in Uploads /\ q.fd # NoFile /\ q.node \in Nodes
      /\ publisher[q.node][q.fd] # NoFile
      /\ q.got \in Seq(Uploads \cup {Hole}) /\ Len(q.got) \in Nat
  BY <1>1, NoFileAssumption DEF Right, ViewHandlers
<1>3. /\ data[q.node][q.fd] \in Seq(Uploads \cup {Hole})
      /\ publisher[q.node][q.fd] \in Uploads
  BY <1>2 DEF FileInv, FileTypes
<1>4. data[q.node][q.fd][Len(q.got) + 1] \in Uploads \cup {Hole}
  BY <1>1, <1>2, <1>3
<1>5. \A chunk \in Uploads \cup {Hole} : Append(q.got, chunk) \in Seq(Uploads \cup {Hole})
  BY <1>2
<1> SUFFICES ASSUME NEW chunk \in Uploads \cup {Hole}, chunk = data[q.node][q.fd][Len(q.got) + 1],
                    NEW p \in Uploads, p = publisher[q.node][q.fd],
                    NEW got \in Seq(Uploads \cup {Hole}), got = Append(q.got, chunk)
             PROVE  ViewTypes' /\ ViewsRight'
  BY <1>3, <1>4, <1>5, Zenon
<1> DEFINE r == [q EXCEPT !.got = got]
<1>6. view' = [view EXCEPT ![v] = r]
  <2>1. view' = [view EXCEPT ![v].got = got]
    BY Zenon DEF CopyChunk, Streamed
  <2> QED
    BY <2>1
<1>7. /\ r \in ViewHandlers /\ r.pc = q.pc /\ r.node = q.node
      /\ r.fd = q.fd /\ r.got = got
  BY DEF ViewHandlers
<1> HIDE DEF r
<1>8. ASSUME <<q.node, p>> \notin overlapped
      PROVE  Faithful(r, p)
  <2>1. Faithful(q, p)
    BY <1>2, <1>8 DEF Right
  <2>2. data[q.node][q.fd] = Whole(p)
    BY <1>2, <1>8 DEF FileInv, PublishedExact
  <2>3. Len(q.got) + 1 <= Length[p] /\ chunk = p
    <3>1. /\ Length[p] \in Nat /\ Len(Whole(p)) = Length[p]
          /\ \A i \in 1..Length[p] : Whole(p)[i] = p
      BY WholeFile
    <3>2. Len(q.got) + 1 <= Length[p]
      BY <1>1, <2>2, <3>1
    <3>3. Len(q.got) \in Nat
      BY <1>2
    <3>4. Len(q.got) + 1 \in 1..Length[p]
      BY <3>1, <3>2, <3>3, NextIndex, Zenon
    <3>5. chunk = Whole(p)[Len(q.got) + 1]
      BY <2>2
    <3> QED
      BY <3>1, <3>2, <3>4, <3>5, Zenon
  <2>4. /\ Len(r.got) = Len(q.got) + 1
        /\ \A i \in 1..Len(q.got) : r.got[i] = q.got[i]
        /\ r.got[Len(q.got) + 1] = chunk
    <3>1. r.got = Append(q.got, chunk) /\ q.got \in Seq(Uploads \cup {Hole})
      BY <1>2, <1>7
    <3>2. /\ Len(Append(q.got, chunk)) = Len(q.got) + 1
          /\ \A i \in 1..Len(q.got) : Append(q.got, chunk)[i] = q.got[i]
          /\ Append(q.got, chunk)[Len(q.got) + 1] = chunk
      BY <3>1, AppendChunk
    <3> QED
      BY <3>1, <3>2, Zenon
  <2>5. \A i \in 1..Len(r.got) : r.got[i] = p
    BY <1>2, <2>1, <2>3, <2>4 DEF Faithful
  <2> QED
    BY <1>1, <1>7, <2>3, <2>4, <2>5 DEF Faithful
<1>9. Right(r)
  BY <1>1, <1>2, <1>7, <1>8 DEF Right
<1> QED
  BY <1>1, <1>6, <1>7, <1>9, QuietRight

\* The crash of a server cuts its streams; uploads leave playbacks alone.
LEMMA OtherMoves ==
  ASSUME ViewTypes, ViewsRight, FileTypes, FilesGrow,
         view' \in [Viewers -> ViewHandlers],
         \A v \in Viewers :
           \/ view'[v] = view[v]
           \/ view[v].pc = "copy" /\ view'[v] = [view[v] EXCEPT !.pc = "cut"]
  PROVE  ViewTypes' /\ ViewsRight'
<1> SUFFICES ASSUME NEW v \in Viewers, NEW q \in ViewHandlers, q = view[v],
                    NEW r \in ViewHandlers, r = view'[v]
             PROVE  Right(view[v])'
  BY DEF ViewTypes, ViewsRight
<1>1. Right(q)'
  BY RightStays DEF ViewsRight
<1>2. CASE r = q
  BY <1>1, <1>2 DEF Right
<1>3. CASE q.pc = "copy" /\ r = [q EXCEPT !.pc = "cut"]
  <2>1. /\ r.pc = "cut" /\ r.fd = q.fd /\ r.node = q.node /\ r.got = q.got
    BY <1>3 DEF ViewHandlers
  <2>2. Right(r)'
    BY <1>1, <1>3, <2>1 DEF Right, Faithful
  <2> QED
    BY <2>2 DEF Right
<1> QED
  BY <1>2, <1>3

LEMMA ViewsStep ==
  ASSUME FileInv, UploadTypes, LocationTypes, ViewTypes, ViewsRight, [Next]_vars
  PROVE  ViewTypes' /\ ViewsRight'
<1>1. ASSUME FilesGrow, UNCHANGED view PROVE ViewTypes' /\ ViewsRight'
  BY <1>1, OtherMoves DEF ViewTypes, FileInv
<1>2. CASE UNCHANGED vars
  BY <1>1, <1>2, NothingGrows DEF vars, fsVars
<1>3. ASSUME NEW u \in Uploads, Register(u) \/ RegisterFails(u) \/ UploadStep(u)
      PROVE  UNCHANGED view
  BY <1>3, UploadStepGoes DEF Register, RegisterFails
<1>4. ASSUME NEW v \in Viewers, Locate(v) \/ ViewStep(v) PROVE ViewTypes' /\ ViewsRight'
  BY <1>4, LookupMoves, OpenMoves, ChunkMoves DEF ViewStep
<1>5. ASSUME NEW n \in Nodes, Crash(n) PROVE ViewTypes' /\ ViewsRight'
  <2>1. FilesGrow
    BY <1>5, CrashGrows DEF Crash
  <2>2. view' \in [Viewers -> ViewHandlers]
    <3>1. \A v \in Viewers : [view[v] EXCEPT !.pc = "cut"] \in ViewHandlers
      BY DEF ViewTypes, ViewHandlers
    <3> QED
      BY <1>5, <3>1 DEF Crash, ViewTypes
  <2>3. \A v \in Viewers :
          \/ view'[v] = view[v]
          \/ view[v].pc = "copy" /\ view'[v] = [view[v] EXCEPT !.pc = "cut"]
    BY <1>5 DEF Crash
  <2> QED
    BY <2>1, <2>2, <2>3, OtherMoves DEF FileInv
<1>6. CASE Next
  <2>1. FilesGrow
    BY <1>6, FilesStep
  <2> QED
    BY <1>1, <1>3, <1>4, <1>5, <1>6, <2>1 DEF Next
<1> QED
  BY <1>2, <1>6

LEMMA LocationStep ==
  ASSUME UploadTypes, LocationTypes, [Next]_vars
  PROVE  LocationTypes'
<1>1. CASE UNCHANGED vars
  BY <1>1 DEF vars, LocationTypes
<1>2. CASE Next
  <2>1. CASE location' = location
    BY <2>1 DEF LocationTypes
  <2>2. CASE \E u \in Uploads : location' = Located(u)
    BY <2>2, LocatedFacts
  <2> QED
    BY <1>2, <2>1, <2>2, UploadsStep
<1> QED
  BY <1>1, <1>2

\* A sequence of the right elements is a prefix of the whole upload.
LEMMA FaithfulPrefix ==
  ASSUME NEW r \in ViewHandlers, NEW u \in Uploads, Faithful(r, u)
  PROVE  IsPrefix(r.got, Whole(u)) /\ (r.pc = "ended" => r.got = Whole(u))
<1> SUFFICES ASSUME NEW got \in Seq(Uploads \cup {Hole}), got = r.got
             PROVE  IsPrefix(got, Whole(u)) /\ (r.pc = "ended" => got = Whole(u))
  BY DEF ViewHandlers
<1>1. /\ Length[u] \in Nat /\ Len(got) \in Nat /\ Len(got) <= Length[u]
      /\ \A i \in 1..Len(got) : got[i] = u
      /\ r.pc = "ended" => Len(got) = Length[u]
  BY LengthAssumption DEF Faithful
<1>2. Whole(u) \in Seq(Uploads) /\ Len(Whole(u)) = Length[u] /\ \A i \in 1..Length[u] : Whole(u)[i] = u
  BY WholeFile
<1>3. got = [i \in 1..Len(got) |-> u]
  BY <1>1
<1>4. SubSeq(got, 1, Len(got)) = [i \in 1..Len(got) |-> u]
  BY <1>1, <1>3
<1>5. SubSeq(Whole(u), 1, Len(got)) = [i \in 1..Len(got) |-> u]
  BY <1>1, <1>2
<1>6. IsPrefix(got, Whole(u))
  BY <1>1, <1>2, <1>4, <1>5 DEF IsPrefix
<1>7. r.pc = "ended" => got = Whole(u)
  BY <1>1, <1>3 DEF Whole
<1> QED
  BY <1>6, <1>7

\* Whatever uploads, crashes and failures go on meanwhile, a viewer gets the
\* chunks of one upload from its start, and all of them when the stream ends by
\* itself, unless the put that published the file ran beside another one
\* (fs.go:28-48 writes aside and renames; web/main.go:144-160 streams).
THEOREM ViewersGetWholeUploads == Spec => []ViewsWhole
<1> DEFINE Inv == FileInv /\ UploadTypes /\ LocationTypes /\ ViewTypes /\ ViewsRight
<1>1. Init => Inv
  <2> SUFFICES ASSUME Init PROVE Inv
    OBVIOUS
  <2>1. view = [v \in Viewers |-> [pc |-> "idle", replicas |-> <<>>, at |-> 1,
                                   node |-> "none", fd |-> NoFile, got |-> <<>>]]
    BY DEF Init
  <2>2. ViewTypes
    BY <2>1 DEF ViewTypes, ViewHandlers
  <2>3. ViewsRight
    BY <2>1 DEF ViewsRight, Right
  <2> QED
    BY <2>2, <2>3, StartInv
<1>2. Inv /\ [Next]_vars => Inv'
  <2> SUFFICES ASSUME Inv, [Next]_vars PROVE Inv'
    OBVIOUS
  <2>1. FileInv' /\ UploadTypes'
    <3>1. CASE Next
      BY <3>1, FilesStep, UploadsStep
    <3>2. CASE UNCHANGED vars
      BY <3>2, NothingGrows DEF vars, fsVars, UploadTypes, Targets
    <3> QED
      BY <3>1, <3>2
  <2> QED
    BY <2>1, LocationStep, ViewsStep
<1>3. Inv => ViewsWhole
  <2> SUFFICES ASSUME Inv, NEW v \in Viewers, view[v].fd # NoFile,
                      <<view[v].node, publisher[view[v].node][view[v].fd]>> \notin overlapped
               PROVE  LET u == publisher[view[v].node][view[v].fd]
                      IN  /\ IsPrefix(view[v].got, Whole(u))
                          /\ view[v].pc = "ended" => view[v].got = Whole(u)
    BY DEF ViewsWhole
  <2>1. view[v] \in ViewHandlers /\ Right(view[v])
    BY DEF ViewTypes, ViewsRight
  <2>2. view[v].fd \in Uploads /\ view[v].node \in Nodes
    BY <2>1 DEF Right, ViewHandlers
  <2>3. publisher[view[v].node][view[v].fd] \in Uploads
    BY <2>1, <2>2 DEF FileInv, FileTypes, Right
  <2>4. Faithful(view[v], publisher[view[v].node][view[v].fd])
    BY <2>1 DEF Right
  <2> QED
    BY <2>1, <2>3, <2>4, FaithfulPrefix
<1> QED
  BY <1>1, <1>2, <1>3, PTL DEF Spec
=============================================================================
