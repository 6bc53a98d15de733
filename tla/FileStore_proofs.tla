-------------------------- MODULE FileStore_proofs --------------------------
(***************************************************************************)
(* What the file store keeps for any nodes, objects and uploads: a file    *)
(* that was published by a put which ran alone is that put's upload, and   *)
(* nobody writes to it any more.                                           *)
(***************************************************************************)
EXTENDS FileStore, TLAPS

Puts ==
  [pc : {"idle", "create", "write", "remove", "done"}, fd : Uploads \cup {NoFile},
   offset : Nat, answer : {"none", "created", "empty", "failed"}]

FileTypes ==
  /\ tmp \in [Nodes -> [Objects -> Uploads \cup {NoFile}]]
  /\ path \in [Nodes -> [Objects -> Uploads \cup {NoFile}]]
  /\ data \in [Nodes -> [Uploads -> Seq(Uploads \cup {Hole})]]
  /\ put \in [Nodes -> [Uploads -> Puts]]
  /\ publisher \in [Nodes -> [Uploads -> Uploads \cup {NoFile}]]
  /\ overlapped \subseteq Nodes \X Uploads

\* A file is there from the os.Create of the upload it is named by.
Born(n, f) == f \in Uploads /\ put[n][f].pc \notin {"idle", "create"}

\* Nothing is written before.
StartsAtZero ==
  \A n \in Nodes, u \in Uploads :
    put[n][u].pc \in {"idle", "create"} => put[n][u].offset = 0

\* What is under .tmp was not published.
TmpUnpublished ==
  \A n \in Nodes, o \in Objects :
    tmp[n][o] # NoFile =>
      /\ Born(n, tmp[n][o])
      /\ Object[tmp[n][o]] = o
      /\ publisher[n][tmp[n][o]] = NoFile

HandlesOpen ==
  \A n \in Nodes, u \in Uploads :
    put[n][u].pc = "write" =>
      /\ Born(n, put[n][u].fd)
      /\ Object[put[n][u].fd] = Object[u]
      /\ put[n][u].offset <= Length[u]

PathsPublished ==
  \A n \in Nodes, o \in Objects :
    path[n][o] # NoFile => Object[path[n][o]] = o /\ publisher[n][path[n][o]] # NoFile

OverlapsMarked ==
  \A n \in Nodes, u, w \in Uploads :
    u # w /\ Object[u] = Object[w] /\ Running(n, u) /\ Running(n, w) => <<n, u>> \in overlapped

\* A put that runs alone has the file under .tmp for itself.
AloneExact ==
  \A n \in Nodes, u \in Uploads :
    put[n][u].pc = "write" /\ <<n, u>> \notin overlapped =>
      /\ tmp[n][Object[u]] = put[n][u].fd
      /\ data[n][put[n][u].fd] = [i \in 1..put[n][u].offset |-> u]

PublishedExact ==
  \A n \in Nodes, f \in Uploads :
    publisher[n][f] # NoFile =>
      /\ Born(n, f)
      /\ put[n][publisher[n][f]].pc = "done"
      /\ <<n, publisher[n][f]>> \notin overlapped =>
           /\ data[n][f] = Whole(publisher[n][f])
           /\ \A w \in Uploads : put[n][w].pc = "write" => put[n][w].fd # f

CreatedIsThere ==
  \A n \in Nodes, u \in Uploads :
    put[n][u].answer = "created" => path[n][Object[u]] # NoFile

FileInv ==
  /\ FileTypes /\ StartsAtZero /\ TmpUnpublished /\ HandlesOpen /\ PathsPublished
  /\ OverlapsMarked /\ AloneExact /\ PublishedExact /\ CreatedIsThere

LEMMA FSInitInv == FSInit => FileInv
<1> SUFFICES ASSUME FSInit PROVE FileInv
  OBVIOUS
<1>1. FileTypes
  BY DEF FSInit, FileTypes, NoPut, Puts
<1>2. TmpUnpublished /\ PathsPublished /\ StartsAtZero
  BY ObjectAssumption DEF FSInit, TmpUnpublished, PathsPublished, StartsAtZero, NoPut
<1>3. HandlesOpen /\ OverlapsMarked /\ AloneExact /\ PublishedExact /\ CreatedIsThere
  BY ObjectAssumption DEF FSInit, NoPut, HandlesOpen, OverlapsMarked, AloneExact, PublishedExact,
     CreatedIsThere, Running
<1> QED
  BY <1>1, <1>2, <1>3 DEF FileInv

\* A step on one put.
LEMMA OnePut ==
  ASSUME FileTypes, NEW n \in Nodes, NEW u \in Uploads, NEW p \in Puts,
         put' = [put EXCEPT ![n][u] = p]
  PROVE  /\ put' \in [Nodes -> [Uploads -> Puts]]
         /\ put'[n][u] = p
         /\ \A m \in Nodes, w \in Uploads : (m # n \/ w # u) => put'[m][w] = put[m][w]
BY DEF FileTypes

LEMMA PublishedFile ==
  ASSUME PublishedExact, NEW n \in Nodes, NEW f \in Uploads, publisher[n][f] # NoFile
  PROVE  Born(n, f) /\ put[n][publisher[n][f]].pc = "done"
BY Zenon DEF PublishedExact

\* Steps that publish nothing and write to no published file.
LEMMA PublishedStays ==
  ASSUME FileTypes, PublishedExact,
         \A m \in Nodes, f \in Uploads : Born(m, f) => Born(m, f)',
         \A m \in Nodes, w \in Uploads :
           /\ put[m][w].pc = "done" => put'[m][w].pc = "done"
           /\ put'[m][w].pc = "write" =>
                \/ put[m][w].pc = "write" /\ put'[m][w].fd = put[m][w].fd
                \/ publisher[m][put'[m][w].fd] = NoFile,
         \A m \in Nodes, f \in Uploads :
           publisher[m][f] # NoFile =>
             \/ data'[m][f] = data[m][f]
             \/ \E w \in Uploads : put[m][w].pc = "write" /\ put[m][w].fd = f,
         UNCHANGED publisher, overlapped \subseteq overlapped'
  PROVE  PublishedExact'
<1> SUFFICES ASSUME NEW m \in Nodes, NEW f \in Uploads, publisher[m][f] # NoFile
             PROVE  /\ Born(m, f)'
                    /\ put'[m][publisher[m][f]].pc = "done"
                    /\ <<m, publisher[m][f]>> \notin overlapped' =>
                         /\ data'[m][f] = Whole(publisher[m][f])
                         /\ \A w \in Uploads : put'[m][w].pc = "write" => put'[m][w].fd # f
  BY DEF PublishedExact
<1>1. publisher[m][f] \in Uploads
  BY DEF FileTypes
<1>2. Born(m, f) /\ put[m][publisher[m][f]].pc = "done"
  BY PublishedFile
<1>3. ASSUME <<m, publisher[m][f]>> \notin overlapped'
      PROVE  /\ data'[m][f] = Whole(publisher[m][f])
             /\ \A w \in Uploads : put'[m][w].pc = "write" => put'[m][w].fd # f
  <2>1. <<m, publisher[m][f]>> \notin overlapped
    BY <1>3
  <2>2. /\ data[m][f] = Whole(publisher[m][f])
        /\ \A w \in Uploads : put[m][w].pc = "write" => put[m][w].fd # f
    BY <2>1 DEF PublishedExact
  <2>3. data'[m][f] = data[m][f]
    BY <2>2
  <2>4. ASSUME NEW w \in Uploads, put'[m][w].pc = "write", put'[m][w].fd = f
        PROVE  FALSE
    BY <2>2, <2>4
  <2> QED
    BY <2>2, <2>3, <2>4
<1> QED
  BY <1>1, <1>2, <1>3

LEMMA ReceiveInv ==
  ASSUME FileInv, NEW n \in Nodes, NEW u \in Uploads, Receive(n, u)
  PROVE  FileInv'
<1> DEFINE p == [put[n][u] EXCEPT !.pc = "create"]
<1>1. /\ put[n][u].pc = "idle" /\ p \in Puts /\ p.pc = "create"
      /\ p.answer = put[n][u].answer /\ p.offset = put[n][u].offset
  <2>1. put[n][u] \in Puts
    BY DEF FileInv, FileTypes
  <2> QED
    BY <2>1 DEF Receive, Puts
<1>2. put' = [put EXCEPT ![n][u] = p]
  BY DEF Receive
<1>3. UNCHANGED <<tmp, path, data, publisher>>
  BY DEF Receive
<1> HIDE DEF p
<1>4. /\ put' \in [Nodes -> [Uploads -> Puts]]
      /\ put'[n][u] = p
      /\ \A m \in Nodes, w \in Uploads : (m # n \/ w # u) => put'[m][w] = put[m][w]
  BY <1>1, <1>2 DEF FileInv, FileTypes
<1>5. overlapped \subseteq overlapped' /\ overlapped' \subseteq Nodes \X Uploads
  BY DEF Receive, FileInv, FileTypes
<1>6. FileTypes'
  BY <1>3, <1>4, <1>5 DEF FileInv, FileTypes
<1>7. \A m \in Nodes, f \in Uploads : Born(m, f) => Born(m, f)'
  BY <1>1, <1>4 DEF Born
<1>8. TmpUnpublished'
  BY <1>3, <1>7 DEF TmpUnpublished, FileInv, Born
<1>9. PathsPublished'
  BY <1>3 DEF PathsPublished, FileInv
<1>10. HandlesOpen'
  BY <1>1, <1>4, <1>7 DEF HandlesOpen, FileInv, Born
<1>11. AloneExact'
  BY <1>1, <1>3, <1>4, <1>5 DEF AloneExact, FileInv
<1>12. PublishedExact'
  <2>1. FileTypes /\ PublishedExact
    BY DEF FileInv
  <2>2. \A m \in Nodes, w \in Uploads :
          /\ put[m][w].pc = "done" => put'[m][w].pc = "done"
          /\ put'[m][w].pc = "write" => put[m][w].pc = "write" /\ put'[m][w].fd = put[m][w].fd
    BY <1>1, <1>4
  <2> QED
    BY <1>3, <1>5, <1>7, <2>1, <2>2, PublishedStays
<1>13. CreatedIsThere' /\ StartsAtZero'
  BY <1>1, <1>3, <1>4 DEF CreatedIsThere, StartsAtZero, FileInv
<1>14. OverlapsMarked'
  <2> SUFFICES ASSUME NEW m \in Nodes, NEW v \in Uploads, NEW w \in Uploads,
                      v # w, Object[v] = Object[w], Running(m, v)', Running(m, w)'
               PROVE  <<m, v>> \in overlapped'
    BY DEF OverlapsMarked
  <2>1. CASE m = n /\ (v = u \/ w = u)
    <3> DEFINE others == {x \in Uploads : Object[x] = Object[u] /\ Running(n, x)}
    <3>1. v \in others \/ w \in others
      BY <1>4, <2>1 DEF Running
    <3>2. v \in others \cup {u}
      BY <1>4, <2>1 DEF Running
    <3>3. overlapped' = overlapped \cup {<<n, x>> : x \in others \cup {u}}
      BY <3>1 DEF Receive
    <3> QED
      BY <2>1, <3>2, <3>3
  <2>2. CASE ~(m = n /\ (v = u \/ w = u))
    BY <1>4, <1>5, <2>2 DEF OverlapsMarked, FileInv, Running
  <2> QED
    BY <2>1, <2>2
<1> QED
  BY <1>6, <1>8, <1>9, <1>10, <1>11, <1>12, <1>13, <1>14 DEF FileInv

\* Steps that leave puts without a handle and publish nothing: failures, and
\* the crash of a server.
LEMMA EndedInv ==
  ASSUME FileInv,
         put' \in [Nodes -> [Uploads -> Puts]],
         tmp' \in [Nodes -> [Objects -> Uploads \cup {NoFile}]],
         \A m \in Nodes, w \in Uploads :
           \/ put'[m][w] = put[m][w]
           \/ /\ Running(m, w)
              /\ put'[m][w].pc \in {"remove", "done"}
              /\ put'[m][w].answer = "created" => put[m][w].answer = "created",
         \A m \in Nodes, o \in Objects :
           \/ tmp'[m][o] = tmp[m][o]
           \/ /\ tmp'[m][o] = NoFile
              /\ \E w \in Uploads : Object[w] = o /\ Running(m, w) /\ put'[m][w].pc = "done",
         UNCHANGED <<path, data, publisher, overlapped>>
  PROVE  FileInv'
<1>1. FileTypes'
  BY DEF FileInv, FileTypes
<1>2. \A m \in Nodes, f \in Uploads : Born(m, f) => Born(m, f)'
  BY DEF Born
<1>3. TmpUnpublished'
  BY <1>2 DEF TmpUnpublished, FileInv, FileTypes
<1>4. PathsPublished'
  BY DEF PathsPublished, FileInv
<1>5. HandlesOpen'
  <2> SUFFICES ASSUME NEW m \in Nodes, NEW w \in Uploads, put'[m][w].pc = "write"
               PROVE  /\ Born(m, put[m][w].fd)'
                      /\ Object[put'[m][w].fd] = Object[w]
                      /\ put'[m][w].offset <= Length[w]
    BY DEF HandlesOpen
  <2>1. put'[m][w] = put[m][w]
    OBVIOUS
  <2>2. Born(m, put[m][w].fd) /\ put[m][w].fd \in Uploads
    BY <2>1 DEF FileInv, HandlesOpen, Born
  <2> QED
    BY <1>2, <2>1, <2>2 DEF FileInv, HandlesOpen
<1>6. AloneExact'
  <2> SUFFICES ASSUME NEW m \in Nodes, NEW v \in Uploads,
                      put'[m][v].pc = "write", <<m, v>> \notin overlapped'
               PROVE  /\ tmp'[m][Object[v]] = put'[m][v].fd
                      /\ data'[m][put'[m][v].fd] = [i \in 1..put'[m][v].offset |-> v]
    BY DEF AloneExact
  <2>1. put'[m][v] = put[m][v]
    OBVIOUS
  <2>2. tmp'[m][Object[v]] = tmp[m][Object[v]]
    <3>1. ASSUME NEW w \in Uploads, Object[w] = Object[v], Running(m, w), put'[m][w].pc = "done"
          PROVE  FALSE
      <4>1. Running(m, v) /\ w # v
        BY <2>1, <3>1 DEF Running
      <4> QED
        BY <3>1, <4>1 DEF FileInv, OverlapsMarked
    <3>2. Object[v] \in Objects
      BY ObjectAssumption
    <3> QED
      BY <3>1, <3>2
  <2> QED
    BY <2>1, <2>2 DEF FileInv, AloneExact
<1>7. PublishedExact'
  <2>1. FileTypes /\ PublishedExact
    BY DEF FileInv
  <2>2. \A m \in Nodes, w \in Uploads :
          /\ put[m][w].pc = "done" => put'[m][w].pc = "done"
          /\ put'[m][w].pc = "write" => put[m][w].pc = "write" /\ put'[m][w].fd = put[m][w].fd
    BY DEF Running
  <2> QED
    BY <1>2, <2>1, <2>2, PublishedStays
<1>8. CreatedIsThere' /\ StartsAtZero'
  BY DEF CreatedIsThere, StartsAtZero, FileInv
<1>9. OverlapsMarked'
  <2>1. \A m \in Nodes, w \in Uploads : Running(m, w)' => Running(m, w)
    BY DEF Running
  <2> QED
    BY <2>1 DEF OverlapsMarked, FileInv
<1> QED
  BY <1>1, <1>3, <1>4, <1>5, <1>6, <1>7, <1>8, <1>9 DEF FileInv

LEMMA EndedPut ==
  ASSUME NEW answer \in {"none", "created", "empty", "failed"}
  PROVE  /\ Ended(answer) \in Puts
         /\ Ended(answer).pc = "done"
         /\ Ended(answer).answer = answer
BY DEF Ended, NoPut, Puts

\* One put ends with an answer, and .tmp may go.
LEMMA OneEnds ==
  ASSUME FileInv, NEW n \in Nodes, NEW u \in Uploads, Running(n, u),
         NEW answer \in {"empty", "failed"}, Answered(n, u, answer),
         tmp' = tmp \/ tmp' = [tmp EXCEPT ![n][Object[u]] = NoFile],
         UNCHANGED <<path, data, publisher, overlapped>>
  PROVE  FileInv'
<1>1. /\ put' \in [Nodes -> [Uploads -> Puts]]
      /\ put'[n][u] = Ended(answer)
      /\ \A m \in Nodes, w \in Uploads : (m # n \/ w # u) => put'[m][w] = put[m][w]
  <2> SUFFICES ASSUME NEW p \in Puts, p = Ended(answer), put' = [put EXCEPT ![n][u] = p]
               PROVE  /\ put' \in [Nodes -> [Uploads -> Puts]]
                      /\ put'[n][u] = p
                      /\ \A m \in Nodes, w \in Uploads :
                           (m # n \/ w # u) => put'[m][w] = put[m][w]
    BY EndedPut DEF Answered
  <2> QED
    BY DEF FileInv, FileTypes
<1>2. put'[n][u].pc = "done" /\ put'[n][u].answer # "created"
  BY <1>1, EndedPut
<1>3. \A m \in Nodes, w \in Uploads :
        \/ put'[m][w] = put[m][w]
        \/ /\ Running(m, w)
           /\ put'[m][w].pc \in {"remove", "done"}
           /\ put'[m][w].answer = "created" => put[m][w].answer = "created"
  BY <1>1, <1>2
<1>4. /\ tmp' \in [Nodes -> [Objects -> Uploads \cup {NoFile}]]
      /\ \A m \in Nodes, o \in Objects :
           tmp'[m][o] = tmp[m][o] \/ (tmp'[m][o] = NoFile /\ m = n /\ o = Object[u])
  <2>1. tmp \in [Nodes -> [Objects -> Uploads \cup {NoFile}]] /\ Object[u] \in Objects
    BY ObjectAssumption DEF FileInv, FileTypes
  <2>2. CASE tmp' = tmp
    BY <2>1, <2>2
  <2>3. CASE tmp' = [tmp EXCEPT ![n][Object[u]] = NoFile]
    BY <2>1, <2>3
  <2> QED
    BY <2>2, <2>3
<1>5. \A m \in Nodes, o \in Objects :
        \/ tmp'[m][o] = tmp[m][o]
        \/ /\ tmp'[m][o] = NoFile
           /\ \E w \in Uploads : Object[w] = o /\ Running(m, w) /\ put'[m][w].pc = "done"
  BY <1>2, <1>4
<1> QED
  BY <1>1, <1>3, <1>4, <1>5, EndedInv

\* Sync, Close or Rename has failed.
LEMMA OneFails ==
  ASSUME FileInv, NEW n \in Nodes, NEW u \in Uploads, put[n][u].pc = "write",
         NEW p \in Puts, p.pc = "remove", p.answer = put[n][u].answer,
         put' = [put EXCEPT ![n][u] = p],
         UNCHANGED <<tmp, path, data, publisher, overlapped>>
  PROVE  FileInv'
<1>2. FileTypes
  BY DEF FileInv
<1>3. /\ put' \in [Nodes -> [Uploads -> Puts]]
      /\ put'[n][u] = p
      /\ \A m \in Nodes, w \in Uploads : (m # n \/ w # u) => put'[m][w] = put[m][w]
  BY <1>2 DEF FileTypes
<1>4. \A m \in Nodes, w \in Uploads :
        \/ put'[m][w] = put[m][w]
        \/ /\ Running(m, w)
           /\ put'[m][w].pc \in {"remove", "done"}
           /\ put'[m][w].answer = "created" => put[m][w].answer = "created"
  BY <1>3 DEF Running
<1>5. tmp' \in [Nodes -> [Objects -> Uploads \cup {NoFile}]]
  BY DEF FileInv, FileTypes
<1> QED
  BY <1>3, <1>4, <1>5, EndedInv

LEMMA CrashInv ==
  ASSUME FileInv, NEW n \in Nodes, CrashPuts(n)
  PROVE  FileInv'
<1>1. put' \in [Nodes -> [Uploads -> Puts]]
  BY EndedPut DEF FileInv, FileTypes, CrashPuts
<1>2. \A m \in Nodes, w \in Uploads :
        put'[m][w] = put[m][w] \/ (Running(m, w) /\ put'[m][w] = Ended("failed"))
  BY DEF FileInv, FileTypes, CrashPuts
<1>3. \A m \in Nodes, w \in Uploads :
        \/ put'[m][w] = put[m][w]
        \/ /\ Running(m, w)
           /\ put'[m][w].pc \in {"remove", "done"}
           /\ put'[m][w].answer = "created" => put[m][w].answer = "created"
  BY <1>2, EndedPut
<1>4. UNCHANGED <<tmp, path, data, publisher, overlapped>>
  BY DEF CrashPuts
<1>5. tmp' \in [Nodes -> [Objects -> Uploads \cup {NoFile}]]
  BY <1>4 DEF FileInv, FileTypes
<1> QED
  BY <1>1, <1>3, <1>4, <1>5, EndedInv

\* os.Create gives the put this file.
LEMMA CreateFile ==
  ASSUME FileInv, NEW n \in Nodes, NEW u \in Uploads, Create(n, u), NEW file,
         file = IF tmp[n][Object[u]] = NoFile THEN u ELSE tmp[n][Object[u]]
  PROVE  FileInv'
<1> DEFINE p == [put[n][u] EXCEPT !.pc = "write", !.fd = file]
<1>1. file \in Uploads /\ Object[u] \in Objects
  BY ObjectAssumption DEF FileInv, FileTypes
<1>2. put[n][u] \in Puts /\ put[n][u].pc = "create"
  BY DEF FileInv, FileTypes, Create
<1>3. /\ p \in Puts /\ p.pc = "write" /\ p.fd = file
      /\ p.offset = put[n][u].offset /\ p.answer = put[n][u].answer
  BY <1>1, <1>2 DEF Puts
<1>4. put' = [put EXCEPT ![n][u] = p]
  BY DEF Create
<1>5. UNCHANGED <<path, publisher, overlapped>>
  BY DEF Create
<1>6. /\ tmp' \in [Nodes -> [Objects -> Uploads \cup {NoFile}]]
      /\ tmp'[n][Object[u]] = file
      /\ \A m \in Nodes, o \in Objects : (m # n \/ o # Object[u]) => tmp'[m][o] = tmp[m][o]
  BY <1>1 DEF Create, FileInv, FileTypes
<1>7. /\ data' \in [Nodes -> [Uploads -> Seq(Uploads \cup {Hole})]]
      /\ data'[n][file] = <<>>
      /\ \A m \in Nodes, f \in Uploads : (m # n \/ f # file) => data'[m][f] = data[m][f]
  <2>1. data' = [data EXCEPT ![n][file] = <<>>]
    BY DEF Create
  <2> QED
    BY <1>1, <2>1 DEF FileInv, FileTypes
<1>8. publisher[n][file] = NoFile /\ Object[file] = Object[u]
  <2>1. CASE tmp[n][Object[u]] = NoFile
    <3>1. publisher[n][u] = NoFile
      BY <1>2, PublishedFile DEF FileInv, Born
    <3> QED
      BY <2>1, <3>1
  <2>2. CASE tmp[n][Object[u]] # NoFile
    BY <1>1, <2>2 DEF FileInv, TmpUnpublished
  <2> QED
    BY <2>1, <2>2
<1>9. file = u \/ Born(n, file)
  BY <1>1 DEF FileInv, TmpUnpublished
<1> HIDE DEF p
<1>10. /\ put' \in [Nodes -> [Uploads -> Puts]]
       /\ put'[n][u] = p
       /\ \A m \in Nodes, w \in Uploads : (m # n \/ w # u) => put'[m][w] = put[m][w]
  BY <1>3, <1>4 DEF FileInv, FileTypes
<1>11. \A m \in Nodes, f \in Uploads : Born(m, f) => Born(m, f)'
  <2> SUFFICES ASSUME NEW m \in Nodes, NEW f \in Uploads, Born(m, f) PROVE Born(m, f)'
    OBVIOUS
  <2>1. m # n \/ f # u
    BY <1>2 DEF Born
  <2> QED
    BY <1>10, <2>1 DEF Born
<1>12. Born(n, file)'
  BY <1>1, <1>3, <1>9, <1>10, <1>11 DEF Born
<1>13. FileTypes'
  BY <1>5, <1>6, <1>7, <1>10 DEF FileInv, FileTypes
<1>14. TmpUnpublished'
  <2> SUFFICES ASSUME NEW m \in Nodes, NEW o \in Objects, tmp'[m][o] # NoFile
               PROVE  /\ Born(m, tmp[m][o])'
                      /\ Object[tmp'[m][o]] = o
                      /\ publisher'[m][tmp'[m][o]] = NoFile
    BY DEF TmpUnpublished
  <2>1. CASE m = n /\ o = Object[u]
    <3>1. Born(n, tmp[n][o])'
      BY <1>6, <1>12, <2>1 DEF Born
    <3> QED
      BY <1>5, <1>6, <1>8, <2>1, <3>1
  <2>2. CASE ~(m = n /\ o = Object[u])
    <3>1. tmp'[m][o] = tmp[m][o]
      BY <1>6, <2>2
    <3>2. Born(m, tmp[m][o]) /\ Object[tmp[m][o]] = o /\ publisher[m][tmp[m][o]] = NoFile
      BY <3>1 DEF FileInv, TmpUnpublished
    <3>3. Born(m, tmp[m][o])'
      BY <1>11, <3>1, <3>2 DEF Born
    <3> QED
      BY <1>5, <3>1, <3>2, <3>3
  <2> QED
    BY <2>1, <2>2
<1>15. HandlesOpen'
  <2> SUFFICES ASSUME NEW m \in Nodes, NEW w \in Uploads, put'[m][w].pc = "write"
               PROVE  /\ Born(m, put[m][w].fd)'
                      /\ Object[put'[m][w].fd] = Object[w]
                      /\ put'[m][w].offset <= Length[w]
    BY DEF HandlesOpen
  <2>1. CASE m = n /\ w = u
    <3>1. Born(n, put[n][u].fd)'
      BY <1>3, <1>10, <1>12 DEF Born
    <3> QED
      BY <1>2, <1>3, <1>8, <1>10, <2>1, <3>1, LengthAssumption DEF FileInv, StartsAtZero
  <2>2. CASE ~(m = n /\ w = u)
    <3>1. put'[m][w] = put[m][w]
      BY <1>10, <2>2
    <3>2. Born(m, put[m][w].fd) /\ put[m][w].fd \in Uploads
      BY <3>1 DEF FileInv, HandlesOpen, Born
    <3> QED
      BY <1>11, <3>1, <3>2 DEF FileInv, HandlesOpen, Born
  <2> QED
    BY <2>1, <2>2
<1>16. AloneExact'
  <2> SUFFICES ASSUME NEW m \in Nodes, NEW v \in Uploads,
                      put'[m][v].pc = "write", <<m, v>> \notin overlapped'
               PROVE  /\ tmp'[m][Object[v]] = put'[m][v].fd
                      /\ data'[m][put'[m][v].fd] = [i \in 1..put'[m][v].offset |-> v]
    BY DEF AloneExact
  <2>1. CASE m = n /\ v = u
    <3>1. put'[n][u].offset = 0
      BY <1>2, <1>3, <1>10 DEF FileInv, StartsAtZero
    <3>2. data'[n][file] = [i \in 1..0 |-> u]
      BY <1>7
    <3> QED
      BY <1>3, <1>6, <1>10, <2>1, <3>1, <3>2
  <2>2. CASE ~(m = n /\ v = u)
    <3>1. put'[m][v] = put[m][v] /\ <<m, v>> \notin overlapped
      BY <1>5, <1>10, <2>2
    <3>2. ~(m = n /\ Object[v] = Object[u])
      <4>1. m = n /\ Object[v] = Object[u] => Running(n, v) /\ Running(n, u) /\ v # u
        BY <1>2, <2>2, <3>1 DEF Running
      <4> QED
        BY <3>1, <4>1 DEF FileInv, OverlapsMarked
    <3>3. put[m][v].fd \in Uploads /\ Object[put[m][v].fd] = Object[v]
      BY <3>1 DEF FileInv, HandlesOpen, Born
    <3>4. data'[m][put[m][v].fd] = data[m][put[m][v].fd]
      BY <1>7, <1>8, <3>2, <3>3
    <3>5. tmp'[m][Object[v]] = tmp[m][Object[v]]
      BY <1>6, <3>2, ObjectAssumption
    <3> QED
      BY <3>1, <3>4, <3>5 DEF FileInv, AloneExact
  <2> QED
    BY <2>1, <2>2
<1>17. PublishedExact'
  <2>1. FileTypes /\ PublishedExact
    BY DEF FileInv
  <2>2. \A m \in Nodes, w \in Uploads :
          /\ put[m][w].pc = "done" => put'[m][w].pc = "done"
          /\ put'[m][w].pc = "write" =>
               \/ put[m][w].pc = "write" /\ put'[m][w].fd = put[m][w].fd
               \/ publisher[m][put'[m][w].fd] = NoFile
    BY <1>2, <1>3, <1>8, <1>10
  <2>3. \A m \in Nodes, f \in Uploads : publisher[m][f] # NoFile => data'[m][f] = data[m][f]
    BY <1>7, <1>8
  <2> QED
    BY <1>5, <1>11, <2>1, <2>2, <2>3, PublishedStays
<1>18. CreatedIsThere' /\ PathsPublished' /\ StartsAtZero'
  BY <1>3, <1>5, <1>10 DEF CreatedIsThere, PathsPublished, StartsAtZero, FileInv
<1>19. OverlapsMarked'
  <2>1. \A m \in Nodes, w \in Uploads : Running(m, w)' => Running(m, w)
    BY <1>2, <1>10 DEF Running
  <2> QED
    BY <1>5, <2>1 DEF OverlapsMarked, FileInv
<1> QED
  BY <1>13, <1>14, <1>15, <1>16, <1>17, <1>18, <1>19 DEF FileInv

LEMMA CreateInv ==
  ASSUME FileInv, NEW n \in Nodes, NEW u \in Uploads, Create(n, u)
  PROVE  FileInv'
BY CreateFile

\* A write past the other chunks extends the file, and a put that runs alone
\* writes just there.
LEMMA WrittenContent ==
  ASSUME NEW content \in Seq(Uploads \cup {Hole}), NEW at \in Nat \ {0}, NEW u \in Uploads
  PROVE  /\ Written(content, at, u) \in Seq(Uploads \cup {Hole})
         /\ content = [i \in 1..(at - 1) |-> u]
              => Written(content, at, u) = [i \in 1..at |-> u]
<1> DEFINE end == IF at > Len(content) THEN at ELSE Len(content)
<1>1. Len(content) \in Nat /\ end \in Nat
  OBVIOUS
<1>2. \A i \in 1..end :
        (IF i = at THEN u ELSE IF i <= Len(content) THEN content[i] ELSE Hole)
          \in Uploads \cup {Hole}
  BY <1>1
<1>3. Written(content, at, u) \in Seq(Uploads \cup {Hole})
  BY <1>1, <1>2 DEF Written
<1>4. ASSUME content = [i \in 1..(at - 1) |-> u]
      PROVE  Written(content, at, u) = [i \in 1..at |-> u]
  <2>1. Len(content) = at - 1
    BY <1>4
  <2>2. \A i \in 1..at : (IF i = at THEN u ELSE IF i <= Len(content) THEN content[i] ELSE Hole) = u
    BY <1>4, <2>1
  <2> QED
    BY <2>1, <2>2 DEF Written
<1> QED
  BY <1>3, <1>4

LEMMA OneWrites ==
  ASSUME FileInv, NEW n \in Nodes, NEW u \in Uploads,
         put[n][u].pc = "write", put[n][u].offset < Length[u],
         NEW p \in Puts, NEW f,
         p.pc = "write", p.offset = put[n][u].offset + 1, p.answer = put[n][u].answer,
         p.fd = f, put[n][u].fd = f,
         put' = [put EXCEPT ![n][u] = p],
         data' = [data EXCEPT ![n][f] = Written(data[n][f], p.offset, u)],
         UNCHANGED <<tmp, path, publisher, overlapped>>
  PROVE  FileInv'
<1> DEFINE written == Written(data[n][f], p.offset, u)
<1>1. put[n][u] \in Puts /\ put[n][u].offset \in Nat
  BY DEF FileInv, FileTypes, Puts
<1>2. f \in Uploads /\ Born(n, f) /\ Object[f] = Object[u]
  BY DEF FileInv, HandlesOpen, Born
<1>3. data[n][f] \in Seq(Uploads \cup {Hole})
  BY <1>2 DEF FileInv, FileTypes
<1>4. FileTypes
  BY DEF FileInv
<1>5. data' = [data EXCEPT ![n][f] = written]
  OBVIOUS
<1>8. /\ p.offset \in Nat \ {0}
      /\ written \in Seq(Uploads \cup {Hole})
      /\ data[n][f] = [i \in 1..put[n][u].offset |-> u] => written = [i \in 1..p.offset |-> u]
  <2>1. p.offset \in Nat \ {0} /\ p.offset - 1 = put[n][u].offset
    BY <1>1
  <2>2. /\ written \in Seq(Uploads \cup {Hole})
        /\ data[n][f] = [i \in 1..(p.offset - 1) |-> u] => written = [i \in 1..p.offset |-> u]
    BY <1>3, <2>1, WrittenContent
  <2> QED
    BY <2>1, <2>2
<1> HIDE DEF written
<1>9. /\ data' \in [Nodes -> [Uploads -> Seq(Uploads \cup {Hole})]]
      /\ data'[n][f] = written
      /\ \A m \in Nodes, g \in Uploads : (m # n \/ g # f) => data'[m][g] = data[m][g]
  BY <1>2, <1>4, <1>5, <1>8 DEF FileTypes
<1>10. /\ put' \in [Nodes -> [Uploads -> Puts]]
       /\ put'[n][u] = p
       /\ \A m \in Nodes, w \in Uploads : (m # n \/ w # u) => put'[m][w] = put[m][w]
  BY <1>4 DEF FileTypes
<1>11. \A m \in Nodes, w \in Uploads :
         /\ put'[m][w].pc = put[m][w].pc
         /\ put'[m][w].fd = put[m][w].fd
         /\ put'[m][w].answer = put[m][w].answer
  BY <1>10
<1>12. \A m \in Nodes, g \in Uploads : Born(m, g) => Born(m, g)'
  BY <1>11 DEF Born
<1>13. FileTypes'
  BY <1>9, <1>10 DEF FileInv, FileTypes
<1>14. TmpUnpublished' /\ PathsPublished' /\ CreatedIsThere'
  BY <1>11 DEF TmpUnpublished, PathsPublished, CreatedIsThere, FileInv, Born
<1>15. HandlesOpen'
  <2> SUFFICES ASSUME NEW m \in Nodes, NEW w \in Uploads, put'[m][w].pc = "write"
               PROVE  /\ Born(m, put[m][w].fd)'
                      /\ Object[put'[m][w].fd] = Object[w]
                      /\ put'[m][w].offset <= Length[w]
    BY DEF HandlesOpen
  <2>1. Born(m, put[m][w].fd) /\ Object[put[m][w].fd] = Object[w] /\ put[m][w].offset <= Length[w]
    BY <1>11 DEF FileInv, HandlesOpen
  <2>2. put'[m][w].offset <= Length[w]
    BY <1>1, <1>10, <2>1, LengthAssumption DEF Puts
  <2> QED
    BY <1>11, <2>1, <2>2 DEF Born
<1>16. AloneExact'
  <2> SUFFICES ASSUME NEW m \in Nodes, NEW v \in Uploads,
                      put'[m][v].pc = "write", <<m, v>> \notin overlapped'
               PROVE  /\ tmp'[m][Object[v]] = put'[m][v].fd
                      /\ data'[m][put'[m][v].fd] = [i \in 1..put'[m][v].offset |-> v]
    BY DEF AloneExact
  <2>1. /\ put[m][v].pc = "write" /\ <<m, v>> \notin overlapped
        /\ tmp[m][Object[v]] = put[m][v].fd
        /\ data[m][put[m][v].fd] = [i \in 1..put[m][v].offset |-> v]
    BY <1>11 DEF FileInv, AloneExact
  <2>2. CASE m = n /\ v = u
    BY <1>8, <1>9, <1>10, <2>1, <2>2
  <2>3. CASE ~(m = n /\ v = u)
    <3>1. ~(m = n /\ Object[v] = Object[u])
      <4>1. m = n /\ Object[v] = Object[u] => Running(n, v) /\ Running(n, u) /\ v # u
        BY <2>1, <2>3 DEF Running
      <4> QED
        BY <2>1, <4>1 DEF FileInv, OverlapsMarked
    <3>2. put[m][v].fd \in Uploads /\ Object[put[m][v].fd] = Object[v]
      BY <2>1 DEF FileInv, HandlesOpen, Born
    <3>3. data'[m][put[m][v].fd] = data[m][put[m][v].fd]
      BY <1>2, <1>9, <3>1, <3>2
    <3> QED
      BY <1>10, <2>1, <2>3, <3>3
  <2> QED
    BY <2>2, <2>3
<1>17. PublishedExact'
  <2>1. FileTypes /\ PublishedExact
    BY DEF FileInv
  <2>2. \A m \in Nodes, g \in Uploads :
          \/ data'[m][g] = data[m][g]
          \/ \E w \in Uploads : put[m][w].pc = "write" /\ put[m][w].fd = g
    BY <1>2, <1>9
  <2> QED
    BY <1>11, <1>12, <2>1, <2>2, PublishedStays
<1>18. StartsAtZero'
  BY <1>10 DEF StartsAtZero, FileInv
<1>19. OverlapsMarked'
  <2>1. \A m \in Nodes, w \in Uploads : Running(m, w)' => Running(m, w)
    BY <1>11 DEF Running
  <2> QED
    BY <2>1 DEF OverlapsMarked, FileInv
<1> QED
  BY <1>13, <1>14, <1>15, <1>16, <1>17, <1>18, <1>19 DEF FileInv

LEMMA WriteChunkInv ==
  ASSUME FileInv, NEW n \in Nodes, NEW u \in Uploads, WriteChunk(n, u)
  PROVE  FileInv'
<1> DEFINE p == [put[n][u] EXCEPT !.offset = @ + 1]
<1>1. put[n][u] \in Puts
  BY DEF FileInv, FileTypes
<1>2. /\ p \in Puts /\ p.pc = put[n][u].pc /\ p.fd = put[n][u].fd
      /\ p.offset = put[n][u].offset + 1 /\ p.answer = put[n][u].answer
  BY <1>1 DEF Puts
<1>3. /\ put' = [put EXCEPT ![n][u] = p]
      /\ data' = [data EXCEPT ![n][put[n][u].fd] =
                    Written(data[n][put[n][u].fd], p.offset, u)]
  BY <1>2 DEF WriteChunk
<1> HIDE DEF p
<1>4. /\ put[n][u].pc = "write" /\ put[n][u].offset < Length[u]
      /\ UNCHANGED <<tmp, path, publisher, overlapped>>
  BY DEF WriteChunk
<1> QED
  BY <1>2, <1>3, <1>4, OneWrites

\* What is published is the file under .tmp.
LEMMA RenameFile ==
  ASSUME FileInv, NEW n \in Nodes, NEW u \in Uploads, Rename(n, u),
         NEW f, tmp[n][Object[u]] = f
  PROVE  FileInv'
<1>1. /\ put[n][u].pc = "write" /\ put[n][u].offset = Length[u]
      /\ f # NoFile /\ Object[u] \in Objects
  BY ObjectAssumption DEF Rename
<1>2. f \in Uploads /\ Born(n, f) /\ Object[f] = Object[u] /\ publisher[n][f] = NoFile
  BY <1>1 DEF FileInv, TmpUnpublished, Born
<1>3. FileTypes
  BY DEF FileInv
<1>4. /\ put' \in [Nodes -> [Uploads -> Puts]]
      /\ put'[n][u] = Ended("created")
      /\ \A m \in Nodes, w \in Uploads : (m # n \/ w # u) => put'[m][w] = put[m][w]
  BY <1>3, EndedPut, OnePut DEF Rename, Answered
<1>5. put'[n][u].pc = "done"
  BY <1>4, EndedPut
<1>6. UNCHANGED <<data, overlapped>>
  BY DEF Rename
<1>7. /\ tmp' \in [Nodes -> [Objects -> Uploads \cup {NoFile}]]
      /\ tmp'[n][Object[u]] = NoFile
      /\ \A m \in Nodes, o \in Objects : (m # n \/ o # Object[u]) => tmp'[m][o] = tmp[m][o]
  BY <1>1, <1>3 DEF Rename, FileTypes
<1>8. /\ path' \in [Nodes -> [Objects -> Uploads \cup {NoFile}]]
      /\ path'[n][Object[u]] = f
      /\ \A m \in Nodes, o \in Objects : (m # n \/ o # Object[u]) => path'[m][o] = path[m][o]
  BY <1>1, <1>2, <1>3 DEF Rename, FileTypes
<1>9. /\ publisher' \in [Nodes -> [Uploads -> Uploads \cup {NoFile}]]
      /\ publisher'[n][f] = u
      /\ \A m \in Nodes, g \in Uploads : (m # n \/ g # f) => publisher'[m][g] = publisher[m][g]
  BY <1>2, <1>3 DEF Rename, FileTypes
<1>10. u # NoFile
  BY NoFileAssumption
<1>11. \A m \in Nodes, g \in Uploads : Born(m, g) => Born(m, g)'
  BY <1>4, <1>5 DEF Born
<1>12. FileTypes'
  BY <1>3, <1>4, <1>6, <1>7, <1>8, <1>9 DEF FileTypes
<1>13. TmpUnpublished'
  <2> SUFFICES ASSUME NEW m \in Nodes, NEW o \in Objects, tmp'[m][o] # NoFile
               PROVE  /\ Born(m, tmp[m][o])'
                      /\ Object[tmp'[m][o]] = o
                      /\ publisher'[m][tmp'[m][o]] = NoFile
    BY DEF TmpUnpublished
  <2>1. ~(m = n /\ o = Object[u]) /\ tmp'[m][o] = tmp[m][o]
    BY <1>7
  <2>2. Born(m, tmp[m][o]) /\ Object[tmp[m][o]] = o /\ publisher[m][tmp[m][o]] = NoFile
    BY <2>1 DEF FileInv, TmpUnpublished
  <2>3. Born(m, tmp[m][o])'
    BY <1>11, <2>1, <2>2 DEF Born
  <2>4. ~(m = n /\ tmp[m][o] = f)
    BY <1>2, <2>1, <2>2
  <2> QED
    BY <1>9, <2>1, <2>2, <2>3, <2>4 DEF Born
<1>14. PathsPublished'
  <2> SUFFICES ASSUME NEW m \in Nodes, NEW o \in Objects, path'[m][o] # NoFile
               PROVE  Object[path'[m][o]] = o /\ publisher'[m][path'[m][o]] # NoFile
    BY DEF PathsPublished
  <2>1. CASE m = n /\ o = Object[u]
    BY <1>2, <1>8, <1>9, <1>10, <2>1
  <2>2. CASE ~(m = n /\ o = Object[u])
    <3>1. path'[m][o] = path[m][o] /\ path[m][o] \in Uploads
      BY <1>3, <1>8, <2>2 DEF FileTypes
    <3>2. Object[path[m][o]] = o /\ publisher[m][path[m][o]] # NoFile
      BY <3>1 DEF FileInv, PathsPublished
    <3> QED
      BY <1>9, <1>10, <3>1, <3>2
  <2> QED
    BY <2>1, <2>2
<1>15. HandlesOpen'
  <2> SUFFICES ASSUME NEW m \in Nodes, NEW w \in Uploads, put'[m][w].pc = "write"
               PROVE  /\ Born(m, put[m][w].fd)'
                      /\ Object[put'[m][w].fd] = Object[w]
                      /\ put'[m][w].offset <= Length[w]
    BY DEF HandlesOpen
  <2>1. put'[m][w] = put[m][w]
    BY <1>4, <1>5
  <2>2. Born(m, put[m][w].fd) /\ put[m][w].fd \in Uploads
    BY <2>1 DEF FileInv, HandlesOpen, Born
  <2> QED
    BY <1>11, <2>1, <2>2 DEF FileInv, HandlesOpen, Born
<1>16. AloneExact'
  <2> SUFFICES ASSUME NEW m \in Nodes, NEW v \in Uploads,
                      put'[m][v].pc = "write", <<m, v>> \notin overlapped'
               PROVE  /\ tmp'[m][Object[v]] = put'[m][v].fd
                      /\ data'[m][put'[m][v].fd] = [i \in 1..put'[m][v].offset |-> v]
    BY DEF AloneExact
  <2>1. put'[m][v] = put[m][v] /\ ~(m = n /\ v = u) /\ <<m, v>> \notin overlapped
    BY <1>4, <1>5, <1>6
  <2>2. ~(m = n /\ Object[v] = Object[u])
    <3>1. m = n /\ Object[v] = Object[u] => Running(n, v) /\ Running(n, u) /\ v # u
      BY <1>1, <2>1 DEF Running
    <3> QED
      BY <2>1, <3>1 DEF FileInv, OverlapsMarked
  <2>3. tmp'[m][Object[v]] = tmp[m][Object[v]]
    BY <1>7, <2>2, ObjectAssumption
  <2> QED
    BY <1>6, <2>1, <2>3 DEF FileInv, AloneExact
<1>17. PublishedExact'
  <2> SUFFICES ASSUME NEW m \in Nodes, NEW g \in Uploads, publisher'[m][g] # NoFile
               PROVE  /\ Born(m, g)'
                      /\ put'[m][publisher'[m][g]].pc = "done"
                      /\ <<m, publisher'[m][g]>> \notin overlapped' =>
                           /\ data'[m][g] = Whole(publisher'[m][g])
                           /\ \A w \in Uploads : put'[m][w].pc = "write" => put'[m][w].fd # g
    BY DEF PublishedExact
  <2>1. CASE m = n /\ g = f
    <3>1. Born(n, f)' /\ put'[n][u].pc = "done"
      BY <1>2, <1>5, <1>11
    <3>2. ASSUME <<n, u>> \notin overlapped
          PROVE  /\ data[n][f] = Whole(u)
                 /\ \A w \in Uploads : put'[n][w].pc = "write" => put'[n][w].fd # f
      <4>1. data[n][f] = Whole(u)
        BY <1>1, <3>2 DEF FileInv, AloneExact, Whole
      <4>2. ASSUME NEW w \in Uploads, put'[n][w].pc = "write", put'[n][w].fd = f
            PROVE  FALSE
        <5>1. put[n][w] = put'[n][w] /\ w # u
          BY <1>4, <1>5, <4>2
        <5>2. Object[w] = Object[u] /\ Running(n, w) /\ Running(n, u)
          BY <1>1, <1>2, <4>2, <5>1 DEF FileInv, HandlesOpen, Running
        <5> QED
          BY <3>2, <5>1, <5>2 DEF FileInv, OverlapsMarked
      <4> QED
        BY <4>1, <4>2
    <3> QED
      BY <1>6, <1>9, <2>1, <3>1, <3>2
  <2>2. CASE ~(m = n /\ g = f)
    <3>1. publisher'[m][g] = publisher[m][g] /\ publisher[m][g] \in Uploads
      BY <1>3, <1>9, <2>2 DEF FileTypes
    <3>2. Born(m, g) /\ put[m][publisher[m][g]].pc = "done"
      BY <3>1, PublishedFile DEF FileInv
    <3>3. Born(m, g)' /\ put'[m][publisher[m][g]].pc = "done"
      BY <1>4, <1>5, <1>11, <3>1, <3>2
    <3>4. ASSUME <<m, publisher[m][g]>> \notin overlapped
          PROVE  /\ data[m][g] = Whole(publisher[m][g])
                 /\ \A w \in Uploads : put[m][w].pc = "write" => put[m][w].fd # g
      BY <3>1, <3>4 DEF FileInv, PublishedExact
    <3>5. \A w \in Uploads : put'[m][w].pc = "write" => put'[m][w] = put[m][w]
      BY <1>4, <1>5
    <3> QED
      BY <1>6, <3>1, <3>3, <3>4, <3>5
  <2> QED
    BY <2>1, <2>2
<1>18. CreatedIsThere'
  <2> SUFFICES ASSUME NEW m \in Nodes, NEW w \in Uploads, put'[m][w].answer = "created"
               PROVE  path'[m][Object[w]] # NoFile
    BY DEF CreatedIsThere
  <2>1. CASE m = n /\ Object[w] = Object[u]
    BY <1>1, <1>8, <2>1
  <2>2. CASE ~(m = n /\ Object[w] = Object[u])
    BY <1>4, <1>8, <2>2, ObjectAssumption DEF FileInv, CreatedIsThere
  <2> QED
    BY <2>1, <2>2
<1>19. StartsAtZero'
  BY <1>4, <1>5 DEF StartsAtZero, FileInv
<1>20. OverlapsMarked'
  <2>1. \A m \in Nodes, w \in Uploads : Running(m, w)' => Running(m, w)
    BY <1>4, <1>5 DEF Running
  <2> QED
    BY <1>6, <2>1 DEF OverlapsMarked, FileInv
<1> QED
  BY <1>12, <1>13, <1>14, <1>15, <1>16, <1>17, <1>18, <1>19, <1>20 DEF FileInv

LEMMA RenameInv ==
  ASSUME FileInv, NEW n \in Nodes, NEW u \in Uploads, Rename(n, u)
  PROVE  FileInv'
BY RenameFile

LEMMA PutStepInv ==
  ASSUME FileInv, NEW n \in Nodes, NEW u \in Uploads, PutStep(n, u)
  PROVE  FileInv'
<1>1. CASE CreateFails(n, u)
  BY <1>1, OneEnds DEF CreateFails, Running
<1>2. CASE CopyFails(n, u)
  BY <1>2, OneEnds DEF CopyFails, Running
<1>3. CASE RemoveTmp(n, u)
  BY <1>3, OneEnds DEF RemoveTmp, Running
<1>4. CASE SyncFails(n, u) \/ RenameFails(n, u)
  <2> DEFINE p == [put[n][u] EXCEPT !.pc = "remove"]
  <2>1. put[n][u] \in Puts
    BY DEF FileInv, FileTypes
  <2>2. p \in Puts /\ p.pc = "remove" /\ p.answer = put[n][u].answer
    BY <2>1 DEF Puts
  <2>3. /\ put[n][u].pc = "write"
        /\ put' = [put EXCEPT ![n][u] = p]
        /\ UNCHANGED <<tmp, path, data, publisher, overlapped>>
    BY <1>4 DEF SyncFails, RenameFails
  <2> HIDE DEF p
  <2> QED
    BY <2>2, <2>3, OneFails
<1> QED
  BY <1>1, <1>2, <1>3, <1>4, CreateInv, WriteChunkInv, RenameInv DEF PutStep
=============================================================================
