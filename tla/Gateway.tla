------------------------------ MODULE Gateway -------------------------------
(***************************************************************************)
(* The web gateway (cmd/web/main.go) over the file stores: an upload       *)
(* registers the segment with the metadata server and then puts it to its  *)
(* replicas one after the other, counting successes; a playback looks the  *)
(* segment up and streams it from the first replica that has it.           *)
(*                                                                         *)
(* The index of a segment is a string on its way to the gateway, in the    *)
(* name of the object and in the key that the placement ring looks up, and *)
(* a number in the key of the metadata server: "1" and "01" are two        *)
(* objects of one segment.                                                 *)
(***************************************************************************)
EXTENDS FileStore

CONSTANTS Viewers,
          Wanted,     \* the object each asks for
          Segments,   \* keys of the metadata server
          Segment,    \* the key under which an object's location is stored
          Replicas,   \* where the placement ring puts an object, in order
          WriteW      \* UPLOAD_W

ASSUME WantedAssumption == Wanted \in [Viewers -> Objects]
ASSUME SegmentAssumption == Segment \in [Objects -> Segments]
ASSUME ReplicasAssumption == Replicas \in [Objects -> Seq(Nodes) \ {<<>>}]
ASSUME WriteWAssumption == WriteW \in Nat \ {0}

VARIABLES location,   \* the replicas stored for each segment; none: <<>>
          upload,     \* the gateway's handler of each upload
          view        \* the gateway's handler of each playback

vars == <<fsVars, location, upload, view>>

Init ==
  /\ FSInit
  /\ location = [k \in Segments |-> <<>>]
  /\ upload = [u \in Uploads |-> [pc |-> "idle", at |-> 1, success |-> 0]]
  /\ view = [v \in Viewers |-> [pc |-> "idle", replicas |-> <<>>, at |-> 1,
                                node |-> "none", fd |-> NoFile, got |-> <<>>]]
-----------------------------------------------------------------------------
\* handlePutSegment stores the replicas of this spelling of the index.
Located(u) == [location EXCEPT ![Segment[Object[u]]] = Replicas[Object[u]]]

\* Mutant: blobs are put although the registration failed.
RegisterIgnored(u) ==
  /\ upload[u].pc = "idle"
  /\ upload' = [upload EXCEPT ![u].pc = "send"]
  /\ UNCHANGED <<fsVars, location, view>>

\* POST .../segments of the metadata server; puts follow.
Register(u) ==
  /\ upload[u].pc = "idle"
  /\ location' = Located(u)
  /\ upload' = [upload EXCEPT ![u].pc = "send"]
  /\ UNCHANGED <<fsVars, view>>

\* "Failed to create segment", or one of the errors after it: the location
\* may have been stored.
RegisterFails(u) ==
  /\ Fault
  /\ upload[u].pc = "idle"
  /\ location' \in {location, Located(u)}
  /\ upload' = [upload EXCEPT ![u].pc = "unavailable"]
  /\ UNCHANGED <<fsDisk, view>>

\* The answer to the registration names the replicas.
Targets(u) == Replicas[Object[u]]

Node(u) == Targets(u)[upload[u].at]

SendPut(u) ==
  /\ upload[u].pc = "send"
  /\ Receive(Node(u), u)
  /\ upload' = [upload EXCEPT ![u].pc = "await"]
  /\ UNCHANGED <<location, view>>

\* On to the next replica, or to the answer: 201 from WriteW successes on.
Advance(u, gained) ==
  LET success == upload[u].success + gained
  IN  upload' = [upload EXCEPT
        ![u].success = success,
        ![u].at = IF @ < Len(Targets(u)) THEN @ + 1 ELSE @,
        ![u].pc = IF upload[u].at < Len(Targets(u)) THEN "send"
                  ELSE IF success >= WriteW THEN "created" ELSE "badgateway"]

\* The node cannot be reached.
PutUnreachable(u) ==
  /\ Fault
  /\ upload[u].pc = "send"
  /\ Advance(u, 0)
  /\ UNCHANGED <<fsDisk, location, view>>

\* The answer of the node; 201 counts, whatever its size and checksum.
PutAnswered(u) ==
  LET answer == put[Node(u)][u].answer
  IN  /\ upload[u].pc = "await"
      /\ answer # "none"
      /\ Advance(u, IF answer \in {"created", "empty"} THEN 1 ELSE 0)
      /\ UNCHANGED <<fsVars, location, view>>

\* Mutant: a put that was sent counts.
TimeoutCounts(u) ==
  /\ Fault
  /\ upload[u].pc = "await"
  /\ Advance(u, 1)
  /\ UNCHANGED <<fsDisk, location, view>>

\* Eight seconds have passed; the put goes on without its caller.
PutTimesOut(u) ==
  /\ Fault
  /\ upload[u].pc = "await"
  /\ Advance(u, 0)
  /\ UNCHANGED <<fsDisk, location, view>>
-----------------------------------------------------------------------------
\* "/v/": the replicas are the ones stored for the segment; without any the
\* metadata server answers 404.
Locate(v) ==
  LET replicas == location[Segment[Wanted[v]]]
  IN  /\ view[v].pc = "idle"
      /\ view' = [view EXCEPT ![v].pc = IF replicas = <<>> THEN "error" ELSE "try",
                              ![v].replicas = replicas]
      /\ UNCHANGED <<fsVars, location, upload>>

\* The replica has the object: the handle its server opened is streamed.
Open(v) ==
  LET n == view[v].replicas[view[v].at]
      file == path[n][Wanted[v]]
  IN  /\ view[v].pc = "try"
      /\ file # NoFile
      /\ view' = [view EXCEPT ![v].pc = "copy", ![v].node = n, ![v].fd = file]
      /\ UNCHANGED <<fsVars, location, upload>>

\* It has not, or does not answer: the next one, until there is none.
TryNext(v) ==
  LET last == Len(view[v].replicas)
  IN  /\ view[v].pc = "try"
      /\ view' = [view EXCEPT ![v].pc = IF view[v].at < last THEN "try" ELSE "error",
                              ![v].at = IF @ < last THEN @ + 1 ELSE @]
      /\ UNCHANGED <<fsVars, location, upload>>

\* The chunks of the file that the viewer has not got yet.
Streamed(v) == data[view[v].node][view[v].fd]

CopyChunk(v) ==
  LET i == Len(view[v].got) + 1
  IN  /\ view[v].pc = "copy"
      /\ i <= Len(Streamed(v))
      /\ view' = [view EXCEPT ![v].got = Append(@, Streamed(v)[i])]
      /\ UNCHANGED <<fsVars, location, upload>>

\* End of file.
CopyEnds(v) ==
  /\ view[v].pc = "copy"
  /\ Len(view[v].got) >= Len(Streamed(v))
  /\ view' = [view EXCEPT ![v].pc = "ended"]
  /\ UNCHANGED <<fsVars, location, upload>>

\* Five seconds have passed or the connection broke: io.Copy's error is
\* dropped and the viewer is left with what was sent.
CopyCut(v) ==
  /\ Fault
  /\ view[v].pc = "copy"
  /\ view' = [view EXCEPT ![v].pc = "cut"]
  /\ UNCHANGED <<fsDisk, location, upload>>

\* A storage server crashes: its streams end where they are.
Crash(n) ==
  /\ CrashPuts(n)
  /\ view' = [v \in Viewers |->
       IF view[v].pc = "copy" /\ view[v].node = n
       THEN [view[v] EXCEPT !.pc = "cut"] ELSE view[v]]
  /\ UNCHANGED <<location, upload>>
-----------------------------------------------------------------------------
UploadStep(u) ==
  \/ SendPut(u) \/ PutUnreachable(u) \/ PutAnswered(u) \/ PutTimesOut(u)

ViewStep(v) == Open(v) \/ TryNext(v) \/ CopyChunk(v) \/ CopyEnds(v) \/ CopyCut(v)

Next ==
  \/ \E u \in Uploads : Register(u) \/ RegisterFails(u) \/ UploadStep(u)
  \/ \E v \in Viewers : Locate(v) \/ ViewStep(v)
  \/ \E n \in Nodes, u \in Uploads : PutStep(n, u) /\ UNCHANGED <<location, upload, view>>
  \/ \E n \in Nodes : Crash(n)

Spec == Init /\ [][Next]_vars
-----------------------------------------------------------------------------
\* A viewer gets the bytes of one upload from its start, and all of them when
\* the stream ends by itself, however uploads, crashes and failures go on
\* meanwhile (fs.go:28-48 write aside and rename), if the put that published
\* the file did not run beside another put of the object on that node.
ViewsWhole ==
  \A v \in Viewers :
    view[v].fd # NoFile =>
      LET u == publisher[view[v].node][view[v].fd]
      IN  <<view[v].node, u>> \notin overlapped =>
            /\ IsPrefix(view[v].got, Whole(u))
            /\ view[v].pc = "ended" => view[v].got = Whole(u)

\* What a node stores can be found: the location of its segment is stored and
\* names the node (web/main.go:54-64 registers first), late puts, abandoned
\* uploads and lost answers included.
StoredIsLocated ==
  \A n \in Nodes, o \in Objects :
    path[n][o] # NoFile => n \in ToSet(location[Segment[o]])

\* An upload answered 201 has left the segment on at least W of its replicas
\* (web/main.go:84 counts the puts that succeeded).
QuorumMeansStored ==
  \A u \in Uploads :
    upload[u].pc = "created" =>
      Cardinality({n \in Nodes : path[n][Object[u]] # NoFile}) >= WriteW

\* Apart from the 201 of a copy that failed (fs.go:35-38), what the gateway
\* counts is stored: an upload has at most as many successes as nodes keep the
\* segment, through timeouts, crashes and other uploads (web/main.go:95-121).
SuccessesStored ==
  \A u \in Uploads :
    upload[u].success <=
      Cardinality({n \in Nodes :
        path[n][Object[u]] # NoFile \/ put[n][u].answer = "empty"})
=============================================================================
