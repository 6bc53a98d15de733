------------------------- MODULE Rebalancer_proofs --------------------------
(***************************************************************************)
(* The watch pipeline for any managers, watches, nodes and capacities:     *)
(* channels are not sent on after they are closed, plans follow etcd's     *)
(* order, a manager's ring is not behind the events of its only watch, and *)
(* a sole writer that does not watch itself loses no node.                 *)
(***************************************************************************)
EXTENDS Rebalancer, TLAPS

Responses == [value : States, revision : Nat]

\* The shape of the state.
RingTypes ==
  /\ etcd \in [revision : Nat,
              kv : [{RingKey} -> [value : States \cup {NoState}, modRevision : Nat]]]
  /\ up \subseteq Managers
  /\ state \in [Managers -> States]
  /\ source \in [Managers -> Nat]
  /\ registered \subseteq Watches
  /\ closed \subseteq Watches
  /\ inbox \in [Watches -> Seq(Responses)]
  /\ loop \in [Watches -> {"off", "receive", "apply", "send", "done"}]
  /\ current \in [Watches -> Responses]
  /\ events \in [Watches -> Seq(Responses)]
  /\ told \in [Watches -> Nat]
  /\ run \in [Watches -> {"off", "wait", "execute", "returned"}]
  /\ plan \in [Watches -> Responses]

\* What a write stores and what it leaves in etcd.
LEMMA OpPutStores ==
  ASSUME RingTypes, NEW v \in States
  PROVE  LET next == Etcd!OpPut(etcd, RingKey, v)
         IN  /\ next \in [revision : Nat,
                          kv : [{RingKey} -> [value : States \cup {NoState}, modRevision : Nat]]]
             /\ next.revision = etcd.revision + 1
             /\ next.kv[RingKey].value = v
BY DEF RingTypes, Etcd!OpPut

LEMMA InitTypes == Init => RingTypes
<1> SUFFICES ASSUME Init PROVE RingTypes
  OBVIOUS
<1>1. Empty \in States /\ NoResponse \in Responses
  BY DEF Empty, States, NoResponse, Responses
<1>2. etcd \in [revision : Nat,
              kv : [{RingKey} -> [value : States \cup {NoState}, modRevision : Nat]]]
  <2>1. Etcd!New({RingKey}) \in [revision : Nat,
              kv : [{RingKey} -> [value : States \cup {NoState}, modRevision : Nat]]]
    BY DEF Etcd!New, Etcd!Absent
  <2>2. ASSUME NEW S \in SUBSET Nodes
        PROVE  Etcd!OpPut(Etcd!New({RingKey}), RingKey, [version |-> 1, nodes |-> S])
                 \in [revision : Nat,
                      kv : [{RingKey} -> [value : States \cup {NoState}, modRevision : Nat]]]
    BY DEF Etcd!New, Etcd!Absent, Etcd!OpPut, States
  <2> QED
    BY <2>1, <2>2 DEF Init, RingInit
<1> QED
  BY <1>1, <1>2 DEF Init, RingInit, RingTypes

\* A write, its notifications included.
LEMMA PersistTypes ==
  ASSUME RingTypes, NEW m \in Managers, NEW nodes \in SUBSET Nodes, Persist(m, nodes),
         UNCHANGED <<run, plan>>
  PROVE  RingTypes'
<1> DEFINE next == [version |-> state[m].version + 1, nodes |-> nodes]
           r == [value |-> next, revision |-> etcd'.revision]
<1>1. next \in States
  BY DEF RingTypes, States
<1>2. etcd' \in [revision : Nat,
              kv : [{RingKey} -> [value : States \cup {NoState}, modRevision : Nat]]]
  BY <1>1, OpPutStores DEF Persist
<1>3. r \in Responses
  BY <1>1, <1>2 DEF Responses
<1>4. inbox' \in [Watches -> Seq(Responses)]
  <2>1. inbox' = [w \in Watches |-> IF w \in registered THEN Deliver(inbox[w], r) ELSE inbox[w]]
    BY DEF Persist, Notify
  <2>2. ASSUME NEW w \in Watches
        PROVE  Deliver(inbox[w], r) \in Seq(Responses)
    BY <1>3 DEF RingTypes, Deliver
  <2> HIDE DEF r
  <2> QED
    BY <2>1, <2>2 DEF RingTypes
<1>5. state' = [state EXCEPT ![m] = next] /\ source' = [source EXCEPT ![m] = etcd'.revision]
  BY DEF Persist
<1>6. UNCHANGED <<up, registered, closed, loop, current, events, run, plan>>
  BY DEF Persist
<1>7. told' \in [Watches -> Nat]
  BY <1>3 DEF Persist, Notify, Responses, RingTypes
<1> HIDE DEF next
<1> QED
  BY <1>1, <1>2, <1>4, <1>5, <1>6, <1>7 DEF RingTypes

LEMMA NextTypes ==
  ASSUME RingTypes, [Next]_vars
  PROVE  RingTypes'
<1>1. ASSUME NEW m \in Managers, ManagerStep(m), UNCHANGED <<run, plan>>
      PROVE  RingTypes'
  <2>1. CASE NewRingManager(m)
    BY <2>1, <1>1 DEF NewRingManager, Bootstrap, Stored, Empty, States, RingTypes, watchVars
  <2>2. CASE UpsertNode(m)
    <3>1. PICK n \in Nodes : Persist(m, state[m].nodes \cup {n})
      BY <2>2 DEF UpsertNode
    <3>2. state[m].nodes \cup {n} \in SUBSET Nodes
      BY DEF RingTypes, States
    <3> QED
      BY <3>1, <3>2, <1>1, PersistTypes
  <2>3. CASE RemoveNode(m)
    <3>1. PICK n \in state[m].nodes : Persist(m, state[m].nodes \ {n})
      BY <2>3 DEF RemoveNode
    <3>2. state[m].nodes \ {n} \in SUBSET Nodes
      BY DEF RingTypes, States
    <3> QED
      BY <3>1, <3>2, <1>1, PersistTypes
  <2> QED
    BY <1>1, <2>1, <2>2, <2>3 DEF ManagerStep
<1>2. ASSUME NEW w \in Watches, WatchStep(w), UNCHANGED <<run, plan>>
      PROVE  RingTypes'
  <2>1. CASE RemoveWatcher(w)
    BY <2>1, <1>2 DEF RemoveWatcher, RingTypes
  <2>2. CASE CloseInbox(w)
    BY <2>2, <1>2 DEF CloseInbox, RingTypes
  <2>3. CASE Receive(w)
    BY <2>3, <1>2 DEF Receive, RingTypes
  <2>4. CASE ApplyState(w)
    BY <2>4, <1>2 DEF ApplyState, RingTypes, Responses
  <2>5. CASE Emit(w)
    BY <2>5, <1>2 DEF Emit, RingTypes
  <2>6. CASE Stop(w)
    BY <2>6, <1>2 DEF Stop, RingTypes
  <2> QED
    BY <1>2, <2>1, <2>2, <2>3, <2>4, <2>5, <2>6 DEF WatchStep
<1>3. ASSUME NEW w \in Watches, Run(w) \/ RunStep(w)
      PROVE  RingTypes'
  <2>1. CASE Run(w)
    BY <2>1 DEF Run, Watch, RingTypes
  <2>2. CASE StartPlan(w)
    BY <2>2 DEF StartPlan, RingTypes
  <2>3. CASE PlanDone(w) \/ PlanFails(w) \/ Return(w)
    BY <2>3 DEF PlanDone, PlanFails, Return, RingTypes, ringVars, watchVars
  <2> QED
    BY <1>3, <2>1, <2>2, <2>3 DEF RunStep
<1>4. ASSUME NEW w \in Watches, Cancel(w), UNCHANGED <<run, plan>>
      PROVE  RingTypes'
  BY <1>4 DEF Cancel, RingTypes
<1>5. CASE UNCHANGED vars
  BY <1>5 DEF vars, ringVars, watchVars, RingTypes
<1> QED
  BY <1>1, <1>2, <1>3, <1>4, <1>5 DEF Next

THEOREM RingTypeCorrect == Spec => []RingTypes
BY InitTypes, NextTypes, PTL DEF Spec
-----------------------------------------------------------------------------
\* No send on a closed channel (etcdsim.go:301-305), for any number of watches
\* and cancellations: a watcher is registered once, before it can be
\* cancelled, and its channel is closed only after it is gone.
ClosedAreGone ==
  /\ registered \cap closed = {}
  /\ closed \subseteq cancelled
  /\ \A w \in Watches : loop[w] = "off" => w \notin cancelled

LEMMA InitClosed == Init => ClosedAreGone
BY DEF Init, RingInit, ClosedAreGone

LEMMA NextClosed ==
  ASSUME RingTypes, ClosedAreGone, [Next]_vars
  PROVE  ClosedAreGone'
<1> USE DEF ClosedAreGone
<1>1. ASSUME NEW m \in Managers, ManagerStep(m)
      PROVE  ClosedAreGone'
  BY <1>1 DEF ManagerStep, NewRingManager, UpsertNode, RemoveNode, Persist, watchVars
<1>2. ASSUME NEW w \in Watches, WatchStep(w)
      PROVE  ClosedAreGone'
  <2>1. CASE RemoveWatcher(w) \/ CloseInbox(w)
    BY <2>1 DEF RemoveWatcher, CloseInbox
  <2>2. CASE Receive(w) \/ ApplyState(w) \/ Emit(w) \/ Stop(w)
    BY <2>2 DEF Receive, ApplyState, Emit, Stop, RingTypes
  <2> QED
    BY <1>2, <2>1, <2>2 DEF WatchStep
<1>3. ASSUME NEW w \in Watches, Run(w) \/ RunStep(w)
      PROVE  ClosedAreGone'
  BY <1>3 DEF Run, Watch, RunStep, StartPlan, PlanDone, PlanFails, Return, ringVars,
              watchVars, RingTypes
<1>4. ASSUME NEW w \in Watches, Cancel(w)
      PROVE  ClosedAreGone'
  BY <1>4 DEF Cancel
<1>5. CASE UNCHANGED vars
  BY <1>5 DEF vars, ringVars, watchVars
<1> QED
  BY <1>1, <1>2, <1>3, <1>4, <1>5 DEF Next

\* NoSendOnClosedChannel for any managers, watches and capacities.
THEOREM NeverSendsOnClosed == Spec => []NoSendOnClosedChannel
<1>1. Init => RingTypes /\ ClosedAreGone
  BY InitTypes, InitClosed
<1>2. RingTypes /\ ClosedAreGone /\ [Next]_vars => RingTypes' /\ ClosedAreGone'
  BY NextTypes, NextClosed
<1>3. ClosedAreGone => NoSendOnClosedChannel
  BY DEF ClosedAreGone, NoSendOnClosedChannel
<1> QED
  BY <1>1, <1>2, <1>3, PTL DEF Spec
-----------------------------------------------------------------------------
\* What a watch holds is in the order of etcd's revisions: the last plan, the
\* events, the response in the goroutine's hands, the responses in the inbox.
Ascending(queue) ==
  \A i, j \in 1..Len(queue) : i < j => queue[i].revision < queue[j].revision

PipelineOrdered ==
  \A w \in Watches :
    /\ Ascending(events[w])
    /\ Ascending(inbox[w])
    /\ plan[w].revision <= current[w].revision
    /\ current[w].revision <= etcd.revision
    /\ \A i \in 1..Len(events[w]) :
         /\ plan[w].revision < events[w][i].revision
         /\ events[w][i].revision <= current[w].revision
    /\ \A i \in 1..Len(inbox[w]) :
         /\ current[w].revision < inbox[w][i].revision
         /\ inbox[w][i].revision <= etcd.revision
    /\ loop[w] \in {"apply", "send"} =>
         /\ plan[w].revision < current[w].revision
         /\ \A i \in 1..Len(events[w]) : events[w][i].revision < current[w].revision

LEMMA InitOrdered == Init => PipelineOrdered
<1> SUFFICES ASSUME Init, NEW w \in Watches
             PROVE  PipelineOrdered!(w)
  BY DEF PipelineOrdered
<1>1. etcd.revision \in Nat
  BY InitTypes DEF RingTypes
<1> QED
  BY <1>1 DEF Init, RingInit, NoResponse, Ascending

\* A channel takes a response that is newer than all it holds at its end, or
\* drops it.
LEMMA DeliverKeepsOrder ==
  ASSUME NEW queue \in Seq(Responses), NEW r \in Responses, Ascending(queue),
         \A i \in 1..Len(queue) : queue[i].revision < r.revision
  PROVE  /\ Ascending(Deliver(queue, r))
         /\ \A i \in 1..Len(Deliver(queue, r)) :
              \/ i \in 1..Len(queue) /\ Deliver(queue, r)[i] = queue[i]
              \/ Deliver(queue, r)[i] = r
BY DEF Deliver, Ascending

\* Reading from the front keeps the order of the rest, and the front is the
\* oldest.
LEMMA TailKeepsOrder ==
  ASSUME NEW queue \in Seq(Responses), queue # <<>>, Ascending(queue)
  PROVE  /\ Ascending(Tail(queue))
         /\ \A i \in 1..Len(Tail(queue)) :
              /\ i + 1 \in 1..Len(queue)
              /\ Tail(queue)[i] = queue[i + 1]
              /\ Head(queue).revision < Tail(queue)[i].revision
         /\ Head(queue) = queue[1] /\ 1 \in 1..Len(queue) /\ Head(queue) \in Responses
BY DEF Ascending

LEMMA RevisionsAreNumbers ==
  ASSUME NEW queue \in Seq(Responses)
  PROVE  \A i \in 1..Len(queue) : queue[i] \in Responses /\ queue[i].revision \in Nat
<1>1. ASSUME NEW i \in 1..Len(queue) PROVE queue[i] \in Responses
  OBVIOUS
<1> QED
  BY <1>1 DEF Responses

LEMMA PersistOrdered ==
  ASSUME RingTypes, PipelineOrdered, NEW m \in Managers, NEW nodes \in SUBSET Nodes,
         Persist(m, nodes), UNCHANGED <<run, plan>>
  PROVE  PipelineOrdered'
<1> DEFINE next == [version |-> state[m].version + 1, nodes |-> nodes]
           r == [value |-> next, revision |-> etcd'.revision]
<1>1. next \in States
  BY DEF RingTypes, States
<1>2. etcd'.revision = etcd.revision + 1
  BY <1>1, OpPutStores DEF Persist
<1>3. r \in Responses
  BY <1>1, <1>2 DEF Responses, RingTypes
<1>4. inbox' = [w \in Watches |-> IF w \in registered THEN Deliver(inbox[w], r) ELSE inbox[w]]
  BY DEF Persist, Notify
<1>5. r.revision = etcd.revision + 1
  BY <1>2
<1> HIDE DEF r
<1> SUFFICES ASSUME NEW w \in Watches
             PROVE  PipelineOrdered!(w)'
  BY DEF PipelineOrdered
<1>6. /\ UNCHANGED <<loop, current, events, plan>>
      /\ etcd.revision \in Nat /\ inbox[w] \in Seq(Responses) /\ current[w].revision \in Nat
      /\ PipelineOrdered!(w)
  BY DEF Persist, RingTypes, Responses, PipelineOrdered
<1>7. \A i \in 1..Len(inbox[w]) : inbox[w][i].revision \in Nat
  BY <1>6, RevisionsAreNumbers
<1>8. CASE w \in registered
  <2>1. inbox'[w] = Deliver(inbox[w], r)
    BY <1>4, <1>8
  <2>2. \A i \in 1..Len(inbox[w]) : inbox[w][i].revision < r.revision
    BY <1>5, <1>6, <1>7
  <2>3. /\ Ascending(inbox'[w])
        /\ \A i \in 1..Len(inbox'[w]) :
             \/ i \in 1..Len(inbox[w]) /\ inbox'[w][i] = inbox[w][i]
             \/ inbox'[w][i] = r
    BY <2>1, <2>2, <1>3, <1>6, DeliverKeepsOrder
  <2>4. \A i \in 1..Len(inbox'[w]) :
          /\ current[w].revision < inbox'[w][i].revision
          /\ inbox'[w][i].revision <= etcd'.revision
    BY <2>3, <1>2, <1>5, <1>6, <1>7
  <2>5. current[w].revision <= etcd'.revision
    BY <1>2, <1>6
  <2> QED
    BY <2>3, <2>4, <2>5, <1>6
<1>9. CASE w \notin registered
  <2>1. inbox'[w] = inbox[w]
    BY <1>4, <1>9
  <2> QED
    BY <2>1, <1>2, <1>6, <1>7
<1> QED
  BY <1>8, <1>9

LEMMA WatchOrdered ==
  ASSUME RingTypes, PipelineOrdered, NEW w \in Watches, WatchStep(w), UNCHANGED <<run, plan>>
  PROVE  PipelineOrdered'
<1>1. CASE RemoveWatcher(w) \/ CloseInbox(w)
  BY <1>1 DEF RemoveWatcher, CloseInbox, PipelineOrdered, Ascending
<1>2. CASE ApplyState(w) \/ Stop(w)
  <2>1. /\ UNCHANGED <<etcd, inbox, current, events, plan>>
        /\ \A v \in Watches : loop'[v] \in {"apply", "send"} => loop[v] \in {"apply", "send"}
    BY <1>2 DEF ApplyState, Stop, RingTypes
  <2> QED
    BY <2>1 DEF PipelineOrdered, Ascending
<1>3. CASE Receive(w)
  <2> SUFFICES ASSUME NEW v \in Watches
               PROVE  PipelineOrdered!(v)'
    BY DEF PipelineOrdered
  <2>1. PipelineOrdered!(v) /\ UNCHANGED <<etcd, events, plan>>
    BY <1>3 DEF PipelineOrdered, Receive
  <2>2. CASE v # w
    BY <1>3, <2>1, <2>2 DEF Receive, RingTypes, Ascending
  <2>3. CASE v = w
    <3>1. /\ inbox[w] \in Seq(Responses) /\ inbox[w] # <<>> /\ Ascending(inbox[w])
          /\ current'[w] = Head(inbox[w]) /\ inbox'[w] = Tail(inbox[w])
      BY <1>3, <2>1, <2>3 DEF Receive, RingTypes
    <3>2. /\ Ascending(inbox'[w])
          /\ \A i \in 1..Len(inbox'[w]) :
               /\ i + 1 \in 1..Len(inbox[w])
               /\ inbox'[w][i] = inbox[w][i + 1]
               /\ current'[w].revision < inbox'[w][i].revision
          /\ current'[w] = inbox[w][1] /\ 1 \in 1..Len(inbox[w])
          /\ current'[w] \in Responses
      BY <3>1, TailKeepsOrder
    <3>3. /\ current[w].revision < current'[w].revision
          /\ current'[w].revision <= etcd.revision
      BY <2>1, <2>3, <3>2
    <3>4. /\ current[w].revision \in Nat /\ current'[w].revision \in Nat
          /\ plan[w].revision \in Nat /\ etcd.revision \in Nat
      BY <3>2 DEF RingTypes, Responses
    <3>5. \A i \in 1..Len(events[w]) : events[w][i].revision \in Nat
      BY RevisionsAreNumbers DEF RingTypes
    <3>6. \A i \in 1..Len(inbox'[w]) : inbox'[w][i].revision <= etcd.revision
      BY <2>1, <2>3, <3>2
    <3>7. \A i \in 1..Len(inbox'[w]) : current'[w].revision < inbox'[w][i].revision
      BY <3>2
    <3>8. \A i \in 1..Len(events[w]) :
            /\ plan[w].revision < events[w][i].revision
            /\ events[w][i].revision < current'[w].revision
      BY <2>1, <2>3, <3>3, <3>4, <3>5
    <3>9. plan[w].revision < current'[w].revision
      BY <2>1, <2>3, <3>3, <3>4
    <3>10. \A i \in 1..Len(events[w]) : events[w][i].revision <= current'[w].revision
      BY <3>4, <3>5, <3>8
    <3>11. plan[w].revision <= current'[w].revision /\ Ascending(events[w])
      BY <2>1, <2>3, <3>4, <3>9
    <3>12. UNCHANGED <<etcd, events, plan>>
      BY <2>1
    <3> QED
      BY <2>3, <3>2, <3>3, <3>6, <3>7, <3>8, <3>9, <3>10, <3>11, <3>12
  <2> QED
    BY <2>2, <2>3
<1>4. CASE Emit(w)
  <2> SUFFICES ASSUME NEW v \in Watches
               PROVE  PipelineOrdered!(v)'
    BY DEF PipelineOrdered
  <2>1. PipelineOrdered!(v) /\ UNCHANGED <<etcd, inbox, current, plan>>
    BY <1>4 DEF PipelineOrdered, Emit
  <2>2. CASE v # w
    BY <1>4, <2>1, <2>2 DEF Emit, RingTypes, Ascending
  <2>3. CASE v = w
    <3>1. /\ events[w] \in Seq(Responses) /\ current[w] \in Responses
          /\ events'[w] = Append(events[w], current[w])
          /\ loop[w] = "send" /\ loop'[w] = "receive"
      BY <1>4 DEF Emit, RingTypes
    <3>2. \A i \in 1..Len(events[w]) : events[w][i].revision < current[w].revision
      BY <2>1, <2>3, <3>1
    <3>3. /\ Len(events'[w]) = Len(events[w]) + 1
          /\ events'[w][Len(events[w]) + 1] = current[w]
          /\ \A i \in 1..Len(events[w]) : events'[w][i] = events[w][i]
      BY <3>1
    <3>4. Ascending(events'[w])
      BY <2>1, <2>3, <3>1, <3>2, <3>3 DEF Ascending
    <3>5. plan[w].revision < current[w].revision /\ current[w].revision \in Nat
      BY <2>1, <2>3, <3>1 DEF Responses
    <3>6. \A i \in 1..Len(events'[w]) :
            /\ plan[w].revision < events'[w][i].revision
            /\ events'[w][i].revision <= current[w].revision
      BY <2>1, <2>3, <3>1, <3>3, <3>5
    <3> QED
      BY <2>1, <2>3, <3>1, <3>4, <3>6
  <2> QED
    BY <2>2, <2>3
<1> QED
  BY <1>1, <1>2, <1>3, <1>4 DEF WatchStep

\* A plan is the oldest event.
LEMMA StartPlanOrdered ==
  ASSUME RingTypes, PipelineOrdered, NEW w \in Watches, StartPlan(w)
  PROVE  PipelineOrdered' /\ plan[w].revision < plan'[w].revision
<1>1. /\ events[w] \in Seq(Responses) /\ events[w] # <<>> /\ Ascending(events[w])
      /\ plan' = [plan EXCEPT ![w] = Head(events[w])]
      /\ events' = [events EXCEPT ![w] = Tail(@)]
      /\ UNCHANGED <<etcd, inbox, loop, current>>
  BY DEF StartPlan, RingTypes, PipelineOrdered
<1>2. plan'[w] = Head(events[w]) /\ events'[w] = Tail(events[w])
  BY <1>1 DEF RingTypes
<1>3. /\ Ascending(events'[w])
      /\ \A i \in 1..Len(events'[w]) :
           /\ i + 1 \in 1..Len(events[w])
           /\ events'[w][i] = events[w][i + 1]
           /\ plan'[w].revision < events'[w][i].revision
      /\ plan'[w] = events[w][1] /\ 1 \in 1..Len(events[w])
  BY <1>1, <1>2, TailKeepsOrder
<1>4. PipelineOrdered!(w)
  BY DEF PipelineOrdered
<1>5. plan[w].revision < plan'[w].revision
  BY <1>3, <1>4
<1>6. ASSUME NEW v \in Watches PROVE PipelineOrdered!(v)'
  <2>1. CASE v # w
    <3>1. plan'[v] = plan[v] /\ events'[v] = events[v] /\ PipelineOrdered!(v)
      BY <1>1, <2>1 DEF RingTypes, PipelineOrdered
    <3> QED
      BY <1>1, <3>1 DEF Ascending
  <2>2. CASE v = w
    <3>1. Ascending(inbox'[w])
      BY <1>1, <1>4
    <3>2. plan'[w].revision <= current'[w].revision
      BY <1>1, <1>3, <1>4
    <3>3. \A i \in 1..Len(events'[w]) : events'[w][i].revision <= current'[w].revision
      BY <1>1, <1>3, <1>4
    <3>4. loop'[w] \in {"apply", "send"} =>
            /\ plan'[w].revision < current'[w].revision
            /\ \A i \in 1..Len(events'[w]) : events'[w][i].revision < current'[w].revision
      BY <1>1, <1>3, <1>4
    <3> QED
      BY <1>1, <1>3, <1>4, <2>2, <3>1, <3>2, <3>3, <3>4
  <2> QED
    BY <2>1, <2>2
<1> QED
  BY <1>5, <1>6 DEF PipelineOrdered

LEMMA NextOrdered ==
  ASSUME RingTypes, PipelineOrdered, [Next]_vars
  PROVE  PipelineOrdered'
<1>1. ASSUME NEW m \in Managers, ManagerStep(m), UNCHANGED <<run, plan>>
      PROVE  PipelineOrdered'
  <2>1. CASE NewRingManager(m)
    BY <2>1, <1>1 DEF NewRingManager, watchVars, PipelineOrdered, Ascending
  <2>2. CASE UpsertNode(m)
    <3>1. PICK n \in Nodes : Persist(m, state[m].nodes \cup {n})
      BY <2>2 DEF UpsertNode
    <3>2. state[m].nodes \cup {n} \in SUBSET Nodes
      BY DEF RingTypes, States
    <3> QED
      BY <3>1, <3>2, <1>1, PersistOrdered
  <2>3. CASE RemoveNode(m)
    <3>1. PICK n \in state[m].nodes : Persist(m, state[m].nodes \ {n})
      BY <2>3 DEF RemoveNode
    <3>2. state[m].nodes \ {n} \in SUBSET Nodes
      BY DEF RingTypes, States
    <3> QED
      BY <3>1, <3>2, <1>1, PersistOrdered
  <2> QED
    BY <1>1, <2>1, <2>2, <2>3 DEF ManagerStep
<1>2. ASSUME NEW w \in Watches, Run(w)
      PROVE  PipelineOrdered'
  <2>1. /\ UNCHANGED <<etcd, inbox, current, events, plan>>
        /\ \A v \in Watches : loop'[v] \in {"apply", "send"} => loop[v] \in {"apply", "send"}
    BY <1>2 DEF Run, Watch, RingTypes
  <2> QED
    BY <2>1 DEF PipelineOrdered, Ascending
<1>3. ASSUME NEW w \in Watches, PlanDone(w) \/ PlanFails(w) \/ Return(w) \/ Cancel(w),
             UNCHANGED plan
      PROVE  PipelineOrdered'
  BY <1>3 DEF PlanDone, PlanFails, Return, Cancel, ringVars, watchVars, PipelineOrdered,
              Ascending
<1>4. CASE UNCHANGED vars
  BY <1>4 DEF vars, ringVars, watchVars, PipelineOrdered, Ascending
<1>5. ASSUME NEW w \in Watches, RunStep(w) \/ (Cancel(w) /\ UNCHANGED <<run, plan>>)
      PROVE  PipelineOrdered'
  BY <1>3, <1>5, StartPlanOrdered DEF RunStep, PlanDone, PlanFails, Return
<1> QED
  BY <1>1, <1>2, <1>4, <1>5, WatchOrdered DEF Next

\* PlansInOrder, for any number of watches, also on one manager, and whatever
\* is dropped at a full channel.
THEOREM PlansAreOrdered == Spec => PlansInOrder
<1>1. RingTypes /\ PipelineOrdered /\ [Next]_vars => RingTypes' /\ PipelineOrdered'
  BY NextTypes, NextOrdered
<1>2. Spec => [](RingTypes /\ PipelineOrdered)
  BY <1>1, InitTypes, InitOrdered, PTL DEF Spec
<1>3. ASSUME RingTypes, PipelineOrdered, [Next]_vars, NEW w \in Watches, plan'[w] # plan[w]
      PROVE  plan'[w].revision > plan[w].revision
  <2>1. PICK v \in Watches : StartPlan(v)
    BY <1>3 DEF Next, ManagerStep, NewRingManager, UpsertNode, RemoveNode, Run, RunStep,
                PlanDone, PlanFails, Return, vars
  <2>2. v = w
    BY <1>3, <2>1 DEF StartPlan, RingTypes
  <2>3. plan[w].revision < plan'[w].revision
    BY <1>3, <2>1, <2>2, StartPlanOrdered
  <2>4. plan[w].revision \in Nat /\ plan'[w].revision \in Nat
    BY <1>3, NextTypes DEF RingTypes, Responses
  <2> QED
    BY <2>3, <2>4
<1>4. RingTypes /\ PipelineOrdered /\ [Next]_vars =>
        [\A w \in Watches : plan'[w] # plan[w] => plan'[w].revision > plan[w].revision]_vars
  BY <1>3
<1> QED
  BY <1>2, <1>4, PTL DEF Spec, PlansInOrder
-----------------------------------------------------------------------------
\* Every manager is watched by at most one caller, as in cmd/storage-admin.
OneWatchEach == \A v, w \in Watches : Owner[v] = Owner[w] => v = w

\* A manager's state is at least as new as anything its watch has passed on,
\* and as the response in the goroutine's hands once that is applied.
AppliedFirst ==
  /\ etcd.kv[RingKey].modRevision <= etcd.revision
  /\ \A m \in Managers : source[m] <= etcd.revision
  /\ \A w \in Watches :
       /\ loop[w] = "off" =>
            plan[w].revision = 0 /\ events[w] = <<>> /\ current[w].revision = 0
       /\ loop[w] # "off" => Owner[w] \in up
       /\ plan[w].revision <= source[Owner[w]]
       /\ \A i \in 1..Len(events[w]) : events[w][i].revision <= source[Owner[w]]
       /\ loop[w] \in {"receive", "send"} => current[w].revision <= source[Owner[w]]

LEMMA InitApplied == Init => AppliedFirst
<1> SUFFICES ASSUME Init PROVE AppliedFirst
  OBVIOUS
<1>1. RingTypes
  BY InitTypes
<1>2. etcd.kv[RingKey].modRevision <= etcd.revision
  BY DEF Init, RingInit, Etcd!New, Etcd!OpPut, Etcd!Absent
<1> QED
  BY <1>1, <1>2, OwnerAssumption DEF Init, RingInit, NoResponse, AppliedFirst, RingTypes

LEMMA NumbersOf ==
  ASSUME RingTypes, NEW w \in Watches
  PROVE  /\ etcd.revision \in Nat /\ etcd.kv[RingKey].modRevision \in Nat
         /\ Owner[w] \in Managers /\ source[Owner[w]] \in Nat
         /\ plan[w].revision \in Nat /\ current[w].revision \in Nat
         /\ \A i \in 1..Len(events[w]) : events[w][i].revision \in Nat
<1>1. \A i \in 1..Len(events[w]) : events[w][i].revision \in Nat
  BY RevisionsAreNumbers DEF RingTypes
<1> QED
  BY <1>1, OwnerAssumption DEF RingTypes, Responses

LEMMA PersistApplied ==
  ASSUME RingTypes, PipelineOrdered, AppliedFirst, NEW m \in Managers,
         NEW nodes \in SUBSET Nodes, Persist(m, nodes), UNCHANGED <<run, plan>>
  PROVE  AppliedFirst'
<1> DEFINE next == [version |-> state[m].version + 1, nodes |-> nodes]
<1>1. next \in States
  BY DEF RingTypes, States
<1>2. etcd'.revision = etcd.revision + 1 /\ etcd'.kv[RingKey].modRevision = etcd.revision + 1
  BY <1>1 DEF Persist, Etcd!OpPut, RingTypes
<1>3. /\ source' = [source EXCEPT ![m] = etcd.revision + 1]
      /\ UNCHANGED <<up, loop, current, events, plan>>
  BY <1>2 DEF Persist
<1>4. \A k \in Managers : source[k] \in Nat /\ source'[k] \in Nat /\ source[k] <= source'[k]
                          /\ source'[k] <= etcd'.revision
  BY <1>2, <1>3 DEF RingTypes, AppliedFirst
<1>5. ASSUME NEW w \in Watches PROVE AppliedFirst!3!(w)'
  <2>1. AppliedFirst!3!(w)
    BY DEF AppliedFirst
  <2> QED
    BY <1>3, <1>4, <2>1, NumbersOf
<1> QED
  BY <1>2, <1>4, <1>5, PersistTypes DEF AppliedFirst, RingTypes

LEMMA WatchApplied ==
  ASSUME RingTypes, PipelineOrdered, AppliedFirst, OneWatchEach,
         NEW w \in Watches, WatchStep(w), UNCHANGED <<run, plan>>
  PROVE  AppliedFirst'
<1>1. CASE RemoveWatcher(w) \/ CloseInbox(w)
  BY <1>1 DEF RemoveWatcher, CloseInbox, AppliedFirst
<1>2. CASE Receive(w) \/ Stop(w)
  <2>1. /\ UNCHANGED <<etcd, up, source, events, plan>>
        /\ \A v \in Watches :
             /\ loop'[v] = "off" <=> loop[v] = "off"
             /\ loop'[v] \in {"receive", "send"} => loop[v] = loop'[v]
             /\ loop'[v] \in {"off", "receive", "send"} => current'[v] = current[v]
    BY <1>2 DEF Receive, Stop, RingTypes
  <2> QED
    BY <2>1 DEF AppliedFirst
<1>3. CASE ApplyState(w)
  <2>1. /\ UNCHANGED <<etcd, up, current, events, plan>>
        /\ source' = [source EXCEPT ![Owner[w]] = current[w].revision]
        /\ loop[w] = "apply" /\ loop' = [loop EXCEPT ![w] = "send"]
    BY <1>3 DEF ApplyState
  <2>2. \A m \in Managers : source'[m] <= etcd'.revision
    BY <2>1, NumbersOf DEF RingTypes, AppliedFirst, PipelineOrdered
  <2>3. ASSUME NEW v \in Watches PROVE AppliedFirst!3!(v)'
    <3>1. CASE v = w
      BY <2>1, <3>1, NumbersOf DEF AppliedFirst, PipelineOrdered, RingTypes
    <3>2. CASE v # w
      <4>1. source'[Owner[v]] = source[Owner[v]]
        BY <2>1, <3>2, NumbersOf DEF OneWatchEach, RingTypes
      <4>2. loop'[v] = loop[v] /\ AppliedFirst!3!(v)
        BY <2>1, <3>2 DEF RingTypes, AppliedFirst
      <4> QED
        BY <2>1, <4>1, <4>2
    <3> QED
      BY <3>1, <3>2
  <2> QED
    BY <2>1, <2>2, <2>3 DEF AppliedFirst
<1>4. CASE Emit(w)
  <2>1. /\ UNCHANGED <<etcd, up, source, current, plan>>
        /\ events' = [events EXCEPT ![w] = Append(@, current[w])]
        /\ loop[w] = "send" /\ loop' = [loop EXCEPT ![w] = "receive"]
    BY <1>4 DEF Emit
  <2>2. ASSUME NEW v \in Watches PROVE AppliedFirst!3!(v)'
    <3>1. AppliedFirst!3!(v)
      BY DEF AppliedFirst
    <3>2. CASE v # w
      BY <2>1, <3>1, <3>2 DEF RingTypes
    <3>3. CASE v = w
      <4>1. /\ events'[w] = Append(events[w], current[w])
            /\ events[w] \in Seq(Responses) /\ current[w] \in Responses
        BY <2>1 DEF RingTypes
      <4>2. \A i \in 1..Len(events'[w]) :
              (i \in 1..Len(events[w]) /\ events'[w][i] = events[w][i])
                \/ events'[w][i] = current[w]
        BY <4>1
      <4>3. \A i \in 1..Len(events'[w]) : events'[w][i].revision <= source'[Owner[w]]
        BY <2>1, <3>1, <3>3, <4>2
      <4> QED
        BY <2>1, <3>1, <3>3, <4>3 DEF RingTypes
    <3> QED
      BY <3>2, <3>3
  <2> QED
    BY <2>1, <2>2 DEF AppliedFirst
<1> QED
  BY <1>1, <1>2, <1>3, <1>4 DEF WatchStep

LEMMA NextApplied ==
  ASSUME RingTypes, PipelineOrdered, AppliedFirst, OneWatchEach, [Next]_vars
  PROVE  AppliedFirst'
<1>1. ASSUME NEW m \in Managers, NewRingManager(m), UNCHANGED <<run, plan>>
      PROVE  AppliedFirst'
  <2>1. /\ m \notin up /\ up' = up \cup {m}
        /\ source' = [source EXCEPT ![m] = etcd.kv[RingKey].modRevision]
        /\ UNCHANGED <<etcd, loop, current, events, plan>>
    BY <1>1 DEF NewRingManager, watchVars
  <2>2. \A k \in Managers : source'[k] <= etcd'.revision
    BY <2>1 DEF RingTypes, AppliedFirst
  <2>3. ASSUME NEW w \in Watches PROVE AppliedFirst!3!(w)'
    <3>1. AppliedFirst!3!(w)
      BY DEF AppliedFirst
    <3>2. CASE Owner[w] = m
      <4>1. loop[w] = "off" /\ plan[w].revision = 0 /\ events[w] = <<>>
            /\ current[w].revision = 0
        BY <2>1, <3>1, <3>2
      <4>2. source'[Owner[w]] \in Nat
        BY <2>1, <3>2, NumbersOf DEF RingTypes
      <4> QED
        BY <2>1, <3>1, <4>1, <4>2
    <3>3. CASE Owner[w] # m
      BY <2>1, <3>1, <3>3, NumbersOf DEF RingTypes
    <3> QED
      BY <3>2, <3>3
  <2> QED
    BY <2>1, <2>2, <2>3 DEF AppliedFirst
<1>2. ASSUME NEW m \in Managers, UpsertNode(m) \/ RemoveNode(m), UNCHANGED <<run, plan>>
      PROVE  AppliedFirst'
  <2>1. PICK nodes \in SUBSET Nodes : Persist(m, nodes)
    <3>1. \A n \in Nodes : state[m].nodes \cup {n} \in SUBSET Nodes
                           /\ state[m].nodes \ {n} \in SUBSET Nodes
      BY DEF RingTypes, States
    <3>2. state[m].nodes \in SUBSET Nodes
      BY DEF RingTypes, States
    <3> QED
      BY <1>2, <3>1, <3>2 DEF UpsertNode, RemoveNode
  <2> QED
    BY <1>2, <2>1, PersistApplied
<1>3. ASSUME NEW w \in Watches, Run(w)
      PROVE  AppliedFirst'
  <2>1. /\ UNCHANGED <<etcd, up, source, current, events, plan>>
        /\ loop[w] = "off" /\ Owner[w] \in up /\ loop' = [loop EXCEPT ![w] = "receive"]
    BY <1>3 DEF Run, Watch
  <2>2. ASSUME NEW v \in Watches PROVE AppliedFirst!3!(v)'
    <3>1. AppliedFirst!3!(v)
      BY DEF AppliedFirst
    <3>2. 0 <= source[Owner[v]]
      BY NumbersOf
    <3> QED
      BY <2>1, <3>1, <3>2 DEF RingTypes
  <2> QED
    BY <2>1, <2>2 DEF AppliedFirst
<1>4. ASSUME NEW w \in Watches, StartPlan(w)
      PROVE  AppliedFirst'
  <2>1. /\ events[w] \in Seq(Responses) /\ events[w] # <<>> /\ Ascending(events[w])
        /\ plan' = [plan EXCEPT ![w] = Head(events[w])]
        /\ events' = [events EXCEPT ![w] = Tail(@)]
        /\ UNCHANGED <<etcd, up, source, loop, current>>
    BY <1>4 DEF StartPlan, RingTypes, PipelineOrdered
  <2>2. plan'[w] = Head(events[w]) /\ events'[w] = Tail(events[w])
    BY <2>1 DEF RingTypes
  <2>3. /\ \A i \in 1..Len(events'[w]) :
             i + 1 \in 1..Len(events[w]) /\ events'[w][i] = events[w][i + 1]
        /\ plan'[w] = events[w][1] /\ 1 \in 1..Len(events[w])
    BY <2>1, <2>2, TailKeepsOrder
  <2>4. ASSUME NEW v \in Watches PROVE AppliedFirst!3!(v)'
    <3>1. AppliedFirst!3!(v)
      BY DEF AppliedFirst
    <3>2. CASE v # w
      BY <2>1, <3>1, <3>2 DEF RingTypes
    <3>3. CASE v = w
      BY <2>1, <2>3, <3>1, <3>3
    <3> QED
      BY <3>2, <3>3
  <2> QED
    BY <2>1, <2>4 DEF AppliedFirst
<1>5. ASSUME NEW w \in Watches, PlanDone(w) \/ PlanFails(w) \/ Return(w) \/ Cancel(w),
             UNCHANGED plan
      PROVE  AppliedFirst'
  BY <1>5 DEF PlanDone, PlanFails, Return, Cancel, ringVars, watchVars, AppliedFirst
<1>6. CASE UNCHANGED vars
  BY <1>6 DEF vars, ringVars, watchVars, AppliedFirst
<1>7. ASSUME NEW w \in Watches, RunStep(w) \/ (Cancel(w) /\ UNCHANGED <<run, plan>>)
      PROVE  AppliedFirst'
  BY <1>4, <1>5, <1>7 DEF RunStep, PlanDone, PlanFails, Return
<1> QED
  BY <1>1, <1>2, <1>3, <1>6, <1>7, WatchApplied DEF Next, ManagerStep

\* LookupAfterEvent, for any number of managers that are watched by one caller
\* each, though others, and they themselves, go on writing.
THEOREM LookupIsNotBehind ==
  ASSUME OneWatchEach
  PROVE  Spec => []LookupAfterEvent
<1> DEFINE Inv == RingTypes /\ PipelineOrdered /\ AppliedFirst
<1>1. Init => Inv
  BY InitTypes, InitOrdered, InitApplied
<1>2. Inv /\ [Next]_vars => Inv'
  BY NextTypes, NextOrdered, NextApplied
<1>3. Inv => LookupAfterEvent
  BY NumbersOf DEF AppliedFirst, LookupAfterEvent
<1> QED
  BY <1>1, <1>2, <1>3, PTL DEF Spec
-----------------------------------------------------------------------------
\* Whatever carries etcd's latest revision, a manager's state, a response in a
\* goroutine's hands or one in an inbox, is the ring that is stored.
Sourced ==
  /\ etcd.kv[RingKey].modRevision = etcd.revision
  /\ etcd.revision > 0 => Stored # NoState
  /\ \A m \in Managers :
       /\ source[m] <= etcd.revision
       /\ source[m] = etcd.revision => state[m] = Bootstrap
  /\ \A w \in Watches :
       /\ current[w].revision = etcd.revision => current[w].value = Bootstrap
       /\ \A i \in 1..Len(inbox[w]) :
            inbox[w][i].revision = etcd.revision => inbox[w][i].value = Bootstrap

LEMMA InitSourced == Init => Sourced
<1> SUFFICES ASSUME Init PROVE Sourced
  OBVIOUS
<1>1. /\ state = [m \in Managers |-> Empty] /\ source = [m \in Managers |-> 0]
      /\ inbox = [w \in Watches |-> <<>>] /\ current = [w \in Watches |-> NoResponse]
  BY DEF Init, RingInit
<1>2. CASE etcd = Etcd!New({RingKey})
  <2>1. etcd.revision = 0 /\ etcd.kv[RingKey].modRevision = 0 /\ Bootstrap = Empty
    BY <1>2 DEF Etcd!New, Etcd!Absent, Bootstrap, Stored
  <2> QED
    BY <1>1, <2>1 DEF Sourced, NoResponse
<1>3. ASSUME NEW S \in SUBSET Nodes,
             etcd = Etcd!OpPut(Etcd!New({RingKey}), RingKey, [version |-> 1, nodes |-> S])
      PROVE  Sourced
  <2>1. /\ etcd.revision = 1 /\ etcd.kv[RingKey].modRevision = 1
        /\ Stored = [version |-> 1, nodes |-> S]
    BY <1>3 DEF Etcd!New, Etcd!Absent, Etcd!OpPut, Stored
  <2>2. Stored # NoState
    BY <2>1, NoStateAssumption DEF States
  <2> QED
    BY <1>1, <2>1, <2>2 DEF Sourced, NoResponse
<1> QED
  BY <1>2, <1>3 DEF Init, RingInit

\* A write is the only one to carry its revision, and carries what it stored.
LEMMA WriteIsStored ==
  ASSUME RingTypes, NEW m \in Managers, NEW nodes \in SUBSET Nodes, Persist(m, nodes)
  PROVE  LET next == [version |-> state[m].version + 1, nodes |-> nodes]
         IN  /\ etcd.revision \in Nat /\ etcd'.revision = etcd.revision + 1
             /\ etcd'.kv[RingKey].modRevision = etcd'.revision
             /\ Stored' = next /\ Stored' # NoState /\ Bootstrap' = next
             /\ state' = [state EXCEPT ![m] = next]
             /\ source' = [source EXCEPT ![m] = etcd'.revision]
             /\ [value |-> next, revision |-> etcd'.revision] \in Responses
<1> DEFINE next == [version |-> state[m].version + 1, nodes |-> nodes]
<1>1. next \in States
  BY DEF RingTypes, States
<1>2. etcd' = Etcd!OpPut(etcd, RingKey, next)
  BY DEF Persist
<1>3. etcd.revision \in Nat /\ etcd'.revision = etcd.revision + 1 /\ Stored' = next
  BY <1>1, <1>2, OpPutStores DEF Stored, RingTypes
<1>4. etcd'.kv[RingKey].modRevision = etcd'.revision
  BY <1>2 DEF Etcd!OpPut, RingTypes
<1>5. Stored' # NoState /\ Bootstrap' = next
  BY <1>1, <1>3, NoStateAssumption DEF Bootstrap
<1>6. /\ state' = [state EXCEPT ![m] = next]
      /\ source' = [source EXCEPT ![m] = etcd'.revision]
  BY DEF Persist
<1>7. [value |-> next, revision |-> etcd'.revision] \in Responses
  BY <1>1, <1>3 DEF Responses
<1> QED
  BY <1>3, <1>4, <1>5, <1>6, <1>7

LEMMA PersistSourced ==
  ASSUME RingTypes, PipelineOrdered, Sourced, NEW m \in Managers,
         NEW nodes \in SUBSET Nodes, Persist(m, nodes)
  PROVE  Sourced'
<1> DEFINE next == [version |-> state[m].version + 1, nodes |-> nodes]
           r == [value |-> next, revision |-> etcd'.revision]
<1>1. /\ etcd.revision \in Nat /\ etcd'.revision = etcd.revision + 1
      /\ etcd'.kv[RingKey].modRevision = etcd'.revision
      /\ Stored' # NoState /\ Bootstrap' = next
      /\ state' = [state EXCEPT ![m] = next]
      /\ source' = [source EXCEPT ![m] = etcd'.revision]
      /\ r \in Responses
  BY WriteIsStored
<1>2. r.value = Bootstrap' /\ r.revision = etcd'.revision
  BY <1>1
<1>3. current' = current
      /\ inbox' = [w \in Watches |-> IF w \in registered THEN Deliver(inbox[w], r) ELSE inbox[w]]
  BY DEF Persist, Notify
<1> HIDE DEF r
<1>4. ASSUME NEW k \in Managers
      PROVE  source'[k] <= etcd'.revision /\ (source'[k] = etcd'.revision => state'[k] = Bootstrap')
  <2>1. source[k] \in Nat /\ source[k] <= etcd.revision
    BY DEF RingTypes, Sourced
  <2>2. CASE k = m
    BY <1>1, <2>2 DEF RingTypes
  <2>3. CASE k # m
    <3>1. source'[k] = source[k]
      BY <1>1, <2>3 DEF RingTypes
    <3> QED
      BY <1>1, <2>1, <3>1
  <2> QED
    BY <2>2, <2>3
<1>5. ASSUME NEW w \in Watches
      PROVE  /\ current'[w].revision = etcd'.revision => current'[w].value = Bootstrap'
             /\ \A i \in 1..Len(inbox'[w]) :
                  inbox'[w][i].revision = etcd'.revision => inbox'[w][i].value = Bootstrap'
  <2>1. /\ inbox[w] \in Seq(Responses) /\ Ascending(inbox[w])
        /\ current[w].revision \in Nat /\ current[w].revision <= etcd.revision
        /\ \A i \in 1..Len(inbox[w]) : inbox[w][i].revision <= etcd.revision
    BY DEF RingTypes, Responses, PipelineOrdered
  <2>2. \A i \in 1..Len(inbox[w]) :
          inbox[w][i].revision \in Nat /\ inbox[w][i].revision < etcd'.revision
    BY <1>1, <2>1, RevisionsAreNumbers
  <2>3. current'[w].revision # etcd'.revision
    BY <1>1, <1>3, <2>1
  <2>4. CASE w \in registered
    <3>1. inbox'[w] = Deliver(inbox[w], r)
      BY <1>3, <2>4
    <3>2. \A i \in 1..Len(inbox'[w]) :
            \/ i \in 1..Len(inbox[w]) /\ inbox'[w][i] = inbox[w][i]
            \/ inbox'[w][i] = r
      BY <1>1, <1>2, <2>1, <2>2, <3>1, DeliverKeepsOrder
    <3> QED
      BY <1>1, <1>2, <2>2, <2>3, <3>2
  <2>5. CASE w \notin registered
    <3>1. inbox'[w] = inbox[w]
      BY <1>3, <2>5
    <3> QED
      BY <1>1, <2>2, <2>3, <3>1
  <2> QED
    BY <2>4, <2>5
<1>6. etcd'.revision > 0 => Stored' # NoState
  BY <1>1
<1> QED
  BY <1>1, <1>4, <1>5, <1>6 DEF Sourced

\* A change of membership is a write of the manager's nodes with one more or
\* one less.
LEMMA ChangeIsPersist ==
  ASSUME RingTypes, NEW m \in Managers, UpsertNode(m) \/ RemoveNode(m)
  PROVE  \E nodes \in SUBSET Nodes : Persist(m, nodes)
<1>1. state[m].nodes \in SUBSET Nodes
  BY DEF RingTypes, States
<1>2. \A n \in Nodes : state[m].nodes \cup {n} \in SUBSET Nodes
  BY <1>1
<1>3. \A n \in state[m].nodes : state[m].nodes \ {n} \in SUBSET Nodes
  BY <1>1
<1> QED
  BY <1>2, <1>3 DEF UpsertNode, RemoveNode

LEMMA NextSourced ==
  ASSUME RingTypes, PipelineOrdered, Sourced, [Next]_vars
  PROVE  Sourced'
<1>1. ASSUME NEW m \in Managers, NewRingManager(m)
      PROVE  Sourced'
  <2>1. /\ state' = [state EXCEPT ![m] = Bootstrap]
        /\ source' = [source EXCEPT ![m] = etcd.kv[RingKey].modRevision]
        /\ UNCHANGED <<etcd, current, inbox>>
    BY <1>1 DEF NewRingManager, watchVars
  <2>2. Stored' = Stored /\ Bootstrap' = Bootstrap
    BY <2>1 DEF Stored, Bootstrap
  <2>3. source'[m] = etcd.revision /\ state'[m] = Bootstrap
    BY <2>1 DEF RingTypes, Sourced
  <2>4. \A k \in Managers : k # m => source'[k] = source[k] /\ state'[k] = state[k]
    BY <2>1 DEF RingTypes
  <2>5. etcd.revision <= etcd.revision
    BY DEF RingTypes
  <2> QED
    BY <2>1, <2>2, <2>3, <2>4, <2>5 DEF Sourced
<1>2. ASSUME NEW m \in Managers, UpsertNode(m) \/ RemoveNode(m)
      PROVE  Sourced'
  BY <1>2, ChangeIsPersist, PersistSourced
<1>3. ASSUME NEW w \in Watches, Receive(w)
      PROVE  Sourced'
  <2>1. /\ inbox[w] \in Seq(Responses) /\ inbox[w] # <<>> /\ Ascending(inbox[w])
        /\ current' = [current EXCEPT ![w] = Head(inbox[w])]
        /\ inbox' = [inbox EXCEPT ![w] = Tail(@)]
        /\ UNCHANGED <<etcd, state, source>>
    BY <1>3 DEF Receive, RingTypes, PipelineOrdered
  <2>2. Stored' = Stored /\ Bootstrap' = Bootstrap
    BY <2>1 DEF Stored, Bootstrap
  <2>3. /\ current'[w] = inbox[w][1] /\ 1 \in 1..Len(inbox[w])
        /\ \A i \in 1..Len(inbox'[w]) :
             i + 1 \in 1..Len(inbox[w]) /\ inbox'[w][i] = inbox[w][i + 1]
    BY <2>1, TailKeepsOrder DEF RingTypes
  <2>4. \A v \in Watches : v # w => current'[v] = current[v] /\ inbox'[v] = inbox[v]
    BY <2>1 DEF RingTypes
  <2>5. ASSUME NEW v \in Watches PROVE Sourced!4!(v)'
    <3>1. CASE v = w
      <4>1. \A i \in 1..Len(inbox[w]) :
              inbox[w][i].revision = etcd.revision => inbox[w][i].value = Bootstrap
        BY DEF Sourced
      <4> QED
        BY <2>1, <2>2, <2>3, <3>1, <4>1
    <3>2. CASE v # w
      BY <2>1, <2>2, <2>4, <3>2 DEF Sourced
    <3> QED
      BY <3>1, <3>2
  <2> QED
    BY <2>1, <2>2, <2>5 DEF Sourced
<1>4. ASSUME NEW w \in Watches, ApplyState(w)
      PROVE  Sourced'
  <2>1. /\ state' = [state EXCEPT ![Owner[w]] = current[w].value]
        /\ source' = [source EXCEPT ![Owner[w]] = current[w].revision]
        /\ UNCHANGED <<etcd, current, inbox>>
    BY <1>4 DEF ApplyState
  <2>2. Stored' = Stored /\ Bootstrap' = Bootstrap
    BY <2>1 DEF Stored, Bootstrap
  <2>3. source'[Owner[w]] = current[w].revision /\ state'[Owner[w]] = current[w].value
    BY <2>1, OwnerAssumption DEF RingTypes
  <2>4. \A k \in Managers : k # Owner[w] => source'[k] = source[k] /\ state'[k] = state[k]
    BY <2>1 DEF RingTypes
  <2>5. current[w].revision <= etcd.revision
    BY DEF PipelineOrdered
  <2> QED
    BY <2>1, <2>2, <2>3, <2>4, <2>5 DEF Sourced
<1>5. CASE UNCHANGED <<etcd, state, source, inbox, current>>
  BY <1>5 DEF Sourced, Bootstrap, Stored
<1> QED
  BY <1>1, <1>2, <1>3, <1>4, <1>5
  DEF Next, ManagerStep, WatchStep, Run, RunStep, Watch, Cancel, RemoveWatcher, CloseInbox,
      Emit, Stop, StartPlan, PlanDone, PlanFails, Return, vars, ringVars, watchVars

\* A manager that is not behind writes the stored ring with one node more or
\* one node less.
LEMMA WriterKeepsTheRest ==
  ASSUME RingTypes, Sourced, NEW m \in Managers, UpsertNode(m) \/ RemoveNode(m),
         ~Behind(m)
  PROVE  Astray' \subseteq Astray
<1>1. source[m] = etcd.revision
  BY DEF Sourced, Behind, RingTypes
<1>2. state[m].nodes = StoredNodes /\ state[m].nodes \in SUBSET Nodes
  <2>1. state[m] = Bootstrap
    BY <1>1 DEF Sourced
  <2>2. Bootstrap.nodes = StoredNodes
    BY DEF Bootstrap, StoredNodes, Empty
  <2>3. state[m].nodes \in SUBSET Nodes
    BY DEF RingTypes, States
  <2> QED
    BY <2>1, <2>2, <2>3
<1>3. ASSUME NEW nodes \in SUBSET Nodes, Persist(m, nodes) PROVE StoredNodes' = nodes
  <2>1. Stored' = [version |-> state[m].version + 1, nodes |-> nodes] /\ Stored' # NoState
    BY <1>3, WriteIsStored
  <2> QED
    BY <2>1 DEF StoredNodes
<1>4. CASE UpsertNode(m)
  <2>1. PICK n \in Nodes : Persist(m, state[m].nodes \cup {n}) /\ joined' = joined \cup {n}
    BY <1>4 DEF UpsertNode
  <2>2. StoredNodes' = StoredNodes \cup {n}
    BY <1>2, <1>3, <2>1
  <2> QED
    BY <2>1, <2>2 DEF Astray
<1>5. CASE RemoveNode(m)
  <2>1. PICK n \in state[m].nodes : Persist(m, state[m].nodes \ {n}) /\ joined' = joined \ {n}
    BY <1>5 DEF RemoveNode
  <2>2. StoredNodes' = StoredNodes \ {n}
    BY <1>2, <1>3, <2>1
  <2> QED
    BY <2>1, <2>2 DEF Astray
<1> QED
  BY <1>4, <1>5

\* LostOnlyWhenBehind, for any managers, writers, watches, capacities and
\* deliveries: whoever writes the ring from the last write that was made keeps
\* every node of it, so a loss needs another's write or a late delivery.
THEOREM LosersAreBehind == Spec => LostOnlyWhenBehind
<1> DEFINE Inv == RingTypes /\ PipelineOrdered /\ Sourced
           Change == \/ Astray' \subseteq Astray
                     \/ \E m \in Writers :
                          Behind(m) /\ etcd' # etcd /\ source'[m] = etcd'.revision
<1>1. Init => Inv
  BY InitTypes, InitOrdered, InitSourced
<1>2. Inv /\ [Next]_vars => Inv'
  BY NextTypes, NextOrdered, NextSourced
<1>3. ASSUME Inv, [Next]_vars PROVE Change
  <2>1. ASSUME NEW m \in Managers, UpsertNode(m) \/ RemoveNode(m)
        PROVE  Change
    <3>1. CASE Behind(m)
      <4>1. PICK nodes \in SUBSET Nodes : Persist(m, nodes)
        BY <1>3, <2>1, ChangeIsPersist
      <4>2. m \in Writers
        BY <4>1 DEF Persist
      <4>3. /\ etcd.revision \in Nat /\ etcd'.revision = etcd.revision + 1
            /\ source' = [source EXCEPT ![m] = etcd'.revision]
        BY <1>3, <4>1, WriteIsStored
      <4>4. etcd' # etcd
        BY <4>3
      <4>5. source'[m] = etcd'.revision
        BY <1>3, <4>3 DEF RingTypes
      <4> QED
        BY <3>1, <4>2, <4>4, <4>5
    <3>2. CASE ~Behind(m)
      BY <1>3, <2>1, <3>2, WriterKeepsTheRest
    <3> QED
      BY <3>1, <3>2
  <2>2. CASE UNCHANGED <<etcd, joined>>
    BY <2>2 DEF Astray, StoredNodes, Stored
  <2> QED
    BY <1>3, <2>1, <2>2
    DEF Next, ManagerStep, NewRingManager, WatchStep, Run, RunStep, Watch, Cancel,
        RemoveWatcher, CloseInbox, Receive, ApplyState, Emit, Stop, StartPlan, PlanDone,
        PlanFails, Return, vars, ringVars, watchVars
<1>4. Inv /\ [Next]_vars => [Change]_vars
  BY <1>3
<1> QED
  BY <1>1, <1>2, <1>4, PTL DEF Spec, LostOnlyWhenBehind
-----------------------------------------------------------------------------
\* The response to the last write, once it found room, is the last in the inbox
\* or in the goroutine's hands or in the manager's state.
OnItsWay ==
  \A w \in Watches :
    /\ told[w] <= etcd.revision
    /\ loop[w] = "off" => told[w] = 0 /\ w \notin registered
    /\ loop[w] # "off" => Owner[w] \in up
    /\ Informed(w) /\ loop[w] # "done" =>
         IF inbox[w] # <<>> THEN inbox[w][Len(inbox[w])].revision = etcd.revision
         ELSE IF loop[w] = "apply" THEN current[w].revision = etcd.revision
         ELSE source[Owner[w]] = etcd.revision

LEMMA InitOnItsWay == Init => OnItsWay
<1> SUFFICES ASSUME Init, NEW w \in Watches
             PROVE  OnItsWay!(w)
  BY DEF OnItsWay
<1>1. etcd.revision \in Nat
  BY InitTypes DEF RingTypes
<1> QED
  BY <1>1 DEF Init, RingInit, Informed

\* A delivery that finds room is the last in the inbox.
LEMMA PersistOnItsWay ==
  ASSUME RingTypes, OnItsWay, NEW m \in Managers, NEW nodes \in SUBSET Nodes,
         Persist(m, nodes)
  PROVE  OnItsWay'
<1> DEFINE next == [version |-> state[m].version + 1, nodes |-> nodes]
           r == [value |-> next, revision |-> etcd'.revision]
<1>1. etcd.revision \in Nat /\ etcd'.revision = etcd.revision + 1 /\ r \in Responses
  BY WriteIsStored
<1>2. r.revision = etcd'.revision
  OBVIOUS
<1>3. /\ UNCHANGED <<up, registered, loop>>
      /\ inbox' = [w \in Watches |-> IF w \in registered THEN Deliver(inbox[w], r) ELSE inbox[w]]
      /\ told' = [w \in Watches |->
                   IF w \in registered /\ Len(inbox[w]) < ChanCap THEN r.revision ELSE told[w]]
  BY DEF Persist, Notify
<1> HIDE DEF r
<1> SUFFICES ASSUME NEW w \in Watches
             PROVE  OnItsWay!(w)'
  BY DEF OnItsWay
<1>4. OnItsWay!(w) /\ told[w] \in Nat /\ inbox[w] \in Seq(Responses)
  BY DEF OnItsWay, RingTypes
<1>5. CASE w \in registered /\ Len(inbox[w]) < ChanCap
  <2>1. inbox'[w] = Append(inbox[w], r) /\ told'[w] = etcd'.revision
    BY <1>2, <1>3, <1>5 DEF Deliver
  <2>2. inbox'[w] # <<>> /\ inbox'[w][Len(inbox'[w])] = r
    BY <1>1, <1>4, <2>1
  <2> QED
    BY <1>1, <1>2, <1>3, <1>4, <1>5, <2>1, <2>2
<1>6. CASE ~(w \in registered /\ Len(inbox[w]) < ChanCap)
  <2>1. told'[w] = told[w] /\ told'[w] < etcd'.revision
    BY <1>1, <1>3, <1>4, <1>6
  <2>2. ~Informed(w)'
    BY <1>1, <1>4, <2>1 DEF Informed
  <2> QED
    BY <1>1, <1>3, <1>4, <2>1, <2>2
<1> QED
  BY <1>5, <1>6

\* The last response of an inbox stays the last until it is the front.
LEMMA LastOfTail ==
  ASSUME NEW queue \in Seq(Responses), queue # <<>>
  PROVE  IF Tail(queue) # <<>> THEN Tail(queue)[Len(Tail(queue))] = queue[Len(queue)]
         ELSE Head(queue) = queue[Len(queue)]
<1>1. /\ Len(queue) \in Nat /\ Len(queue) >= 1 /\ Len(Tail(queue)) = Len(queue) - 1
      /\ Head(queue) = queue[1]
      /\ Tail(queue) \in Seq(Responses)
  OBVIOUS
<1>2. CASE Tail(queue) # <<>>
  <2>1. Len(Tail(queue)) >= 1
    BY <1>1, <1>2
  <2>2. \A i \in 1..Len(queue) - 1 : Tail(queue)[i] = queue[i + 1]
    OBVIOUS
  <2>3. Tail(queue)[Len(queue) - 1] = queue[Len(queue) - 1 + 1]
    BY <1>1, <2>1, <2>2
  <2> QED
    BY <1>1, <1>2, <2>3
<1>3. CASE Tail(queue) = <<>>
  <2>1. Len(queue) = 1
    BY <1>1, <1>3
  <2> QED
    BY <1>1, <1>3, <2>1
<1> QED
  BY <1>2, <1>3

\* The goroutine takes the last response, and applies it, in that order.
LEMMA NextOnItsWay ==
  ASSUME RingTypes, Sourced, OnItsWay, OneWatchEach, [Next]_vars
  PROVE  OnItsWay'
<1>1. ASSUME NEW m \in Managers, NewRingManager(m)
      PROVE  OnItsWay'
  <2>1. /\ m \notin up /\ up' = up \cup {m}
        /\ source' = [source EXCEPT ![m] = etcd.kv[RingKey].modRevision]
        /\ UNCHANGED <<etcd, registered, inbox, loop, current, told>>
    BY <1>1 DEF NewRingManager, watchVars
  <2> SUFFICES ASSUME NEW w \in Watches
               PROVE  OnItsWay!(w)'
    BY DEF OnItsWay
  <2>2. OnItsWay!(w)
    BY DEF OnItsWay
  <2>3. Informed(w)' <=> Informed(w)
    BY <2>1 DEF Informed
  <2>4. source'[Owner[w]] = source[Owner[w]] \/ loop[w] = "off"
    BY <2>1, <2>2, OwnerAssumption DEF RingTypes
  <2>5. loop[w] = "off" => ~Informed(w)
    BY <2>2 DEF Informed
  <2> QED
    BY <2>1, <2>2, <2>3, <2>4, <2>5
<1>2. ASSUME NEW m \in Managers, UpsertNode(m) \/ RemoveNode(m)
      PROVE  OnItsWay'
  BY <1>2, ChangeIsPersist, PersistOnItsWay
<1>3. ASSUME NEW w \in Watches, Receive(w)
      PROVE  OnItsWay'
  <2>1. /\ loop[w] = "receive" /\ loop' = [loop EXCEPT ![w] = "apply"]
        /\ inbox[w] \in Seq(Responses) /\ inbox[w] # <<>>
        /\ current' = [current EXCEPT ![w] = Head(inbox[w])]
        /\ inbox' = [inbox EXCEPT ![w] = Tail(@)]
        /\ UNCHANGED <<etcd, up, source, registered, told>>
    BY <1>3 DEF Receive, RingTypes
  <2> SUFFICES ASSUME NEW v \in Watches
               PROVE  OnItsWay!(v)'
    BY DEF OnItsWay
  <2>2. OnItsWay!(v) /\ (Informed(v)' <=> Informed(v))
    BY <2>1 DEF OnItsWay, Informed
  <2>3. CASE v = w
    <3>1. loop'[w] = "apply" /\ current'[w] = Head(inbox[w]) /\ inbox'[w] = Tail(inbox[w])
      BY <2>1, <2>3 DEF RingTypes
    <3>2. IF Tail(inbox[w]) # <<>>
          THEN Tail(inbox[w])[Len(Tail(inbox[w]))] = inbox[w][Len(inbox[w])]
          ELSE Head(inbox[w]) = inbox[w][Len(inbox[w])]
      BY <2>1, LastOfTail
    <3> QED
      BY <2>1, <2>2, <2>3, <3>1, <3>2
  <2>4. CASE v # w
    BY <2>1, <2>2, <2>4 DEF RingTypes
  <2> QED
    BY <2>3, <2>4
<1>4. ASSUME NEW w \in Watches, ApplyState(w)
      PROVE  OnItsWay'
  <2>1. /\ loop[w] = "apply" /\ loop' = [loop EXCEPT ![w] = "send"]
        /\ source' = [source EXCEPT ![Owner[w]] = current[w].revision]
        /\ UNCHANGED <<etcd, up, registered, inbox, current, told>>
    BY <1>4 DEF ApplyState
  <2> SUFFICES ASSUME NEW v \in Watches
               PROVE  OnItsWay!(v)'
    BY DEF OnItsWay
  <2>2. OnItsWay!(v) /\ (Informed(v)' <=> Informed(v))
    BY <2>1 DEF OnItsWay, Informed
  <2>3. CASE v = w
    <3>1. loop'[w] = "send" /\ source'[Owner[w]] = current[w].revision
      BY <2>1, OwnerAssumption DEF RingTypes
    <3> QED
      BY <2>1, <2>2, <2>3, <3>1
  <2>4. CASE v # w
    <3>1. loop'[v] = loop[v] /\ source'[Owner[v]] = source[Owner[v]]
      BY <2>1, <2>4, OwnerAssumption DEF OneWatchEach, RingTypes
    <3> QED
      BY <2>1, <2>2, <3>1
  <2> QED
    BY <2>3, <2>4
<1>5. ASSUME NEW w \in Watches, Watch(w)
      PROVE  OnItsWay'
  <2>1. /\ loop[w] = "off" /\ loop' = [loop EXCEPT ![w] = "receive"] /\ Owner[w] \in up
        /\ registered' = registered \cup {w}
        /\ UNCHANGED <<etcd, up, source, inbox, current, told>>
    BY <1>5 DEF Watch
  <2> SUFFICES ASSUME NEW v \in Watches
               PROVE  OnItsWay!(v)'
    BY DEF OnItsWay
  <2>2. OnItsWay!(v) /\ (Informed(v)' <=> Informed(v))
    BY <2>1 DEF OnItsWay, Informed
  <2>3. CASE v = w
    <3>1. ~Informed(v) /\ loop'[v] = "receive"
      BY <2>1, <2>2, <2>3 DEF Informed, RingTypes
    <3> QED
      BY <2>1, <2>2, <2>3, <3>1
  <2>4. CASE v # w
    BY <2>1, <2>2, <2>4 DEF RingTypes
  <2> QED
    BY <2>3, <2>4
<1>6. ASSUME NEW w \in Watches, Emit(w) \/ Stop(w)
      PROVE  OnItsWay'
  <2>1. /\ UNCHANGED <<etcd, up, source, registered, inbox, current, told>>
        /\ \A v \in Watches :
             /\ loop'[v] = "off" <=> loop[v] = "off"
             /\ loop'[v] # "done" => loop[v] # "done"
             /\ loop'[v] # "done" => (loop'[v] = "apply" <=> loop[v] = "apply")
    BY <1>6 DEF Emit, Stop, RingTypes
  <2> QED
    BY <2>1 DEF OnItsWay, Informed
<1>7. ASSUME NEW w \in Watches, RemoveWatcher(w)
      PROVE  OnItsWay'
  BY <1>7 DEF RemoveWatcher, OnItsWay, Informed
<1>8. CASE UNCHANGED <<etcd, up, source, registered, inbox, loop, current, told>>
  BY <1>8 DEF OnItsWay, Informed
<1> QED
  BY <1>1, <1>2, <1>3, <1>4, <1>5, <1>6, <1>7, <1>8
  DEF Next, ManagerStep, WatchStep, Run, RunStep, Cancel, CloseInbox, StartPlan, PlanDone,
      PlanFails, Return, vars, ringVars, watchVars

LEMMA SettledIsUpToDate ==
  ASSUME RingTypes, Sourced, OnItsWay
  PROVE  SettledIsCurrent
<1> SUFFICES ASSUME NEW w \in Watches, Settled(w)
             PROVE  ~Behind(Owner[w]) /\ state[Owner[w]] = Stored
  BY DEF SettledIsCurrent
<1>1. source[Owner[w]] = etcd.revision /\ Owner[w] \in Managers
  BY OwnerAssumption DEF OnItsWay, Settled
<1>2. etcd.revision \in Nat /\ etcd.revision > 0
  BY DEF RingTypes, Settled, Informed
<1>3. state[Owner[w]] = Bootstrap /\ Stored # NoState
  BY <1>1, <1>2 DEF Sourced
<1> QED
  BY <1>1, <1>2, <1>3 DEF Behind, Bootstrap

LEMMA WatchedInvariant ==
  ASSUME OneWatchEach
  PROVE  Spec => [](RingTypes /\ PipelineOrdered /\ Sourced /\ OnItsWay)
<1> DEFINE Inv == RingTypes /\ PipelineOrdered /\ Sourced /\ OnItsWay
<1>1. Init => Inv
  BY InitTypes, InitOrdered, InitSourced, InitOnItsWay
<1>2. Inv /\ [Next]_vars => Inv'
  BY NextTypes, NextOrdered, NextSourced, NextOnItsWay
<1> QED
  BY <1>1, <1>2, PTL DEF Spec

\* SettledIsCurrent, for any number of managers that are watched by one caller
\* each, any number of writers and whatever was dropped before.
THEOREM SettledWatchIsCurrent ==
  ASSUME OneWatchEach
  PROVE  Spec => []SettledIsCurrent
BY WatchedInvariant, SettledIsUpToDate, PTL

\* A manager that adds or removes a node while its watch has settled takes no
\* other node with it, whoever else writes (manager.go:105, 122): in terms of
\* the pipeline alone, where a node can still be lost.
SettledWriterKeepsTheRest ==
  [][\A w \in Watches :
       Settled(w) /\ (UpsertNode(Owner[w]) \/ RemoveNode(Owner[w]))
         => Astray' \subseteq Astray]_vars

THEOREM SettledWritersLoseNobody ==
  ASSUME OneWatchEach
  PROVE  Spec => SettledWriterKeepsTheRest
<1> DEFINE Keeps == \A w \in Watches :
                      Settled(w) /\ (UpsertNode(Owner[w]) \/ RemoveNode(Owner[w]))
                        => Astray' \subseteq Astray
<1>1. ASSUME RingTypes, PipelineOrdered, Sourced, OnItsWay
      PROVE  Keeps
  <2> SUFFICES ASSUME NEW w \in Watches, Settled(w),
                      UpsertNode(Owner[w]) \/ RemoveNode(Owner[w])
               PROVE  Astray' \subseteq Astray
    OBVIOUS
  <2>1. Owner[w] \in Managers /\ ~Behind(Owner[w])
    BY <1>1, SettledIsUpToDate, OwnerAssumption DEF SettledIsCurrent
  <2> QED
    BY <1>1, <2>1, WriterKeepsTheRest
<1>2. RingTypes /\ PipelineOrdered /\ Sourced /\ OnItsWay => [Keeps]_vars
  BY <1>1
<1> QED
  BY <1>2, WatchedInvariant, PTL DEF SettledWriterKeepsTheRest
=============================================================================
