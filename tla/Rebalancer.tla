----------------------------- MODULE Rebalancer -----------------------------
(***************************************************************************)
(* The consumer of ring events (internal/storage/rebalance.go) on top of   *)
(* the ring managers: Run opens a watch and turns each event into a plan   *)
(* for the migration executor.                                             *)
(***************************************************************************)
EXTENDS RingManager

VARIABLES run,    \* where the Run of each watch is
          plan    \* the event behind its last plan

vars == <<ringVars, run, plan>>

Init ==
  /\ RingInit
  /\ run = [w \in Watches |-> "off"]
  /\ plan = [w \in Watches |-> NoResponse]

Run(w) ==
  /\ Watch(w)
  /\ run' = [run EXCEPT ![w] = "wait"]
  /\ UNCHANGED plan

\* An event arrives and the executor is invoked with its plan.
StartPlan(w) ==
  /\ run[w] = "wait"
  /\ events[w] # <<>>
  /\ plan' = [plan EXCEPT ![w] = Head(events[w])]
  /\ events' = [events EXCEPT ![w] = Tail(@)]
  /\ run' = [run EXCEPT ![w] = "execute"]
  /\ UNCHANGED <<etcd, up, state, source, joined,
                 registered, closed, inbox, loop, current, cancelled, told>>

PlanDone(w) ==
  /\ run[w] = "execute"
  /\ run' = [run EXCEPT ![w] = "wait"]
  /\ UNCHANGED <<ringVars, plan>>

\* An error of the executor ends Run; its watch is left as it is.
PlanFails(w) ==
  /\ run[w] = "execute"
  /\ run' = [run EXCEPT ![w] = "returned"]
  /\ UNCHANGED <<ringVars, plan>>

\* The context is cancelled, or the events channel is closed and empty.
Return(w) ==
  /\ run[w] = "wait"
  /\ w \in cancelled \/ (loop[w] = "done" /\ events[w] = <<>>)
  /\ run' = [run EXCEPT ![w] = "returned"]
  /\ UNCHANGED <<ringVars, plan>>

RunStep(w) == StartPlan(w) \/ PlanDone(w) \/ PlanFails(w) \/ Return(w)

Next ==
  \/ \E m \in Managers : ManagerStep(m) /\ UNCHANGED <<run, plan>>
  \/ \E w \in Watches :
       \/ Run(w)
       \/ RunStep(w)
       \/ (Cancel(w) \/ WatchStep(w)) /\ UNCHANGED <<run, plan>>

\* The goroutines of a watch keep running, and a Run that waits takes the event
\* that is there.  Nothing is assumed of the executor, which may never return,
\* nor of those who add and remove nodes.
Fairness ==
  \A w \in Watches :
    /\ WF_vars(WatchStep(w) /\ UNCHANGED <<run, plan>>)
    /\ WF_vars(StartPlan(w))

Spec == Init /\ [][Next]_vars

FairSpec == Spec /\ Fairness
-----------------------------------------------------------------------------
\* notifyWatchersLocked sends to every registered watcher and a send on a
\* closed channel panics: a channel is closed only after its watcher is gone
\* (etcdsim.go:301-305), cancellations at any moment included.
NoSendOnClosedChannel == registered \cap closed = {}

\* A caller that has received an event may rely on Lookup (manager.go:220-221):
\* the manager's ring is never older than the ring the event announced, though
\* the manager is written to and the watch goroutine runs on meanwhile.
LookupAfterEvent ==
  \A w \in Watches :
    run[w] # "off" => source[Owner[w]] >= plan[w].revision

\* Plans reach the executor in the order of the changes, none twice.
PlansInOrder ==
  [][\A w \in Watches : plan'[w] # plan[w] => plan'[w].revision > plan[w].revision]_vars

\* A write to the ring has happened since the manager's state was loaded,
\* written or applied.
Behind(m) == source[m] < etcd.revision

\* Nodes that are registered and not stored, or stored and not registered.
Astray == (joined \ StoredNodes) \cup (StoredNodes \ joined)

\* The ring is written without a compare (manager.go:155), by any manager, in
\* between the deliveries of its own watch and the writes of others.  A node is
\* lost, or comes back, only at a write of a manager that was behind etcd.
LostOnlyWhenBehind ==
  [][\/ Astray' \subseteq Astray
     \/ \E m \in Writers :
          Behind(m) /\ etcd' # etcd /\ source'[m] = etcd'.revision]_vars

\* The response to the last write found room in the watch's inbox.
Informed(w) == told[w] = etcd.revision /\ etcd.revision > 0

\* The goroutine has taken all there was in the inbox and applied it.
Settled(w) == Informed(w) /\ inbox[w] = <<>> /\ loop[w] \in {"receive", "send"}

\* A manager is not behind, and has the stored ring (manager.go:220 "the latest
\* state is also applied locally"), once its watch has settled: whatever was
\* dropped before, and in whatever order its own writes met the deliveries.
SettledIsCurrent ==
  \A w \in Watches :
    Settled(w) => ~Behind(Owner[w]) /\ state[Owner[w]] = Stored

\* manager.go:105 "UpsertNode registers ... a physical node": it stays until
\* RemoveNode takes it out.
RegisteredNodeStays == joined \subseteq StoredNodes

\* The goroutine waits for room in events that the caller does not make: its
\* executor has not returned, or failed and ended Run (rebalance.go:76).
HeldUp(w) ==
  /\ loop[w] = "send" /\ Len(events[w]) = ChanCap
  /\ run[w] \in {"execute", "returned"}

\* A manager with a live watch ends up with the ring that is in etcd, unless the
\* response to the last write was dropped at a full inbox (etcdsim.go:333) or
\* its caller leaves the goroutine held up for ever.
Converges ==
  \A w \in Watches :
    <>[]((loop[w] # "off" /\ w \notin cancelled /\ Informed(w))
           => HeldUp(w) \/ state[Owner[w]] = Stored)
=============================================================================
