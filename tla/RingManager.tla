---------------------------- MODULE RingManager -----------------------------
(***************************************************************************)
(* Ring managers (internal/storage/manager.go) that share one etcd: each   *)
(* keeps a copy of the ring state, writes it back whole when a node joins  *)
(* or leaves, and applies the states that its watches deliver.             *)
(*                                                                         *)
(* A watch is a pipeline of three parts that run on their own: the         *)
(* subscription in etcdsim with its bounded channel (inbox), the goroutine *)
(* of RingManager.Watch, and the channel of ring events to the caller.     *)
(* A ring state is its version and its set of nodes; the tokens and the    *)
(* ring are computed from the nodes whenever they change.                  *)
(***************************************************************************)
EXTENDS Integers, Sequences

CONSTANTS Managers,
          Writers,    \* managers asked to add or remove nodes
          Nodes,
          Watches,    \* calls of Watch
          Owner,      \* the manager each is made on
          ChanCap,    \* capacity of both channels, 8 in the code
          MaxWrites,  \* bound of the model: writes to etcd
          NoState     \* stands for "no ring key in etcd"

ASSUME OwnerAssumption == Writers \subseteq Managers /\ Owner \in [Watches -> Managers]
ASSUME CapAssumption == ChanCap \in Nat \ {0} /\ MaxWrites \in Nat

\* A ring state, as it is kept and stored.
States == [version : Nat, nodes : SUBSET Nodes]

ASSUME NoStateAssumption == NoState \notin States

VARIABLES etcd,        \* the etcdsim.Client
          up,          \* managers constructed so far
          state,       \* RingManager.state of each
          source,      \* history: the etcd revision that state came from
          joined,      \* history: nodes added and not removed since
          registered,  \* watches in Client.watchers
          closed,      \* watches whose inbox is closed
          inbox,       \* channel from etcd to the goroutine
          loop,        \* the goroutine of Watch
          current,     \* the response in its hands
          events,      \* channel from the goroutine to the caller
          cancelled,   \* watches whose context is cancelled
          told         \* history: last write that found room in the watch's inbox

watchVars == <<registered, closed, inbox, loop, current, events, cancelled, told>>
ringVars == <<etcd, up, state, source, joined, watchVars>>

Etcd == INSTANCE EtcdKV WITH NoValue <- NoState

RingKey == "ring"
Stored == etcd.kv[RingKey].value

StoredNodes == IF Stored = NoState THEN {} ELSE Stored.nodes

Empty == [version |-> 0, nodes |-> {}]

NoResponse == [value |-> Empty, revision |-> 0]

\* etcd is new, or holds the ring of an earlier run.
RingInit ==
  /\ \/ etcd = Etcd!New({RingKey}) /\ joined = {}
     \/ \E S \in SUBSET Nodes :
          /\ etcd = Etcd!OpPut(Etcd!New({RingKey}), RingKey, [version |-> 1, nodes |-> S])
          /\ joined = S
  /\ up = {}
  /\ state = [m \in Managers |-> Empty]
  /\ source = [m \in Managers |-> 0]
  /\ registered = {}
  /\ closed = {}
  /\ inbox = [w \in Watches |-> <<>>]
  /\ loop = [w \in Watches |-> "off"]
  /\ current = [w \in Watches |-> NoResponse]
  /\ events = [w \in Watches |-> <<>>]
  /\ cancelled = {}
  /\ told = [w \in Watches |-> 0]
-----------------------------------------------------------------------------
\* bootstrap: what a new manager starts from.
Bootstrap == IF Stored = NoState THEN Empty ELSE Stored

NewRingManager(m) ==
  /\ m \notin up
  /\ up' = up \cup {m}
  /\ state' = [state EXCEPT ![m] = Bootstrap]
  /\ source' = [source EXCEPT ![m] = etcd.kv[RingKey].modRevision]
  /\ UNCHANGED <<etcd, joined, watchVars>>

\* Mutant: a later response overtakes those that wait.
DeliverFirst(queue, r) == IF Len(queue) < ChanCap THEN <<r>> \o queue ELSE queue

\* The send of notifyWatchersLocked: a response that finds the channel full is
\* dropped.
Deliver(queue, r) == IF Len(queue) < ChanCap THEN Append(queue, r) ELSE queue

Notify(r) ==
  /\ inbox' = [w \in Watches |-> IF w \in registered THEN Deliver(inbox[w], r) ELSE inbox[w]]
  /\ told' = [w \in Watches |->
                IF w \in registered /\ Len(inbox[w]) < ChanCap THEN r.revision ELSE told[w]]

\* The state with the nodes of a change: persistLocked numbers it after the
\* version held locally and puts it in etcd without a compare.
Persist(m, nodes) ==
  LET next == [version |-> state[m].version + 1, nodes |-> nodes]
  IN  /\ m \in up \cap Writers
      /\ etcd.revision < MaxWrites
      /\ state' = [state EXCEPT ![m] = next]
      /\ etcd' = Etcd!OpPut(etcd, RingKey, next)
      /\ source' = [source EXCEPT ![m] = etcd'.revision]
      /\ Notify([value |-> next, revision |-> etcd'.revision])
      /\ UNCHANGED <<up, registered, closed, loop, current, events, cancelled>>

UpsertNode(m) ==
  \E n \in Nodes :
    /\ Persist(m, state[m].nodes \cup {n})
    /\ joined' = joined \cup {n}

\* A node the manager does not know is left alone.
RemoveNode(m) ==
  \E n \in state[m].nodes :
    /\ Persist(m, state[m].nodes \ {n})
    /\ joined' = joined \ {n}
-----------------------------------------------------------------------------
\* Watch: subscribe and start the goroutine.
Watch(w) ==
  /\ loop[w] = "off"
  /\ Owner[w] \in up
  /\ registered' = registered \cup {w}
  /\ loop' = [loop EXCEPT ![w] = "receive"]
  /\ UNCHANGED <<etcd, up, state, source, joined,
                 closed, inbox, current, events, cancelled, told>>

Cancel(w) ==
  /\ loop[w] # "off"
  /\ w \notin cancelled
  /\ cancelled' = cancelled \cup {w}
  /\ UNCHANGED <<etcd, up, state, source, joined,
                 registered, closed, inbox, loop, current, events, told>>

\* etcdsim's own goroutine: removeWatcher under the lock, then close(ch).
RemoveWatcher(w) ==
  /\ w \in cancelled \cap registered
  /\ registered' = registered \ {w}
  /\ UNCHANGED <<etcd, up, state, source, joined,
                 closed, inbox, loop, current, events, cancelled, told>>

\* Mutant: the channel may be closed before the watcher is removed.
CloseInboxEarly(w) ==
  /\ w \in cancelled \ closed
  /\ closed' = closed \cup {w}
  /\ UNCHANGED <<etcd, up, state, source, joined,
                 registered, inbox, loop, current, events, cancelled, told>>

CloseInbox(w) ==
  /\ w \in cancelled \ (registered \cup closed)
  /\ closed' = closed \cup {w}
  /\ UNCHANGED <<etcd, up, state, source, joined,
                 registered, inbox, loop, current, events, cancelled, told>>

Receive(w) ==
  /\ loop[w] = "receive"
  /\ inbox[w] # <<>>
  /\ current' = [current EXCEPT ![w] = Head(inbox[w])]
  /\ inbox' = [inbox EXCEPT ![w] = Tail(@)]
  /\ loop' = [loop EXCEPT ![w] = "apply"]
  /\ UNCHANGED <<etcd, up, state, source, joined,
                 registered, closed, events, cancelled, told>>

\* Mutant: the event is emitted and the state not applied.
SkipState(w) ==
  /\ loop[w] = "apply"
  /\ loop' = [loop EXCEPT ![w] = "send"]
  /\ UNCHANGED <<etcd, up, state, source, joined,
                 registered, closed, inbox, current, events, cancelled, told>>

\* Mutant: a state that is numbered below the manager's own is ignored.
ApplyNewer(w) ==
  /\ loop[w] = "apply"
  /\ IF current[w].value.version < state[Owner[w]].version
     THEN UNCHANGED <<state, source>>
     ELSE /\ state' = [state EXCEPT ![Owner[w]] = current[w].value]
          /\ source' = [source EXCEPT ![Owner[w]] = current[w].revision]
  /\ loop' = [loop EXCEPT ![w] = "send"]
  /\ UNCHANGED <<etcd, up, joined,
                 registered, closed, inbox, current, events, cancelled, told>>

\* Mutant: the nodes that arrive are added to those the manager has.
ApplyMerged(w) ==
  /\ loop[w] = "apply"
  /\ state' = [state EXCEPT ![Owner[w]] =
                 [current[w].value EXCEPT !.nodes = @ \cup state[Owner[w]].nodes]]
  /\ source' = [source EXCEPT ![Owner[w]] = current[w].revision]
  /\ loop' = [loop EXCEPT ![w] = "send"]
  /\ UNCHANGED <<etcd, up, joined,
                 registered, closed, inbox, current, events, cancelled, told>>

\* applyState replaces the manager's state, whatever it came from.
ApplyState(w) ==
  /\ loop[w] = "apply"
  /\ state' = [state EXCEPT ![Owner[w]] = current[w].value]
  /\ source' = [source EXCEPT ![Owner[w]] = current[w].revision]
  /\ loop' = [loop EXCEPT ![w] = "send"]
  /\ UNCHANGED <<etcd, up, joined,
                 registered, closed, inbox, current, events, cancelled, told>>

\* The event waits for room in the caller's channel.
Emit(w) ==
  /\ loop[w] = "send"
  /\ Len(events[w]) < ChanCap
  /\ events' = [events EXCEPT ![w] = Append(@, current[w])]
  /\ loop' = [loop EXCEPT ![w] = "receive"]
  /\ UNCHANGED <<etcd, up, state, source, joined,
                 registered, closed, inbox, current, cancelled, told>>

\* Mutant: the goroutine also returns when the caller's channel is full.
StopWhenFull(w) ==
  /\ \/ loop[w] \in {"receive", "send"} /\ w \in cancelled
     \/ loop[w] = "receive" /\ w \in closed /\ inbox[w] = <<>>
     \/ loop[w] = "send" /\ Len(events[w]) = ChanCap
  /\ loop' = [loop EXCEPT ![w] = "done"]
  /\ UNCHANGED <<etcd, up, state, source, joined,
                 registered, closed, inbox, current, events, cancelled, told>>

\* Return, closing events: the context is cancelled, or the inbox is closed
\* and empty.
Stop(w) ==
  /\ \/ loop[w] \in {"receive", "send"} /\ w \in cancelled
     \/ loop[w] = "receive" /\ w \in closed /\ inbox[w] = <<>>
  /\ loop' = [loop EXCEPT ![w] = "done"]
  /\ UNCHANGED <<etcd, up, state, source, joined,
                 registered, closed, inbox, current, events, cancelled, told>>
-----------------------------------------------------------------------------
\* Steps of the goroutines of a watch.
WatchStep(w) ==
  \/ RemoveWatcher(w) \/ CloseInbox(w)
  \/ Receive(w) \/ ApplyState(w) \/ Emit(w) \/ Stop(w)

ManagerStep(m) == NewRingManager(m) \/ UpsertNode(m) \/ RemoveNode(m)
=============================================================================
