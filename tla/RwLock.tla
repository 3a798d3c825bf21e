------------------------------- MODULE RwLock -------------------------------
(***************************************************************************)
(* The tokio::sync::RwLock that guards the active campaigns (the code uses *)
(* it through `Cached<ActiveCache>` in src/src/cache.rs).  External code,  *)
(* modelled from its contract in tokio 0.2: a semaphore with a bounded     *)
(* number of read permits, of which a writer needs all, and a FIFO queue:  *)
(* a task that asks later never overtakes a task that still waits.         *)
(*                                                                         *)
(* A lock is a record.  `ahead[t]` holds the tasks queued before t, so the *)
(* queue is a set of waiting tasks with their predecessors.                *)
(***************************************************************************)
EXTENDS Naturals, FiniteSets

CONSTANTS Tasks,     \* whoever may ask for the lock
          MaxReads   \* read permits of the semaphore (32 in tokio 0.2)

ASSUME MaxReadsAssumption == MaxReads \in Nat \ {0}

Locks == [waiting : SUBSET Tasks,
          ahead   : [Tasks -> SUBSET Tasks],
          readers : SUBSET Tasks,
          writers : SUBSET Tasks]

Unlocked == [waiting |-> {}, ahead |-> [t \in Tasks |-> {}],
             readers |-> {}, writers |-> {}]

\* `read()` or `write()` is called: the task queues behind those that wait.
Enqueue(l, t) == [waiting |-> l.waiting \cup {t},
                  ahead   |-> [l.ahead EXCEPT ![t] = l.waiting],
                  readers |-> l.readers, writers |-> l.writers]

\* The task is at the head of the queue.
AtHead(l, t) == t \in l.waiting /\ l.ahead[t] = {}

CanRead(l, t)  == AtHead(l, t) /\ l.writers = {} /\ Cardinality(l.readers) < MaxReads
CanWrite(l, t) == AtHead(l, t) /\ l.writers = {} /\ l.readers = {}

\* The task is no longer queued (it got the lock, or its future is dropped).
Without(ahead, t) == [u \in Tasks |-> ahead[u] \ {t}]

GrantRead(l, t)  == [waiting |-> l.waiting \ {t}, ahead |-> Without(l.ahead, t),
                     readers |-> l.readers \cup {t}, writers |-> l.writers]

GrantWrite(l, t) == [waiting |-> l.waiting \ {t}, ahead |-> Without(l.ahead, t),
                     readers |-> l.readers, writers |-> l.writers \cup {t}]

\* Whatever the task held or waited for is given back: the guard goes out of
\* scope, or the future that held it or awaited it is dropped.
Release(l, t) == [waiting |-> l.waiting \ {t}, ahead |-> Without(l.ahead, t),
                  readers |-> l.readers \ {t}, writers |-> l.writers \ {t}]
=============================================================================
