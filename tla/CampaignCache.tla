---------------------------- MODULE CampaignCache ----------------------------
(***************************************************************************)
(* The campaign cache of the Supermarket (src/src/cache.rs), the client    *)
(* that fills it from the validators (src/src/cache/api_client.rs), the    *)
(* task that refreshes it (spawn_fetch_campaigns in src/src/lib.rs) and    *)
(* the request handlers that read it (get_campaigns in                     *)
(* src/src/units_for_slot.rs).                                             *)
(*                                                                         *)
(* One refresh task runs rounds: the initial one, then a "new" or an       *)
(* "update" round per tick of its two timers.  A round collects what       *)
(* get_status returns for the campaigns, then applies it under the write   *)
(* guard of `active`, then extends `finalized`.  After the initial round   *)
(* every round runs under a timeout, which may drop it at any `.await`.    *)
(* Handlers take the read guard and copy the active campaigns.             *)
(*                                                                         *)
(* A campaign is abstracted to what the cache does with it: its Status is  *)
(* "Finalized" or not ("Live"), and `ver` stands for the status, balances  *)
(* and messages the validators had when get_status asked them.             *)
(***************************************************************************)
EXTENDS RwLock

CONSTANTS Channels,       \* channel (campaign) ids
          Refresher,      \* the spawned refresh task; the other tasks are requests
          Validators,     \* number of configured validators
          MaxVersion,     \* bound: how often what is reported of a campaign changes
          FinalIsForever  \* whether a finalized campaign is never reported live again

ASSUME RefresherAssumption == Refresher \in Tasks
ASSUME ValidatorsAssumption == Validators \in Nat
ASSUME FinalAssumption == FinalIsForever \in BOOLEAN

Requests == Tasks \ {Refresher}

VARIABLES
  reported,   \* reported[c]: what get_status would return of c now
  calm,       \* from now on every call succeeds and no round times out
  active,     \* Cache.active
  finalized,  \* Cache.finalized
  lock,       \* the RwLock around `active`
  pc,         \* where the refresh task stands
  round,      \* which round that is
  todo,       \* todo[c]: get_status calls the round still has to make for c
  fetched,    \* the statuses collected by the round
  undone,     \* entries of `fetched` the critical section still has to apply
  due,        \* due[k]: the deadline of the timer k has passed
  first,      \* the timer that `select` polls first
  req,        \* req[h]: the state of the request handler h
  retired,    \* history: the channels a round has removed as finalized
  published   \* history: `active` when its write guard was last released

env      == <<reported, calm>>
timers   == <<due, first>>
history  == <<retired, published>>
vars     == <<env, active, finalized, lock, pc, round, todo, fetched, undone,
              timers, req, history>>
------------------------------------------------------------------------------
Observations == [status : {"Live", "Finalized"}, ver : Nat]

Absent == [status |-> "Absent", ver |-> 0]

Entries == Observations \cup {Absent}

\* A HashMap from channels to campaigns: the channels that are not keys map to Absent.
Maps == [Channels -> Entries]

EmptyMap == [c \in Channels |-> Absent]

Keys(m)    == {c \in Channels : m[c] # Absent}
LiveIn(m)  == {c \in Channels : m[c].status = "Live"}
FinalIn(m) == {c \in Channels : m[c].status = "Finalized"}

NoCalls == [c \in Channels |-> 0]

Kinds == {"new", "update"}
Other(k) == IF k = "new" THEN "update" ELSE "new"

\* The points where the refresh task awaits; inside "apply" it does not.
AwaitPoints == {"list", "collect", "read", "fetch", "write", "finalize"}

NoRequest == [st |-> "idle", snap |-> EmptyMap, left |-> {}]

TypeOK ==
  /\ reported \in [Channels -> Observations]
  /\ calm \in BOOLEAN
  /\ active \in Maps
  /\ finalized \in SUBSET Channels
  /\ lock \in Locks
  /\ pc \in AwaitPoints \cup {"apply", "select"}
  /\ round \in Kinds \cup {"init"}
  /\ todo \in [Channels -> Nat]
  /\ fetched \in Maps
  /\ undone \in SUBSET Channels
  /\ due \in [Kinds -> BOOLEAN]
  /\ first \in Kinds
  /\ req \in [Requests -> [st : {"idle", "waiting", "reading", "done"},
                           snap : Maps, left : SUBSET Channels]]
  /\ retired \in SUBSET Channels
  /\ published \in Maps

\* Cache::initialize: both caches empty, and the first fetch_new_campaigns
\* begins; the timers, created after it, tick at once.
Init ==
  /\ reported \in [Channels -> [status : {"Live", "Finalized"}, ver : {1}]]
  /\ calm = FALSE
  /\ active = EmptyMap
  /\ finalized = {}
  /\ lock = Unlocked
  /\ pc = "list"
  /\ round = "init"
  /\ todo = NoCalls
  /\ fetched = EmptyMap
  /\ undone = {}
  /\ due = [k \in Kinds |-> TRUE]
  /\ first = "new"
  /\ req = [h \in Requests |-> NoRequest]
  /\ retired = {}
  /\ published = EmptyMap

\* serve() spawns the task and binds only when the initial round has returned.
Serving == round # "init" \/ pc = "select"
------------------------------------------------------------------------------
(* The validators. *)

\* What is reported of a campaign changes: new messages, balances, time.
ValidatorsMove(c) ==
  /\ reported[c].ver < MaxVersion
  /\ FinalIsForever => reported[c].status = "Live"
  /\ \E s \in {"Live", "Finalized"} :
       reported' = [reported EXCEPT ![c] = [status |-> s, ver |-> reported[c].ver + 1]]
  /\ UNCHANGED <<calm, active, finalized, lock, pc, round, todo, fetched, undone,
                 timers, req, history>>

\* From here on calls succeed in time.
CalmDown ==
  /\ ~calm
  /\ calm' = TRUE
  /\ UNCHANGED <<reported, active, finalized, lock, pc, round, todo, fetched,
                 undone, timers, req, history>>
------------------------------------------------------------------------------
(* Timers and the loop of the refresh task. *)

Tick(k) ==
  /\ Serving
  /\ ~due[k]
  /\ due' = [due EXCEPT ![k] = TRUE]
  /\ UNCHANGED <<env, active, finalized, lock, pc, round, todo, fetched, undone,
                 first, req, history>>

\* Mutant of Yield: the timer of the new rounds is always polled first.
YieldNewFirst(k) ==
  /\ pc = "select"
  /\ due[k]
  /\ k = "new" \/ ~due["new"]
  /\ due' = [due EXCEPT ![k] = FALSE]
  /\ first' = first
  /\ round' = k

\* select_time.next(): `first` yields if it is due and loses its precedence,
\* otherwise the other timer yields.
Yield(k) ==
  /\ pc = "select"
  /\ due[k]
  /\ first = k \/ ~due[Other(k)]
  /\ due' = [due EXCEPT ![k] = FALSE]
  /\ first' = IF first = k THEN Other(k) ELSE first
  /\ round' = k

\* TimeFor::New: fetch_new_campaigns asks the validators for their channels.
StartNew ==
  /\ Yield("new")
  /\ pc' = "list"
  /\ UNCHANGED <<env, active, finalized, lock, todo, fetched, undone, req, history>>

\* TimeFor::Update: fetch_campaign_updates asks for the read guard.
StartUpdate ==
  /\ Yield("update")
  /\ pc' = "read"
  /\ lock' = Enqueue(lock, Refresher)
  /\ UNCHANGED <<env, active, finalized, todo, fetched, undone, req, history>>

\* The round's future returns or is dropped, and with it what it collected.
EndRound ==
  /\ pc' = "select"
  /\ todo' = NoCalls
  /\ fetched' = EmptyMap
  /\ undone' = {}

\* Mutant of TimeOut: the guard outlives the round that is dropped.
TimeOutKeepsGuard ==
  /\ ~calm
  /\ round # "init"
  /\ pc \in AwaitPoints
  /\ EndRound
  /\ UNCHANGED <<env, active, finalized, lock, round, timers, req, history>>

\* Mutant of TimeOut: the critical section of update() awaits, too.
TimeOutAnywhere ==
  /\ ~calm
  /\ round # "init"
  /\ pc # "select"
  /\ EndRound
  /\ lock' = Release(lock, Refresher)
  /\ UNCHANGED <<env, active, finalized, round, timers, req, history>>

\* timeout(..) elapses: the round is dropped where it awaits, with its guard
\* or its place in the queue.
TimeOut ==
  /\ ~calm
  /\ round # "init"
  /\ pc \in AwaitPoints
  /\ EndRound
  /\ lock' = Release(lock, Refresher)
  /\ UNCHANGED <<env, active, finalized, round, timers, req, history>>
------------------------------------------------------------------------------
(* A round: collecting the statuses. *)

\* get_all_channels: each validator lists some of the channels, none if its
\* request fails.
ListChannels ==
  /\ pc = "list"
  /\ todo' \in [Channels -> 0..Validators]
  /\ pc' = "collect"
  /\ UNCHANGED <<env, active, finalized, lock, round, fetched, undone, timers,
                 req, history>>

\* Mutant of GetStatus: the loop makes a call after the last one.
GetStatusOnceMore(c) ==
  /\ todo[c] >= 0
  /\ todo' = [todo EXCEPT ![c] = todo[c] - 1]
  /\ \/ fetched' = [fetched EXCEPT ![c] = reported[c]]
     \/ ~calm /\ fetched' = fetched

\* One get_status call returns: its result replaces an earlier one of the same
\* channel, an error is logged and leaves no result.
GetStatus(c) ==
  /\ todo[c] > 0
  /\ todo' = [todo EXCEPT ![c] = todo[c] - 1]
  /\ \/ fetched' = [fetched EXCEPT ![c] = reported[c]]
     \/ ~calm /\ fetched' = fetched

CollectStatus(c) ==
  /\ pc = "collect"
  /\ GetStatus(c)
  /\ UNCHANGED <<env, active, finalized, lock, pc, round, undone, timers, req,
                 history>>

\* collect_campaigns is done; update() asks for the write guard.
CollectDone ==
  /\ pc = "collect"
  /\ todo = NoCalls
  /\ pc' = "write"
  /\ lock' = Enqueue(lock, Refresher)
  /\ UNCHANGED <<env, active, finalized, round, todo, fetched, undone, timers,
                 req, history>>

\* The read guard is granted: one call per campaign in the cache.
AcquireRead ==
  /\ pc = "read"
  /\ CanRead(lock, Refresher)
  /\ lock' = GrantRead(lock, Refresher)
  /\ todo' = [c \in Channels |-> IF c \in Keys(active) THEN 1 ELSE 0]
  /\ pc' = "fetch"
  /\ UNCHANGED <<env, active, finalized, round, fetched, undone, timers, req,
                 history>>

\* The calls are made while the read guard is held.
FetchStatus(c) ==
  /\ pc = "fetch"
  /\ GetStatus(c)
  /\ UNCHANGED <<env, active, finalized, lock, pc, round, undone, timers, req,
                 history>>

\* Mutant of FetchDone: update() is called while the read guard is held.
FetchDoneHoldsGuard ==
  /\ pc = "fetch"
  /\ todo = NoCalls
  /\ pc' = "write"
  /\ lock' = Enqueue(lock, Refresher)
  /\ UNCHANGED <<env, active, finalized, round, todo, fetched, undone, timers,
                 req, history>>

\* The read guard goes out of scope, then update() asks for the write guard.
FetchDone ==
  /\ pc = "fetch"
  /\ todo = NoCalls
  /\ pc' = "write"
  /\ lock' = Enqueue(Release(lock, Refresher), Refresher)
  /\ UNCHANGED <<env, active, finalized, round, todo, fetched, undone, timers,
                 req, history>>
------------------------------------------------------------------------------
(* A round: Cache::update. *)

\* Mutant of AcquireWrite: the new campaigns replace the cache instead of
\* extending it.
AcquireWriteReplace ==
  /\ pc = "write"
  /\ CanWrite(lock, Refresher)
  /\ lock' = GrantWrite(lock, Refresher)
  /\ undone' = Keys(fetched)
  /\ active' = IF round = "update" THEN active ELSE EmptyMap
  /\ pc' = "apply"
  /\ UNCHANGED <<env, finalized, round, todo, fetched, timers, req, history>>

\* Mutant of AcquireWrite: `finalized` is extended first.
AcquireWriteFinalizedFirst ==
  /\ pc = "write"
  /\ CanWrite(lock, Refresher)
  /\ lock' = GrantWrite(lock, Refresher)
  /\ undone' = Keys(fetched)
  /\ finalized' = finalized \cup FinalIn(fetched)
  /\ pc' = "apply"
  /\ UNCHANGED <<env, active, round, todo, fetched, timers, req, history>>

\* The write guard is granted; from here to its release nothing awaits.
AcquireWrite ==
  /\ pc = "write"
  /\ CanWrite(lock, Refresher)
  /\ lock' = GrantWrite(lock, Refresher)
  /\ undone' = Keys(fetched)
  /\ pc' = "apply"
  /\ UNCHANGED <<env, active, finalized, round, todo, fetched, timers, req, history>>

\* Mutant of ExtendActive: finalized campaigns are not sorted out.
ExtendActiveAll(c) ==
  /\ pc = "apply"
  /\ round # "update"
  /\ c \in undone
  /\ active' = [active EXCEPT ![c] = fetched[c]]
  /\ undone' = undone \ {c}
  /\ UNCHANGED <<env, finalized, lock, pc, round, todo, fetched, timers, req, history>>

\* ActiveAction::New: active.extend, which inserts or replaces.
ExtendActive(c) ==
  /\ pc = "apply"
  /\ round # "update"
  /\ c \in undone \cap LiveIn(fetched)
  /\ active' = [active EXCEPT ![c] = fetched[c]]
  /\ undone' = undone \ {c}
  /\ UNCHANGED <<env, finalized, lock, pc, round, todo, fetched, timers, req, history>>

\* Mutant of ModifyActive: or_insert in place of and_modify.
ModifyActiveKeeps(c) ==
  /\ pc = "apply"
  /\ round = "update"
  /\ c \in undone \cap LiveIn(fetched)
  /\ active' = IF c \in Keys(active) THEN active ELSE [active EXCEPT ![c] = fetched[c]]
  /\ undone' = undone \ {c}
  /\ UNCHANGED <<env, finalized, lock, pc, round, todo, fetched, timers, req, history>>

\* ActiveAction::Update: entry().and_modify(), which inserts nothing.
ModifyActive(c) ==
  /\ pc = "apply"
  /\ round = "update"
  /\ c \in undone \cap LiveIn(fetched)
  /\ active' = IF c \in Keys(active) THEN [active EXCEPT ![c] = fetched[c]] ELSE active
  /\ undone' = undone \ {c}
  /\ UNCHANGED <<env, finalized, lock, pc, round, todo, fetched, timers, req, history>>

\* Once those are done, the finalized channels are removed from `active`.
RemoveFinalized(c) ==
  /\ pc = "apply"
  /\ undone \cap LiveIn(fetched) = {}
  /\ c \in undone
  /\ active' = [active EXCEPT ![c] = Absent]
  /\ undone' = undone \ {c}
  /\ retired' = retired \cup {c}
  /\ UNCHANGED <<env, finalized, lock, pc, round, todo, fetched, timers, req,
                 published>>

\* The write guard is released; without finalized channels the round is over.
ReleaseWrite ==
  /\ pc = "apply"
  /\ undone = {}
  /\ lock' = Release(lock, Refresher)
  /\ published' = active
  /\ IF FinalIn(fetched) = {}
       THEN EndRound
       ELSE pc' = "finalize" /\ UNCHANGED <<todo, fetched, undone>>
  /\ UNCHANGED <<env, active, finalized, round, timers, req, retired>>

\* Mutant of ExtendFinalized: the finalized channels replace the earlier ones.
ExtendFinalizedReplace ==
  /\ pc = "finalize"
  /\ finalized' = FinalIn(fetched)
  /\ EndRound
  /\ UNCHANGED <<env, active, lock, round, timers, req, history>>

\* finalized.write().await.extend(..); nothing else uses that lock.
ExtendFinalized ==
  /\ pc = "finalize"
  /\ finalized' = finalized \cup FinalIn(fetched)
  /\ EndRound
  /\ UNCHANGED <<env, active, lock, round, timers, req, history>>
------------------------------------------------------------------------------
(* Request handlers: get_campaigns. *)

Arrive(h) ==
  /\ Serving
  /\ req[h].st \in {"idle", "done"}
  /\ req' = [req EXCEPT ![h] = [NoRequest EXCEPT !.st = "waiting"]]
  /\ lock' = Enqueue(lock, h)
  /\ UNCHANGED <<env, active, finalized, pc, round, todo, fetched, undone, timers,
                 history>>

\* The client goes away: hyper drops the handler while it awaits the guard.
Disconnect(h) ==
  /\ req[h].st = "waiting"
  /\ req' = [req EXCEPT ![h] = NoRequest]
  /\ lock' = Release(lock, h)
  /\ UNCHANGED <<env, active, finalized, pc, round, todo, fetched, undone, timers,
                 history>>

\* Mutant of BeginSnapshot: the guard is a temporary, dropped at once.
BeginSnapshotUnguarded(h) ==
  /\ req[h].st = "waiting"
  /\ CanRead(lock, h)
  /\ lock' = Release(lock, h)
  /\ req' = [req EXCEPT ![h] = [st |-> "reading", snap |-> EmptyMap, left |-> Channels]]
  /\ UNCHANGED <<env, active, finalized, pc, round, todo, fetched, undone, timers,
                 history>>

BeginSnapshot(h) ==
  /\ req[h].st = "waiting"
  /\ CanRead(lock, h)
  /\ lock' = GrantRead(lock, h)
  /\ req' = [req EXCEPT ![h] = [st |-> "reading", snap |-> EmptyMap, left |-> Channels]]
  /\ UNCHANGED <<env, active, finalized, pc, round, todo, fetched, undone, timers,
                 history>>

\* active_campaigns.iter(): one entry at a time, other threads run meanwhile.
ReadEntry(h, c) ==
  /\ req[h].st = "reading"
  /\ c \in req[h].left
  /\ req' = [req EXCEPT ![h] = [st   |-> "reading",
                                snap |-> [req[h].snap EXCEPT ![c] = active[c]],
                                left |-> req[h].left \ {c}]]
  /\ UNCHANGED <<env, active, finalized, lock, pc, round, todo, fetched, undone,
                 timers, history>>

\* get_campaigns returns its copies and the read guard is dropped.
EndSnapshot(h) ==
  /\ req[h].st = "reading"
  /\ req[h].left = {}
  /\ req' = [req EXCEPT ![h] = [req[h] EXCEPT !.st = "done"]]
  /\ lock' = Release(lock, h)
  /\ UNCHANGED <<env, active, finalized, pc, round, todo, fetched, undone, timers,
                 history>>
------------------------------------------------------------------------------
Environment == (\E c \in Channels : ValidatorsMove(c)) \/ CalmDown

Refresh ==
  \/ StartNew \/ StartUpdate \/ TimeOut
  \/ ListChannels \/ CollectDone
  \/ AcquireRead \/ FetchDone
  \/ AcquireWrite \/ ReleaseWrite \/ ExtendFinalized
  \/ \E c \in Channels : \/ CollectStatus(c) \/ FetchStatus(c)
                         \/ ExtendActive(c) \/ ModifyActive(c)
                         \/ RemoveFinalized(c)

\* What the runtime does for a request once it waits for the guard.
Serve(h) == BeginSnapshot(h) \/ EndSnapshot(h) \/ \E c \in Channels : ReadEntry(h, c)

Next ==
  \/ Environment
  \/ Refresh
  \/ \E k \in Kinds : Tick(k)
  \/ \E h \in Requests : Arrive(h) \/ Disconnect(h) \/ Serve(h)

Spec == Init /\ [][Next]_vars

\* The refresh task is polled whenever it can make progress (each of its calls
\* ends: the HTTP client has a request timeout), so are the handlers, and the
\* timers keep ticking.  Nothing is assumed of the validators and the clients.
Fairness ==
  /\ WF_vars(Refresh)
  /\ \A k \in Kinds : WF_vars(Tick(k))
  /\ \A h \in Requests : WF_vars(Serve(h))

FairSpec == Spec /\ Fairness
------------------------------------------------------------------------------
(* What a state may never be. *)

\* A handler that iterates over `active` sees the cache as one round left it,
\* never half of a round: update() writes all its entries under one write guard
\* and get_campaigns holds the read guard until it has copied the last one.
SnapshotAtomic ==
  \A h \in Requests : req[h].st = "reading" =>
    \A c \in Channels \ req[h].left : req[h].snap[c] = published[c]

\* A campaign that a round removed as finalized is never cached as active again,
\* whatever was collected, dropped or still in flight when it was removed, as
\* long as the validators never report it live again.  The code does not look
\* into `finalized` to ensure it.
NoResurrection == FinalIsForever => retired \cap Keys(active) = {}

\* No campaign is in both caches at any moment: update() removes a finalized
\* campaign from `active` before it extends `finalized`.
DisjointCaches == FinalIsForever => finalized \cap Keys(active) = {}

\* Nobody waits for a lock that is not going to be released: while someone waits, a
\* holder of the guard, which never waits for it itself, goes on with its work, or
\* the head of the queue gets the lock.
NeverStuck ==
  lock.waiting # {} =>
    \/ pc \in {"fetch", "apply"}
    \/ \E h \in Requests : req[h].st = "reading"
    \/ \E h \in Requests : req[h].st = "waiting" /\ CanRead(lock, h)
    \/ pc = "read" /\ CanRead(lock, Refresher)
    \/ pc = "write" /\ CanWrite(lock, Refresher)

(* Why they hold. *)

\* The guard that the refresh task or a handler holds is the one its place in
\* the code says, and the lock excludes writers from readers.
LockInv ==
  /\ lock.writers \subseteq {Refresher}
  /\ lock.writers = {} \/ lock.readers = {}
  /\ pc = "apply" <=> Refresher \in lock.writers
  /\ pc = "fetch" <=> Refresher \in lock.readers
  /\ \A h \in Requests : req[h].st = "reading" <=> h \in lock.readers

\* Outside the critical section the cache is what the last one left.
PublishedInv == pc # "apply" => published = active

\* What the critical section has left to do.
ApplyInv ==
  /\ pc = "apply" => /\ undone \subseteq Keys(fetched)
                     /\ FinalIn(fetched) \subseteq retired \cup undone
  /\ pc = "finalize" => FinalIn(fetched) \subseteq retired

\* Nothing that is collected, cached or recorded contradicts a retirement.
FinalInv ==
  FinalIsForever =>
    /\ retired \subseteq FinalIn(reported)
    /\ FinalIn(fetched) \subseteq FinalIn(reported)
    /\ LiveIn(fetched) \cap retired = {}
    /\ retired \cap Keys(active) = {}
    /\ finalized \subseteq retired

\* The inductive invariant: guards are held where the code holds them, only the
\* critical section separates the cache from what requests may have read of it,
\* and no result in flight can bring a retired campaign back.
IInv == TypeOK /\ LockInv /\ PublishedInv /\ ApplyInv /\ FinalInv /\ SnapshotAtomic

\* Results are never newer than the validators' reports, nor is the cache, and an
\* update collects results of cached campaigns only.
CollectedInv ==
  /\ pc = "select" => fetched = EmptyMap
  /\ pc = "fetch" => \A c \in Channels : todo[c] > 0 => c \in Keys(active)
  /\ pc \in {"list", "collect"} => round # "update"
  /\ round = "update" /\ pc # "finalize" => Keys(fetched) \subseteq Keys(published)
  /\ \A c \in Channels : /\ fetched[c].ver <= reported[c].ver
                         /\ active[c].ver <= reported[c].ver

\* How far the critical section is between the published cache and the next one.
AppliedInv ==
  pc = "apply" =>
    \A c \in Channels :
      \/ c \in undone \cup (Channels \ Keys(fetched)) /\ active[c] = published[c]
      \/ c \in LiveIn(fetched) \ undone /\ active[c] = fetched[c]
      \/ c \in FinalIn(fetched) \ undone /\ active[c] = Absent

\* What the refinement rests on: the round carries exactly what its commit will
\* turn into the next view, and the half-applied cache is hidden by the guard.
ViewInv == /\ TypeOK /\ LockInv /\ PublishedInv /\ ApplyInv /\ SnapshotAtomic
           /\ CollectedInv /\ AppliedInv

(* What a step may never do. *)

\* A campaign leaves the cache only when it is finalized: not because a call
\* failed, a validator did not list it or a round timed out.
LiveCampaignsStay ==
  [][FinalIsForever => \A c \in Keys(active) \ Keys(active') :
                          reported[c].status = "Finalized"]_vars

\* Removed from `active`, but neither in `finalized` nor among what the round in
\* progress is going to add to it.
Unrecorded ==
  retired \ (finalized \cup (IF pc \in {"apply", "finalize"} THEN FinalIn(fetched) ELSE {}))

\* A campaign that was removed as finalized gets lost to `finalized` in one way only: a
\* round that is not the initial one runs into its timeout between the two locks.
RecordedUnlessDropped ==
  [][Unrecorded' \subseteq Unrecorded \cup
       (IF pc = "finalize" /\ round # "init" /\ ~calm THEN FinalIn(fetched) ELSE {})]_vars

(* What must happen. *)

\* A handler that waits for the read guard gets it, finishes and releases it,
\* unless its client leaves.
RequestsAnswered ==
  \A h \in Requests : req[h].st \in {"waiting", "reading"} ~> req[h].st \in {"done", "idle"}

\* When calls succeed in time, a finalized campaign leaves the cache for good.
FinalizedLeaves ==
  \A c \in Channels :
    calm /\ reported[c].status = "Finalized" ~> [](c \notin Keys(active))

\* When calls succeed in time, each cached campaign catches up with what the
\* validators report of it now, or leaves the cache.
ActiveRefreshed ==
  \A c \in Channels, n \in 1..MaxVersion :
    calm /\ c \in Keys(active) /\ reported[c].ver = n
      ~> c \notin Keys(active) \/ active[c].ver >= n

(* The cache implements CampaignView: a round is committed when it releases
   the write guard. *)
View == INSTANCE CampaignView WITH
  view     <- published,
  result   <- IF pc \in {"finalize", "select"} THEN EmptyMap ELSE fetched,
  owed     <- IF pc = "finalize" THEN FinalIn(fetched) ELSE {},
  recorded <- finalized,
  answered <- {h \in Requests : req[h].st = "done"},
  answer   <- [h \in Requests |-> IF req[h].st = "done" THEN req[h].snap ELSE EmptyMap]

\* Every behaviour of the cache, its lock, timeouts and handlers is one of
\* CampaignView: rounds are committed whole or not at all, and every answer is
\* the whole view of one moment.
ImplementsView == View!Spec

(* The refresh task implements Rounds. *)
Loop == INSTANCE Rounds WITH running <- IF pc = "select" THEN "none" ELSE round

\* Every round ends, though it may wait for handlers and for itself to let go of the
\* lock, and the next one begins when a timer is due; the two kinds take turns.
ImplementsRounds == Loop!FairSpec

\* A timer that is due is served, though the other one may always be due, too.
TimersServed == Loop!Served
==============================================================================
