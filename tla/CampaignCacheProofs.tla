-------------------------- MODULE CampaignCacheProofs --------------------------
(***************************************************************************)
(* Theorems about CampaignCache, for any number of channels, requests,     *)
(* validators and read permits.                                            *)
(***************************************************************************)
EXTENDS CampaignCache, FiniteSetTheorems, TLAPS

\* The read and write permits are kept track of by sets of tasks, and each
\* operation of the lock keeps them so.
LEMMA LockTypes ==
  ASSUME NEW l \in Locks, NEW t \in Tasks
  PROVE  /\ Enqueue(l, t) \in Locks
         /\ GrantRead(l, t) \in Locks
         /\ GrantWrite(l, t) \in Locks
         /\ Release(l, t) \in Locks
  BY DEF Locks, Enqueue, GrantRead, GrantWrite, Release, Without

\* The maps that the rounds and the handlers start from.
LEMMA MapTypes ==
  /\ Absent \in Entries
  /\ EmptyMap \in Maps
  /\ Keys(EmptyMap) = {} /\ LiveIn(EmptyMap) = {} /\ FinalIn(EmptyMap) = {}
  /\ NoCalls \in [Channels -> Nat]
  /\ NoRequest \in [st : {"idle", "waiting", "reading", "done"},
                    snap : Maps, left : SUBSET Channels]
<1>1. Absent \in Entries
  BY DEF Absent, Entries
<1>2. EmptyMap \in Maps
  BY <1>1 DEF EmptyMap, Maps
<1>3. Keys(EmptyMap) = {} /\ LiveIn(EmptyMap) = {} /\ FinalIn(EmptyMap) = {}
  BY DEF EmptyMap, Keys, LiveIn, FinalIn, Absent
<1>4. NoCalls \in [Channels -> Nat]
  BY DEF NoCalls
<1> QED
  BY <1>1, <1>2, <1>3, <1>4 DEF NoRequest

LEMMA InitTypeOK == Init => TypeOK
<1> SUFFICES ASSUME Init PROVE TypeOK
  OBVIOUS
<1>1. reported \in [Channels -> Observations]
  BY DEF Init, Observations
<1>2. lock \in Locks
  BY DEF Init, Unlocked, Locks
<1> QED
  BY <1>1, <1>2, MapTypes
     DEF Init, TypeOK, Kinds, AwaitPoints

\* A step keeps every variable in its type.
LEMMA NextTypeOK == TypeOK /\ [Next]_vars => TypeOK'
<1> SUFFICES ASSUME TypeOK, [Next]_vars PROVE TypeOK'
  OBVIOUS
<1> USE RefresherAssumption, ValidatorsAssumption
<1> USE DEF TypeOK, env, timers, history
<1>1. ASSUME NEW c \in Channels, ValidatorsMove(c) PROVE TypeOK'
  BY <1>1 DEF ValidatorsMove, Observations
<1>2. CASE CalmDown
  BY <1>2 DEF CalmDown
<1>3. ASSUME NEW k \in Kinds, Tick(k) PROVE TypeOK'
  BY <1>3 DEF Tick
<1>4. CASE StartNew
  BY <1>4 DEF StartNew, Yield, Other, Kinds, AwaitPoints
<1>5. CASE StartUpdate
  BY <1>5, LockTypes DEF StartUpdate, Yield, Other, Kinds, AwaitPoints
<1>6. CASE TimeOut
  BY <1>6, LockTypes, MapTypes DEF TimeOut, EndRound
<1>7. CASE ListChannels
  BY <1>7 DEF ListChannels, AwaitPoints
<1>8. ASSUME NEW c \in Channels, GetStatus(c)
      PROVE  fetched' \in Maps /\ todo' \in [Channels -> Nat]
  BY <1>8 DEF GetStatus, Maps, Entries
<1>9. ASSUME NEW c \in Channels, CollectStatus(c) PROVE TypeOK'
  BY <1>8, <1>9 DEF CollectStatus
<1>10. CASE CollectDone
  BY <1>10, LockTypes DEF CollectDone, AwaitPoints
<1>11. CASE AcquireRead
  BY <1>11, LockTypes DEF AcquireRead, AwaitPoints
<1>12. ASSUME NEW c \in Channels, FetchStatus(c) PROVE TypeOK'
  BY <1>8, <1>12 DEF FetchStatus
<1>13. CASE FetchDone
  BY <1>13, LockTypes DEF FetchDone, AwaitPoints
<1>14. CASE AcquireWrite
  BY <1>14, LockTypes DEF AcquireWrite, Keys
<1>15. ASSUME NEW c \in Channels, ExtendActive(c) PROVE TypeOK'
  BY <1>15 DEF ExtendActive, Maps
<1>16. ASSUME NEW c \in Channels, ModifyActive(c) PROVE TypeOK'
  BY <1>16 DEF ModifyActive, Maps
<1>17. ASSUME NEW c \in Channels, RemoveFinalized(c) PROVE TypeOK'
  BY <1>17, MapTypes DEF RemoveFinalized, Maps
<1>18. CASE ReleaseWrite
  BY <1>18, LockTypes, MapTypes DEF ReleaseWrite, EndRound, AwaitPoints
<1>19. CASE ExtendFinalized
  BY <1>19, MapTypes DEF ExtendFinalized, EndRound, FinalIn
<1>20. ASSUME NEW h \in Requests, Arrive(h) PROVE TypeOK'
  BY <1>20, LockTypes, MapTypes DEF Arrive, Requests, NoRequest
<1>21. ASSUME NEW h \in Requests, Disconnect(h) PROVE TypeOK'
  BY <1>21, LockTypes, MapTypes DEF Disconnect, Requests
<1>22. ASSUME NEW h \in Requests, BeginSnapshot(h) PROVE TypeOK'
  BY <1>22, LockTypes, MapTypes DEF BeginSnapshot, Requests
<1>23. ASSUME NEW h \in Requests, NEW c \in Channels, ReadEntry(h, c) PROVE TypeOK'
  <2>1. [req[h].snap EXCEPT ![c] = active[c]] \in Maps
    BY DEF Maps
  <2> QED
    BY <2>1, <1>23 DEF ReadEntry
<1>24. ASSUME NEW h \in Requests, EndSnapshot(h) PROVE TypeOK'
  BY <1>24, LockTypes DEF EndSnapshot, Requests
<1>25. CASE UNCHANGED vars
  BY <1>25 DEF vars
<1> QED
  BY <1>1, <1>2, <1>3, <1>4, <1>5, <1>6, <1>7, <1>9, <1>10, <1>11, <1>12, <1>13,
     <1>14, <1>15, <1>16, <1>17, <1>18, <1>19, <1>20, <1>21, <1>22, <1>23, <1>24,
     <1>25 DEF Next, Environment, Refresh, Serve

\* In every behaviour, for any constants, each variable keeps its type: the
\* program counter, the lock and both caches are only what the code can hold.
THEOREM TypeCorrect == Spec => []TypeOK
<1> QED
  BY InitTypeOK, NextTypeOK, PTL DEF Spec
------------------------------------------------------------------------------
\* The steps that neither move the refresh task, nor touch the lock or a request.
Quiet ==
  \/ Environment
  \/ \E k \in Kinds : Tick(k)
  \/ \E c \in Channels : CollectStatus(c) \/ FetchStatus(c)
  \/ UNCHANGED vars

\* The steps of the critical section between its first and its last.
Applying ==
  \E c \in Channels : ExtendActive(c) \/ ModifyActive(c) \/ RemoveFinalized(c)

LEMMA QuietSteps ==
  Quiet \/ Applying => UNCHANGED <<lock, pc, round, req, published, finalized>>
  BY DEF Quiet, Applying, Environment, ValidatorsMove, CalmDown, Tick, CollectStatus,
         FetchStatus, ExtendActive, ModifyActive, RemoveFinalized, vars, history

\* Guards stay where the code holds them: every step that takes, returns or
\* drops one moves its holder to the place that goes with it.
LEMMA LockStep == TypeOK /\ LockInv /\ [Next]_vars => LockInv'
<1> SUFFICES ASSUME TypeOK, LockInv, [Next]_vars PROVE LockInv'
  OBVIOUS
<1> USE RefresherAssumption
<1> USE DEF LockInv, Locks
<1>1. lock \in Locks /\ Refresher \notin Requests
  BY DEF TypeOK, Requests
<1>2. CASE Quiet \/ Applying
  BY <1>2, QuietSteps
<1>4. CASE StartNew
  BY <1>4 DEF StartNew, Yield
<1>5. CASE StartUpdate
  BY <1>1, <1>5 DEF StartUpdate, Yield, Enqueue
<1>6. CASE TimeOut
  BY <1>1, <1>6 DEF TimeOut, EndRound, Release, AwaitPoints
<1>7. CASE ListChannels \/ ExtendFinalized
  BY <1>7 DEF ListChannels, ExtendFinalized, EndRound
<1>8. CASE CollectDone
  BY <1>1, <1>8 DEF CollectDone, Enqueue
<1>9. CASE AcquireRead
  BY <1>1, <1>9 DEF AcquireRead, CanRead, GrantRead
<1>10. CASE FetchDone
  BY <1>1, <1>10 DEF FetchDone, Enqueue, Release
<1>11. CASE AcquireWrite
  BY <1>1, <1>11 DEF AcquireWrite, CanWrite, GrantWrite
<1>12. CASE ReleaseWrite
  BY <1>1, <1>12 DEF ReleaseWrite, EndRound, Release
<1>13. ASSUME NEW h \in Requests, Arrive(h) PROVE LockInv'
  BY <1>1, <1>13 DEF Arrive, Enqueue, NoRequest, TypeOK
<1>14. ASSUME NEW h \in Requests, Disconnect(h) PROVE LockInv'
  BY <1>1, <1>14 DEF Disconnect, Release, NoRequest, TypeOK
<1>15. ASSUME NEW h \in Requests, BeginSnapshot(h) PROVE LockInv'
  BY <1>1, <1>15 DEF BeginSnapshot, CanRead, GrantRead, TypeOK
<1>16. ASSUME NEW h \in Requests, NEW c \in Channels, ReadEntry(h, c) PROVE LockInv'
  BY <1>16 DEF ReadEntry, TypeOK
<1>17. ASSUME NEW h \in Requests, EndSnapshot(h) PROVE LockInv'
  BY <1>1, <1>17 DEF EndSnapshot, Release, TypeOK
<1> QED
  BY <1>2, <1>4, <1>5, <1>6, <1>7, <1>8, <1>9, <1>10, <1>11, <1>12, <1>13, <1>14,
     <1>15, <1>16, <1>17 DEF Next, Refresh, Serve, Quiet, Applying

\* `active` changes only between the first and the last step of the critical
\* section, and the last one publishes it.
LEMMA PublishedStep == PublishedInv /\ [Next]_vars => PublishedInv'
<1> SUFFICES ASSUME PublishedInv, [Next]_vars PROVE PublishedInv'
  OBVIOUS
<1> USE DEF PublishedInv
<1>1. CASE Applying
  BY <1>1 DEF Applying, ExtendActive, ModifyActive, RemoveFinalized
<1>2. CASE ReleaseWrite
  BY <1>2 DEF ReleaseWrite
<1>3. CASE AcquireWrite
  BY <1>3 DEF AcquireWrite
<1>4. CASE UNCHANGED <<pc, active, published>>
  BY <1>4
<1>5. CASE \/ StartNew \/ StartUpdate \/ TimeOut \/ ListChannels \/ CollectDone
           \/ AcquireRead \/ FetchDone \/ ExtendFinalized
  BY <1>5 DEF StartNew, StartUpdate, Yield, TimeOut, AwaitPoints, ListChannels, CollectDone,
              AcquireRead, FetchDone, ExtendFinalized, history
<1>6. CASE Quiet
  BY <1>4, <1>6 DEF Quiet, Environment, ValidatorsMove, CalmDown, Tick, CollectStatus,
                    FetchStatus, vars, history
<1>7. CASE \E h \in Requests : Arrive(h) \/ Disconnect(h) \/ Serve(h)
  BY <1>4, <1>7 DEF Arrive, Disconnect, Serve, BeginSnapshot, ReadEntry, EndSnapshot,
                    history
<1> QED
  BY <1>1, <1>2, <1>3, <1>5, <1>6, <1>7 DEF Next, Refresh, Quiet, Applying

\* What a handler has copied so far stays what was last published: a round
\* publishes only with the write guard, which no handler lets it have meanwhile.
LEMMA SnapshotStep ==
  TypeOK /\ LockInv /\ PublishedInv /\ SnapshotAtomic /\ [Next]_vars => SnapshotAtomic'
<1> SUFFICES ASSUME TypeOK, LockInv, PublishedInv, SnapshotAtomic, [Next]_vars
             PROVE  SnapshotAtomic'
  OBVIOUS
<1> USE DEF SnapshotAtomic
<1>1. CASE UNCHANGED <<req, published>>
  BY <1>1
<1>2. CASE Quiet \/ Applying
  BY <1>1, <1>2, QuietSteps
<1>3. CASE \/ StartNew \/ StartUpdate \/ TimeOut \/ ListChannels \/ CollectDone
           \/ AcquireRead \/ FetchDone \/ AcquireWrite \/ ExtendFinalized
  BY <1>1, <1>3 DEF StartNew, StartUpdate, TimeOut, ListChannels, CollectDone, AcquireRead,
                    FetchDone, AcquireWrite, ExtendFinalized, history
<1>4. CASE ReleaseWrite
  <2>1. \A h \in Requests : req[h].st # "reading"
    BY <1>4 DEF ReleaseWrite, LockInv
  <2> QED
    BY <1>4, <2>1 DEF ReleaseWrite
<1>5. ASSUME NEW h \in Requests, Arrive(h) PROVE SnapshotAtomic'
  BY <1>5 DEF Arrive, NoRequest, history, TypeOK
<1>6. ASSUME NEW h \in Requests, Disconnect(h) PROVE SnapshotAtomic'
  BY <1>6 DEF Disconnect, NoRequest, history, TypeOK
<1>7. ASSUME NEW h \in Requests, BeginSnapshot(h) PROVE SnapshotAtomic'
  BY <1>7 DEF BeginSnapshot, history, TypeOK
<1>8. ASSUME NEW h \in Requests, NEW c \in Channels, ReadEntry(h, c)
      PROVE  SnapshotAtomic'
  <2>1. active = published
    BY <1>8 DEF ReadEntry, LockInv, PublishedInv
  <2> QED
    BY <1>8, <2>1 DEF ReadEntry, history, TypeOK, Maps
<1>9. ASSUME NEW h \in Requests, EndSnapshot(h) PROVE SnapshotAtomic'
  BY <1>9 DEF EndSnapshot, history, TypeOK
<1> QED
  BY <1>2, <1>3, <1>4, <1>5, <1>6, <1>7, <1>8, <1>9 DEF Next, Refresh, Serve, Quiet, Applying

\* The critical section finds each finalized channel of the round in `undone`
\* until it has removed it from the cache.
LEMMA ApplyStep == ApplyInv /\ [Next]_vars => ApplyInv'
<1> SUFFICES ASSUME ApplyInv, [Next]_vars PROVE ApplyInv'
  OBVIOUS
<1> USE DEF ApplyInv
<1>1. CASE \/ StartNew \/ StartUpdate \/ TimeOut \/ ListChannels \/ CollectDone
           \/ AcquireRead \/ FetchDone \/ ExtendFinalized
  BY <1>1 DEF StartNew, StartUpdate, TimeOut, EndRound, ListChannels, CollectDone,
              AcquireRead, FetchDone, ExtendFinalized
<1>2. CASE AcquireWrite
  BY <1>2 DEF AcquireWrite, Keys, FinalIn, Absent
<1>3. CASE Applying
  <2>1. ASSUME NEW c \in Channels, ExtendActive(c) \/ ModifyActive(c) PROVE ApplyInv'
    BY <2>1 DEF ExtendActive, ModifyActive, LiveIn, FinalIn, history
  <2>2. ASSUME NEW c \in Channels, RemoveFinalized(c) PROVE ApplyInv'
    BY <2>2 DEF RemoveFinalized
  <2> QED
    BY <1>3, <2>1, <2>2 DEF Applying
<1>4. CASE ReleaseWrite
  BY <1>4 DEF ReleaseWrite, EndRound
<1>5. CASE Quiet
  <2>1. ASSUME NEW c \in Channels, CollectStatus(c) \/ FetchStatus(c) PROVE ApplyInv'
    BY <2>1 DEF CollectStatus, FetchStatus
  <2>2. CASE Environment \/ (\E k \in Kinds : Tick(k)) \/ UNCHANGED vars
    BY <2>2 DEF Environment, ValidatorsMove, CalmDown, Tick, vars, history
  <2> QED
    BY <1>5, <2>1, <2>2 DEF Quiet
<1>6. CASE \E h \in Requests : Arrive(h) \/ Disconnect(h) \/ Serve(h)
  BY <1>6 DEF Arrive, Disconnect, Serve, BeginSnapshot, ReadEntry, EndSnapshot, history
<1> QED
  BY <1>1, <1>2, <1>3, <1>4, <1>5, <1>6 DEF Next, Refresh, Quiet, Applying

\* A campaign that a round retired is reported finalized from then on, so that
\* no later result can contradict the retirement, and none collected before it
\* is still to be applied.
LEMMA FinalStep == TypeOK /\ ApplyInv /\ FinalInv /\ [Next]_vars => FinalInv'
<1> SUFFICES ASSUME TypeOK, ApplyInv, FinalInv, FinalIsForever, [Next]_vars
             PROVE  FinalInv'
  BY DEF FinalInv
<1> USE DEF FinalInv
<1>1. CASE UNCHANGED <<reported, fetched, retired, active, finalized>>
  BY <1>1 DEF Keys, LiveIn, FinalIn
<1>2. CASE \/ StartNew \/ StartUpdate \/ ListChannels \/ CollectDone
           \/ AcquireRead \/ FetchDone \/ AcquireWrite
  BY <1>1, <1>2 DEF StartNew, StartUpdate, ListChannels, CollectDone, AcquireRead,
                    FetchDone, AcquireWrite, env, history
<1>3. CASE fetched' = EmptyMap /\ UNCHANGED <<reported, retired, active, finalized>>
  BY <1>3, MapTypes DEF Keys, LiveIn, FinalIn
<1>4. CASE TimeOut
  BY <1>3, <1>4 DEF TimeOut, EndRound, env, history
<1>5. CASE ReleaseWrite
  BY <1>1, <1>3, <1>5 DEF ReleaseWrite, EndRound, env
<1>6. CASE ExtendFinalized
  <2>1. finalized' \subseteq retired
    BY <1>6 DEF ExtendFinalized, ApplyInv
  <2> QED
    BY <1>6, <2>1, MapTypes DEF ExtendFinalized, EndRound, env, history, Keys, LiveIn, FinalIn
<1>7. ASSUME NEW c \in Channels, CollectStatus(c) \/ FetchStatus(c) PROVE FinalInv'
  <2>1. \/ fetched' = [fetched EXCEPT ![c] = reported[c]]
        \/ fetched' = fetched
    BY <1>7 DEF CollectStatus, FetchStatus, GetStatus
  <2>2. UNCHANGED <<reported, retired, active, finalized>>
    BY <1>7 DEF CollectStatus, FetchStatus, env, history
  <2>3. CASE fetched' = [fetched EXCEPT ![c] = reported[c]]
    <3>1. /\ FinalIn(fetched)' \subseteq FinalIn(fetched) \cup ({c} \cap FinalIn(reported))
          /\ LiveIn(fetched)' \subseteq LiveIn(fetched) \cup ({c} \ FinalIn(reported))
      BY <2>3 DEF LiveIn, FinalIn, TypeOK, Maps
    <3>2. UNCHANGED <<FinalIn(reported), Keys(active)>>
      BY <2>2 DEF FinalIn, Keys
    <3> QED
      BY <2>2, <3>1, <3>2
  <2> QED
    BY <1>1, <2>1, <2>2, <2>3
<1>8. ASSUME NEW c \in Channels, ExtendActive(c) \/ ModifyActive(c) PROVE FinalInv'
  <2>1. c \in LiveIn(fetched) /\ c \notin retired
    BY <1>8 DEF ExtendActive, ModifyActive
  <2>2. Keys(active)' \subseteq Keys(active) \cup {c}
    BY <1>8 DEF ExtendActive, ModifyActive, Keys, TypeOK, Maps
  <2> QED
    BY <1>8, <2>1, <2>2 DEF ExtendActive, ModifyActive, env, history, LiveIn, FinalIn
<1>9. ASSUME NEW c \in Channels, RemoveFinalized(c) PROVE FinalInv'
  <2>1. c \in FinalIn(fetched)
    BY <1>9 DEF RemoveFinalized, ApplyInv, Keys, LiveIn, FinalIn, TypeOK, Maps, Entries,
                Observations, Absent
  <2>2. Keys(active)' = Keys(active) \ {c}
    BY <1>9 DEF RemoveFinalized, Keys, TypeOK, Maps
  <2> QED
    BY <1>9, <2>1, <2>2 DEF RemoveFinalized, env, LiveIn, FinalIn
<1>10. ASSUME NEW c \in Channels, ValidatorsMove(c) PROVE FinalInv'
  <2>1. FinalIn(reported) \subseteq FinalIn(reported)'
    BY <1>10 DEF ValidatorsMove, FinalIn, TypeOK
  <2> QED
    BY <1>10, <2>1 DEF ValidatorsMove, history, Keys, LiveIn, FinalIn
<1>11. CASE CalmDown \/ (\E k \in Kinds : Tick(k)) \/ UNCHANGED vars
  BY <1>1, <1>11 DEF CalmDown, Tick, vars, env, history
<1>12. CASE \E h \in Requests : Arrive(h) \/ Disconnect(h) \/ Serve(h)
  BY <1>1, <1>12 DEF Arrive, Disconnect, Serve, BeginSnapshot, ReadEntry, EndSnapshot,
                     env, history
<1> QED
  BY <1>2, <1>4, <1>5, <1>6, <1>7, <1>8, <1>9, <1>10, <1>11, <1>12
     DEF Next, Refresh, Environment
------------------------------------------------------------------------------
LEMMA InitIInv == Init => IInv
<1> SUFFICES ASSUME Init PROVE IInv
  OBVIOUS
<1>1. TypeOK
  BY InitTypeOK
<1>2. LockInv
  BY DEF Init, LockInv, Unlocked, NoRequest
<1>3. PublishedInv /\ ApplyInv
  BY DEF Init, PublishedInv, ApplyInv
<1>4. FinalInv
  BY MapTypes DEF Init, FinalInv
<1>5. SnapshotAtomic
  BY DEF Init, SnapshotAtomic, NoRequest
<1> QED
  BY <1>1, <1>2, <1>3, <1>4, <1>5 DEF IInv

LEMMA NextIInv == IInv /\ [Next]_vars => IInv'
  BY NextTypeOK, LockStep, PublishedStep, ApplyStep, FinalStep, SnapshotStep DEF IInv

\* The inductive invariant holds in every reachable state: guards are held where
\* cache.rs and get_campaigns hold them, and what a round has collected never
\* contradicts what earlier rounds retired.
THEOREM Invariance == Spec => []IInv
<1> QED
  BY InitIInv, NextIInv, PTL DEF Spec

\* However rounds, timeouts and any number of handlers interleave, a handler
\* only sees `active` as one whole round left it.
THEOREM SnapshotsAreAtomic == Spec => []SnapshotAtomic
<1>1. IInv => SnapshotAtomic
  BY DEF IInv
<1> QED
  BY <1>1, Invariance, PTL

\* A campaign that Cache::update removed as finalized is not cached as active
\* again, though fetch_new_campaigns never looks into `finalized`.
THEOREM RetiredForGood == Spec => []NoResurrection
<1>1. IInv => NoResurrection
  BY DEF IInv, FinalInv, NoResurrection
<1> QED
  BY <1>1, Invariance, PTL

\* A campaign is never in both caches, whatever dropped a round between the
\* removal from `active` and the extension of `finalized`.
THEOREM CachesAreDisjoint == Spec => []DisjointCaches
<1>1. IInv => DisjointCaches
  BY DEF IInv, FinalInv, DisjointCaches
<1> QED
  BY <1>1, Invariance, PTL

\* Only finalized campaigns leave the cache of active ones: no error, timeout or
\* incomplete listing makes Cache::update remove a live one.
THEOREM LiveCampaignsAreKept == Spec => LiveCampaignsStay
<1> DEFINE Kept == FinalIsForever => \A c \in Keys(active) \ Keys(active') :
                                       reported[c].status = "Finalized"
<1>1. IInv /\ [Next]_vars => [Kept]_vars
  <2> SUFFICES ASSUME IInv, Next, FinalIsForever PROVE Kept
    OBVIOUS
  <2> USE DEF IInv
  <2>1. CASE UNCHANGED active
    BY <2>1 DEF Keys
  <2>2. ASSUME NEW c \in Channels, ExtendActive(c) \/ ModifyActive(c) PROVE Kept
    BY <2>2 DEF ExtendActive, ModifyActive, Keys, LiveIn, Absent, TypeOK, Maps
  <2>3. ASSUME NEW c \in Channels, RemoveFinalized(c) PROVE Kept
    <3>1. c \in FinalIn(fetched)
      BY <2>3 DEF RemoveFinalized, ApplyInv, Keys, LiveIn, FinalIn, TypeOK, Maps, Entries,
                  Observations, Absent
    <3>2. c \in FinalIn(reported)
      BY <3>1 DEF FinalInv
    <3>3. Keys(active) \ Keys(active') \subseteq {c}
      BY <2>3 DEF RemoveFinalized, Keys, TypeOK, Maps
    <3> QED
      BY <3>2, <3>3 DEF FinalIn
  <2>4. CASE \/ StartNew \/ StartUpdate \/ TimeOut \/ ListChannels \/ CollectDone
             \/ AcquireRead \/ FetchDone \/ AcquireWrite \/ ReleaseWrite \/ ExtendFinalized
    BY <2>1, <2>4 DEF StartNew, StartUpdate, TimeOut, ListChannels, CollectDone,
                      AcquireRead, FetchDone, AcquireWrite, ReleaseWrite, ExtendFinalized
  <2>5. CASE Quiet
    BY <2>1, <2>5 DEF Quiet, Environment, ValidatorsMove, CalmDown, Tick, CollectStatus,
                      FetchStatus, vars
  <2>6. CASE \E h \in Requests : Arrive(h) \/ Disconnect(h) \/ Serve(h)
    BY <2>1, <2>6 DEF Arrive, Disconnect, Serve, BeginSnapshot, ReadEntry, EndSnapshot
  <2> QED
    BY <2>2, <2>3, <2>4, <2>5, <2>6 DEF Next, Refresh, Quiet
<1> QED
  BY <1>1, Invariance, PTL DEF Spec, LiveCampaignsStay

\* A retired campaign is missing from `finalized` only if a timed round was dropped
\* between the two locks of Cache::update: none of the other steps loses it.
THEOREM RetiredAreRecorded == Spec => RecordedUnlessDropped
<1> DEFINE Recorded ==
      Unrecorded' \subseteq Unrecorded \cup
        (IF pc = "finalize" /\ round # "init" /\ ~calm THEN FinalIn(fetched) ELSE {})
<1>1. IInv /\ [Next]_vars => [Recorded]_vars
  <2> SUFFICES ASSUME IInv, Next PROVE Recorded
    OBVIOUS
  <2> USE DEF Unrecorded, IInv
  <2>1. CASE StartNew \/ StartUpdate \/ ListChannels \/ CollectDone \/ AcquireRead \/ FetchDone
    BY <2>1 DEF StartNew, StartUpdate, Yield, ListChannels, CollectDone, AcquireRead,
                FetchDone, history
  <2>2. CASE TimeOut
    BY <2>2 DEF TimeOut, EndRound, AwaitPoints, history
  <2>3. CASE AcquireWrite
    BY <2>3 DEF AcquireWrite, history
  <2>4. CASE ReleaseWrite
    BY <2>4 DEF ReleaseWrite, EndRound
  <2>5. CASE ExtendFinalized
    BY <2>5 DEF ExtendFinalized, EndRound, history
  <2>6. ASSUME NEW c \in Channels, ExtendActive(c) \/ ModifyActive(c) PROVE Recorded
    BY <2>6 DEF ExtendActive, ModifyActive, FinalIn, history
  <2>7. ASSUME NEW c \in Channels, RemoveFinalized(c) PROVE Recorded
    <3>1. c \in FinalIn(fetched)
      BY <2>7 DEF RemoveFinalized, ApplyInv, Keys, LiveIn, FinalIn, TypeOK, Maps, Entries,
                  Observations, Absent
    <3>2. /\ retired' = retired \cup {c} /\ UNCHANGED <<finalized, fetched, pc>>
          /\ pc = "apply"
      BY <2>7 DEF RemoveFinalized
    <3> QED
      BY <3>1, <3>2 DEF FinalIn
  <2>8. CASE Quiet
    <3>1. ASSUME NEW c \in Channels, CollectStatus(c) \/ FetchStatus(c) PROVE Recorded
      BY <3>1 DEF CollectStatus, FetchStatus, history
    <3>2. CASE Environment \/ (\E k \in Kinds : Tick(k)) \/ UNCHANGED vars
      BY <3>2 DEF Environment, ValidatorsMove, CalmDown, Tick, vars, history, FinalIn
    <3> QED
      BY <2>8, <3>1, <3>2 DEF Quiet
  <2>9. CASE \E h \in Requests : Arrive(h) \/ Disconnect(h) \/ Serve(h)
    BY <2>9 DEF Arrive, Disconnect, Serve, BeginSnapshot, ReadEntry, EndSnapshot, history,
                FinalIn
  <2> QED
    BY <2>1, <2>2, <2>3, <2>4, <2>5, <2>6, <2>7, <2>8, <2>9 DEF Next, Refresh, Quiet
<1> QED
  BY <1>1, Invariance, PTL DEF Spec, RecordedUnlessDropped
------------------------------------------------------------------------------
\* Every step of the cache, its lock and its handlers is a step of Rounds or leaves its
\* variables alone: one round at a time, the two kinds taking turns.
THEOREM RoundsTakeTurns == Spec => Loop!Spec
<1> DEFINE Running == IF pc = "select" THEN "none" ELSE round
<1>0. Kinds = Loop!Kinds /\ \A k \in Kinds : Other(k) = Loop!Other(k) /\ Other(k) \in Kinds
  BY DEF Kinds, Loop!Kinds, Other, Loop!Other
<1>1. Init => Loop!Init
  BY <1>0 DEF Init, Loop!Init
<1>2. TypeOK /\ [Next]_vars => [Loop!Next]_(Loop!vars)
  <2> SUFFICES ASSUME TypeOK, [Next]_vars
      PROVE  Loop!Next \/ UNCHANGED Loop!vars
    OBVIOUS
  <2> USE DEF timers
  <2>1. ASSUME NEW k \in Kinds, Tick(k) PROVE Loop!Next
    <3>1. /\ Running # "init" /\ UNCHANGED <<pc, round, first>>
          /\ due' = [due EXCEPT ![k] = TRUE]
      BY <2>1 DEF Tick, Serving, Kinds
    <3>2. due' = [j \in Kinds |-> due[j] \/ j \in {k}]
      BY <3>1, Zenon DEF TypeOK
    <3>3. Loop!Tick({k})
      BY <1>0, <3>1, <3>2, Zenon DEF Loop!Tick
    <3> QED
      BY <1>0, <2>1, <3>3 DEF Loop!Next
  <2>2. ASSUME NEW k \in Kinds, Yield(k), pc' # "select" PROVE Loop!Next
    <3>1. \E more \in BOOLEAN : due' = [due EXCEPT ![k] = more]
      BY <2>2 DEF Yield
    <3>2. Loop!Begin(k)
      BY <1>0, <2>2, <3>1, Zenon DEF Loop!Begin, Yield
    <3> QED
      BY <1>0, <2>2, <3>2 DEF Loop!Next
  <2>3. CASE /\ TimeOut \/ ReleaseWrite \/ ExtendFinalized
             /\ pc' = "select"
    <3>1. pc # "select" /\ UNCHANGED <<round, timers>>
      BY <2>3 DEF TimeOut, ReleaseWrite, ExtendFinalized, AwaitPoints
    <3>2. Loop!End
      BY <2>3, <3>1 DEF Loop!End, TypeOK, Kinds
    <3> QED
      BY <3>2 DEF Loop!Next
  <2>4. CASE \/ ListChannels \/ CollectDone \/ AcquireRead \/ FetchDone \/ AcquireWrite
             \/ ReleaseWrite /\ pc' # "select"
             \/ \E c \in Channels : \/ CollectStatus(c) \/ FetchStatus(c) \/ ExtendActive(c)
                                    \/ ModifyActive(c) \/ RemoveFinalized(c)
    <3>1. pc # "select" /\ pc' # "select" /\ UNCHANGED <<round, timers>>
      BY <2>4 DEF ListChannels, CollectDone, AcquireRead, FetchDone, AcquireWrite,
                  ReleaseWrite, EndRound, CollectStatus, FetchStatus, ExtendActive,
                  ModifyActive, RemoveFinalized
    <3> QED
      BY <3>1 DEF Loop!vars
  <2>5. CASE \/ Environment \/ UNCHANGED vars
             \/ \E h \in Requests : Arrive(h) \/ Disconnect(h) \/ Serve(h)
    <3>1. UNCHANGED <<pc, round, timers>>
      BY <2>5 DEF Environment, ValidatorsMove, CalmDown, Arrive, Disconnect, Serve,
                  BeginSnapshot, ReadEntry, EndSnapshot, vars
    <3> QED
      BY <3>1 DEF Loop!vars
  <2>6. StartNew => Yield("new") /\ pc' # "select"
    BY DEF StartNew
  <2>7. StartUpdate => Yield("update") /\ pc' # "select"
    BY DEF StartUpdate
  <2>8. TimeOut \/ ExtendFinalized => pc' = "select"
    BY DEF TimeOut, ExtendFinalized, EndRound
  <2> QED
    BY <2>1, <2>2, <2>3, <2>4, <2>5, <2>6, <2>7, <2>8 DEF Next, Refresh, Kinds
<1> QED
  BY <1>1, <1>2, TypeCorrect, PTL DEF Spec, Loop!Spec
------------------------------------------------------------------------------
(* The queue of the lock. *)

\* Those ahead of a task wait, too, and are ahead of it in an order without cycles.
Queue(l) ==
  /\ IsFiniteSet(l.waiting)
  /\ \A t \in l.waiting : /\ l.ahead[t] \subseteq l.waiting \ {t}
                          /\ \A u \in l.ahead[t] : l.ahead[u] \subseteq l.ahead[t] \ {u}

\* Each operation of the lock keeps the queue in order.
LEMMA QueueSteps ==
  ASSUME NEW l \in Locks, NEW t \in Tasks, Queue(l)
  PROVE  /\ Queue(GrantRead(l, t)) /\ Queue(GrantWrite(l, t)) /\ Queue(Release(l, t))
         /\ t \notin l.waiting => Queue(Enqueue(l, t))
<1>1. IsFiniteSet(l.waiting \ {t}) /\ IsFiniteSet(l.waiting \cup {t})
  BY FS_RemoveElement, FS_AddElement DEF Queue
<1>2. /\ l.waiting \subseteq Tasks /\ l.ahead \in [Tasks -> SUBSET Tasks]
  BY DEF Locks
<1>3. ASSUME NEW m, m.waiting = l.waiting \ {t}, m.ahead = Without(l.ahead, t)
      PROVE  Queue(m)
  <2>1. \A u \in Tasks : m.ahead[u] = l.ahead[u] \ {t}
    BY <1>3 DEF Without
  <2> QED
    BY <1>1, <1>2, <1>3, <2>1 DEF Queue
<1>4. ASSUME t \notin l.waiting PROVE Queue(Enqueue(l, t))
  <2> DEFINE m == Enqueue(l, t)
  <2>1. /\ m.waiting = l.waiting \cup {t} /\ m.ahead[t] = l.waiting
        /\ \A u \in l.waiting : m.ahead[u] = l.ahead[u]
    BY <1>2, <1>4 DEF Enqueue
  <2> HIDE DEF m
  <2>2. ASSUME NEW u \in l.waiting
        PROVE  /\ m.ahead[u] \subseteq m.waiting \ {u}
               /\ \A v \in m.ahead[u] : m.ahead[v] \subseteq m.ahead[u] \ {v}
    BY <2>1 DEF Queue
  <2>3. /\ m.ahead[t] \subseteq m.waiting \ {t}
        /\ \A v \in m.ahead[t] : m.ahead[v] \subseteq m.ahead[t] \ {v}
    BY <1>4, <2>1 DEF Queue
  <2> QED
    BY <1>1, <2>1, <2>2, <2>3 DEF Queue, m
<1> QED
  BY <1>3, <1>4 DEF GrantRead, GrantWrite, Release

\* The queue has a head unless it is empty.
LEMMA QueueHasHead ==
  ASSUME NEW l \in Locks, Queue(l), l.waiting # {}
  PROVE  \E t \in l.waiting : AtHead(l, t)
<1> DEFINE S == {l.ahead[t] : t \in l.waiting}
           R == StrictSubsetOrdering(Tasks)
<1>1. /\ l.waiting \subseteq Tasks /\ l.ahead \in [Tasks -> SUBSET Tasks]
  BY DEF Locks
<1>2. S \subseteq FiniteSubsetsOf(Tasks)
  <2> SUFFICES ASSUME NEW t \in l.waiting
               PROVE  l.ahead[t] \in SUBSET Tasks /\ IsFiniteSet(l.ahead[t])
    BY DEF FiniteSubsetsOf
  <2> QED
    BY <1>1, FS_Subset DEF Queue
<1>3. PICK x \in S : \A y \in S : <<y, x>> \notin R
  <2>1. S # {}
    OBVIOUS
  <2>2. IsWellFoundedOn(R, FiniteSubsetsOf(Tasks))
    BY FS_StrictSubsetOrderingWellFounded
  <2> HIDE DEF S, R
  <2> QED
    BY <1>2, <2>1, <2>2, WFMin
<1>4. PICK t \in l.waiting : x = l.ahead[t]
  OBVIOUS
<1>5. ASSUME NEW u \in l.ahead[t] PROVE FALSE
  <2>1. u \in l.waiting /\ l.ahead[u] \subseteq l.ahead[t] \ {u}
    BY DEF Queue
  <2>2. l.ahead[u] \in SUBSET Tasks /\ l.ahead[t] \in SUBSET Tasks
    BY <1>1, <2>1
  <2>3. <<l.ahead[u], l.ahead[t]>> \in R
    BY <2>1, <2>2 DEF StrictSubsetOrdering
  <2> QED
    BY <1>3, <1>4, <2>1, <2>3
<1> QED
  BY <1>4, <1>5 DEF AtHead

\* Who waits is where the code waits.
QueueInv ==
  /\ Queue(lock)
  /\ Refresher \in lock.waiting <=> pc \in {"read", "write"}
  /\ \A h \in Requests : h \in lock.waiting <=> req[h].st = "waiting"

LEMMA QueueInit == Init => QueueInv
  BY FS_EmptySet DEF Init, QueueInv, Queue, Unlocked, NoRequest

LEMMA QueueStep == TypeOK /\ LockInv /\ QueueInv /\ [Next]_vars => QueueInv'
<1> SUFFICES ASSUME TypeOK, LockInv, QueueInv, [Next]_vars PROVE QueueInv'
  OBVIOUS
<1> USE RefresherAssumption
<1> USE DEF QueueInv
<1>1. /\ lock \in Locks /\ Refresher \notin Requests /\ Tasks = Requests \cup {Refresher}
      /\ lock.waiting \subseteq Tasks
  BY DEF TypeOK, Requests, Locks
\* What the operations do to the set of those that wait.
<1>q. \A t \in Tasks :
        /\ Queue(GrantRead(lock, t)) /\ GrantRead(lock, t).waiting = lock.waiting \ {t}
        /\ Queue(GrantWrite(lock, t)) /\ GrantWrite(lock, t).waiting = lock.waiting \ {t}
        /\ Queue(Release(lock, t)) /\ Release(lock, t).waiting = lock.waiting \ {t}
        /\ t \notin lock.waiting => /\ Queue(Enqueue(lock, t))
                                    /\ Enqueue(lock, t).waiting = lock.waiting \cup {t}
  BY <1>1, QueueSteps DEF GrantRead, GrantWrite, Release, Enqueue
<1>2. CASE Quiet \/ Applying
  BY <1>2, QuietSteps
<1>4. CASE StartNew
  BY <1>4 DEF StartNew, Yield
<1>5. CASE StartUpdate
  BY <1>1, <1>q, <1>5 DEF StartUpdate, Yield
<1>6. CASE TimeOut
  BY <1>1, <1>q, <1>6 DEF TimeOut, EndRound
<1>7. CASE ListChannels \/ ExtendFinalized
  BY <1>7 DEF ListChannels, ExtendFinalized, EndRound
<1>8. CASE CollectDone
  BY <1>1, <1>q, <1>8 DEF CollectDone
<1>9. CASE AcquireRead
  BY <1>1, <1>q, <1>9 DEF AcquireRead
<1>10. CASE FetchDone
  <2> DEFINE l == Release(lock, Refresher)
  <2>1. /\ Refresher \notin lock.waiting /\ l \in Locks /\ Queue(l)
        /\ l.waiting = lock.waiting \ {Refresher}
    BY <1>1, <1>q, <1>10, LockTypes DEF FetchDone
  <2> HIDE DEF l
  <2>2. Queue(Enqueue(l, Refresher)) /\ Enqueue(l, Refresher).waiting = l.waiting \cup {Refresher}
    BY <2>1, QueueSteps DEF Enqueue
  <2>3. /\ lock' = Enqueue(l, Refresher) /\ pc' = "write" /\ req' = req
    BY <1>10 DEF FetchDone, l
  <2> QED
    BY <1>1, <2>1, <2>2, <2>3
<1>11. CASE AcquireWrite
  BY <1>1, <1>q, <1>11 DEF AcquireWrite
<1>12. CASE ReleaseWrite
  BY <1>1, <1>q, <1>12 DEF ReleaseWrite, EndRound
<1>13. ASSUME NEW h \in Requests, Arrive(h) PROVE QueueInv'
  BY <1>1, <1>q, <1>13 DEF Arrive, NoRequest, TypeOK
<1>14. ASSUME NEW h \in Requests, Disconnect(h) PROVE QueueInv'
  BY <1>1, <1>q, <1>14 DEF Disconnect, NoRequest, TypeOK
<1>15. ASSUME NEW h \in Requests, BeginSnapshot(h) PROVE QueueInv'
  BY <1>1, <1>q, <1>15 DEF BeginSnapshot, TypeOK
<1>16. ASSUME NEW h \in Requests, NEW c \in Channels, ReadEntry(h, c) PROVE QueueInv'
  BY <1>16 DEF ReadEntry, TypeOK
<1>17. ASSUME NEW h \in Requests, EndSnapshot(h) PROVE QueueInv'
  BY <1>1, <1>q, <1>17 DEF EndSnapshot, TypeOK
<1> QED
  BY <1>2, <1>4, <1>5, <1>6, <1>7, <1>8, <1>9, <1>10, <1>11, <1>12, <1>13, <1>14,
     <1>15, <1>16, <1>17 DEF Next, Refresh, Serve, Quiet, Applying

\* With any number of handlers and read permits, no task waits for a lock that nobody
\* is going to release.
THEOREM LockNeverSticks == Spec => []NeverStuck
<1>1. TypeOK /\ LockInv /\ QueueInv => NeverStuck
  <2> SUFFICES ASSUME TypeOK, LockInv, QueueInv, lock.waiting # {}, pc \notin {"fetch", "apply"},
                      ~\E h \in Requests : req[h].st = "reading"
               PROVE  \/ \E h \in Requests : req[h].st = "waiting" /\ CanRead(lock, h)
                      \/ pc = "read" /\ CanRead(lock, Refresher)
                      \/ pc = "write" /\ CanWrite(lock, Refresher)
    BY DEF NeverStuck
  <2>1. lock \in Locks /\ lock.waiting \subseteq Tasks /\ lock.readers \subseteq Tasks
    BY DEF TypeOK, Locks
  <2>2. lock.readers = {} /\ lock.writers = {}
    BY <2>1 DEF LockInv, Requests
  <2>3. PICK t \in lock.waiting : AtHead(lock, t)
    BY <2>1, QueueHasHead DEF QueueInv
  <2>4. CanRead(lock, t) /\ CanWrite(lock, t)
    BY <2>2, <2>3, FS_EmptySet, MaxReadsAssumption DEF CanRead, CanWrite
  <2> QED
    BY <2>1, <2>4 DEF QueueInv, Requests
<1>2. Init => TypeOK /\ LockInv
  BY InitIInv DEF IInv
<1> QED
  BY <1>1, <1>2, QueueInit, QueueStep, LockStep, NextTypeOK, PTL DEF Spec
------------------------------------------------------------------------------
(***************************************************************************)
(* The cache implements CampaignView: each of its steps is one of          *)
(* CampaignView's or changes nothing there.                                *)
(***************************************************************************)

\* Results are as old as the validators' report that was read, so that the cache,
\* which only they change, never runs ahead of the validators.
LEMMA CollectedStep ==
  TypeOK /\ PublishedInv /\ CollectedInv /\ [Next]_vars => CollectedInv'
<1> SUFFICES ASSUME TypeOK, PublishedInv, CollectedInv, [Next]_vars PROVE CollectedInv'
  OBVIOUS
<1> USE DEF CollectedInv
<1>1. CASE UNCHANGED <<reported, active, pc, round, todo, fetched, published>>
  BY <1>1 DEF Keys
<1>2. CASE \/ CalmDown \/ (\E k \in Kinds : Tick(k)) \/ UNCHANGED vars
           \/ \E h \in Requests : Arrive(h) \/ Disconnect(h) \/ Serve(h)
  BY <1>1, <1>2 DEF CalmDown, Tick, Arrive, Disconnect, Serve, BeginSnapshot, ReadEntry,
                    EndSnapshot, vars, env, history
<1>3. CASE StartNew \/ StartUpdate
  BY <1>3, MapTypes DEF StartNew, StartUpdate, Yield, Keys, env, history
<1>4. CASE ListChannels \/ CollectDone \/ FetchDone
  BY <1>4 DEF ListChannels, CollectDone, FetchDone, Keys, env, history
<1>5. CASE AcquireRead
  BY <1>5 DEF AcquireRead, Keys, env, history
<1>6. CASE AcquireWrite
  BY <1>6 DEF AcquireWrite, Keys, env, history
<1>7. ASSUME pc' = "select", fetched' = EmptyMap, UNCHANGED <<reported, active>>
      PROVE  CollectedInv'
  <2>1. \A c \in Channels : fetched'[c].ver <= reported[c].ver
    BY <1>7 DEF EmptyMap, Absent, TypeOK, Observations
  <2> QED
    BY <1>7, <2>1, MapTypes DEF Keys
<1>8. CASE TimeOut \/ ExtendFinalized
  BY <1>7, <1>8 DEF TimeOut, ExtendFinalized, EndRound, env, history
<1>9. CASE ReleaseWrite
  <2>1. CASE FinalIn(fetched) = {}
    BY <1>7, <1>9, <2>1 DEF ReleaseWrite, EndRound, env
  <2>2. CASE FinalIn(fetched) # {}
    BY <1>9, <2>2 DEF ReleaseWrite, env
  <2> QED
    BY <2>1, <2>2
<1>10. ASSUME NEW c \in Channels, CollectStatus(c) \/ FetchStatus(c) PROVE CollectedInv'
  <2>1. /\ todo[c] > 0
        /\ todo' = [todo EXCEPT ![c] = todo[c] - 1]
        /\ fetched' = [fetched EXCEPT ![c] = reported[c]] \/ fetched' = fetched
    BY <1>10 DEF CollectStatus, FetchStatus, GetStatus
  <2>2. /\ pc \in {"collect", "fetch"}
        /\ UNCHANGED <<reported, active, pc, round, published>>
    BY <1>10 DEF CollectStatus, FetchStatus, env, history
  <2>3. pc = "fetch" => \A d \in Channels : todo'[d] > 0 => d \in Keys(active)
    BY <2>1 DEF TypeOK
  <2>4. \A d \in Channels : fetched'[d].ver <= reported[d].ver
    BY <2>1 DEF TypeOK, Maps, Observations
  <2>5. Keys(fetched') \subseteq Keys(fetched) \cup {c}
    BY <2>1 DEF Keys, TypeOK, Maps
  <2>6. round = "update" => c \in Keys(published)
    BY <2>1, <2>2 DEF PublishedInv
  <2> QED
    BY <2>2, <2>3, <2>4, <2>5, <2>6 DEF Keys
<1>11. CASE Applying
  <2>1. ASSUME NEW c \in Channels, ExtendActive(c) \/ ModifyActive(c) \/ RemoveFinalized(c)
        PROVE  CollectedInv'
    <3>1. pc = "apply" /\ UNCHANGED <<reported, pc, round, todo, fetched, published>>
      BY <2>1 DEF ExtendActive, ModifyActive, RemoveFinalized, env, history
    <3>2. active'[c] \in {active[c], fetched[c], Absent}
      BY <2>1 DEF ExtendActive, ModifyActive, RemoveFinalized, TypeOK, Maps
    <3>3. \A d \in Channels \ {c} : active'[d] = active[d]
      BY <2>1 DEF ExtendActive, ModifyActive, RemoveFinalized, TypeOK, Maps
    <3>4. \A d \in Channels : active'[d].ver <= reported[d].ver
      BY <3>2, <3>3 DEF Absent, TypeOK, Observations
    <3> QED
      BY <3>1, <3>4 DEF Keys
  <2> QED
    BY <1>11, <2>1 DEF Applying
<1>12. ASSUME NEW c \in Channels, ValidatorsMove(c) PROVE CollectedInv'
  <2>1. \A d \in Channels : reported[d].ver <= reported'[d].ver
    BY <1>12 DEF ValidatorsMove, TypeOK, Observations
  <2>2. \A d \in Channels : /\ fetched[d].ver \in Nat /\ active[d].ver \in Nat
                           /\ reported[d].ver \in Nat /\ reported'[d].ver \in Nat
    BY <1>12 DEF ValidatorsMove, TypeOK, Maps, Entries, Observations, Absent
  <2>3. \A d \in Channels : /\ fetched[d].ver <= reported'[d].ver
                           /\ active[d].ver <= reported'[d].ver
    BY <2>1, <2>2
  <2> QED
    BY <1>12, <2>3 DEF ValidatorsMove, history, Keys
<1> QED
  BY <1>2, <1>3, <1>4, <1>5, <1>6, <1>8, <1>9, <1>10, <1>11, <1>12
     DEF Next, Refresh, Environment, Applying

\* The critical section turns the published cache into the next one, one entry
\* at a time.
LEMMA AppliedStep ==
  TypeOK /\ PublishedInv /\ ApplyInv /\ CollectedInv /\ AppliedInv /\ [Next]_vars => AppliedInv'
<1> SUFFICES ASSUME TypeOK, PublishedInv, ApplyInv, CollectedInv, AppliedInv,
                    [Next]_vars
             PROVE  AppliedInv'
  OBVIOUS
<1> USE DEF AppliedInv
<1>1. CASE pc' # "apply"
  BY <1>1
<1>2. CASE UNCHANGED <<active, pc, fetched, undone, published>>
  BY <1>2 DEF Keys, LiveIn, FinalIn
<1>3. CASE \/ StartNew \/ StartUpdate \/ TimeOut \/ ListChannels \/ CollectDone
           \/ AcquireRead \/ FetchDone \/ ReleaseWrite \/ ExtendFinalized
  BY <1>1, <1>3 DEF StartNew, StartUpdate, TimeOut, EndRound, ListChannels, CollectDone,
                    AcquireRead, FetchDone, ReleaseWrite, ExtendFinalized
<1>4. CASE \/ CalmDown \/ (\E k \in Kinds : Tick(k)) \/ UNCHANGED vars
           \/ (\E c \in Channels : ValidatorsMove(c))
           \/ \E h \in Requests : Arrive(h) \/ Disconnect(h) \/ Serve(h)
  BY <1>2, <1>4 DEF CalmDown, Tick, ValidatorsMove, Arrive, Disconnect, Serve, BeginSnapshot,
                    ReadEntry, EndSnapshot, vars, history
<1>5. CASE \E c \in Channels : CollectStatus(c) \/ FetchStatus(c)
  BY <1>1, <1>5 DEF CollectStatus, FetchStatus
<1>6. CASE AcquireWrite
  BY <1>6 DEF AcquireWrite, PublishedInv, history
<1>7. ASSUME NEW c \in Channels, ExtendActive(c) \/ ModifyActive(c) PROVE AppliedInv'
  <2>1. /\ pc = "apply" /\ c \in undone /\ c \in LiveIn(fetched)
        /\ undone' = undone \ {c}
        /\ UNCHANGED <<pc, fetched, published>>
    BY <1>7 DEF ExtendActive, ModifyActive, history
  <2>2. c \in Keys(fetched) /\ c \notin FinalIn(fetched)
    BY <2>1 DEF LiveIn, FinalIn, Keys, Absent
  <2>3. round = "update" => c \in Keys(active)
    BY <2>1, <2>2 DEF CollectedInv, Keys
  <2>4. active' = [active EXCEPT ![c] = fetched[c]]
    BY <1>7, <2>3 DEF ExtendActive, ModifyActive
  <2> QED
    BY <2>1, <2>2, <2>4 DEF TypeOK, Maps, Keys, LiveIn, FinalIn
<1>8. ASSUME NEW c \in Channels, RemoveFinalized(c) PROVE AppliedInv'
  <2>1. /\ pc = "apply" /\ c \in undone
        /\ undone' = undone \ {c}
        /\ active' = [active EXCEPT ![c] = Absent]
        /\ UNCHANGED <<pc, fetched, published>>
    BY <1>8 DEF RemoveFinalized
  <2>2. c \in FinalIn(fetched)
    BY <1>8 DEF RemoveFinalized, ApplyInv, LiveIn, FinalIn, Keys, TypeOK, Maps, Entries, Observations
  <2> QED
    BY <2>1, <2>2 DEF TypeOK, Maps, Keys, LiveIn, FinalIn
<1> QED
  BY <1>3, <1>4, <1>5, <1>6, <1>7, <1>8 DEF Next, Refresh, Environment

LEMMA InitViewInv == Init => ViewInv
<1> SUFFICES ASSUME Init PROVE ViewInv
  OBVIOUS
<1>1. IInv
  BY InitIInv
<1>2. CollectedInv
  BY MapTypes DEF Init, CollectedInv, EmptyMap, Absent, Observations
<1>3. AppliedInv
  BY DEF Init, AppliedInv
<1> QED
  BY <1>1, <1>2, <1>3 DEF IInv, ViewInv

LEMMA NextViewInv == ViewInv /\ [Next]_vars => ViewInv'
  BY NextTypeOK, LockStep, PublishedStep, ApplyStep, SnapshotStep, CollectedStep, AppliedStep
     DEF ViewInv

\* The facts that tie a round's results to the published cache hold in every
\* reachable state, for validators that report whatever they like.
LEMMA ViewInvariance == Spec => []ViewInv
<1> QED
  BY InitViewInv, NextViewInv, PTL DEF Spec
------------------------------------------------------------------------------
\* The refinement mapping, under names of its own.
Result   == IF pc \in {"finalize", "select"} THEN EmptyMap ELSE fetched
Owed     == IF pc = "finalize" THEN FinalIn(fetched) ELSE {}
Answered == {h \in Requests : req[h].st = "done"}
AnswerOf == [h \in Requests |-> IF req[h].st = "done" THEN req[h].snap ELSE EmptyMap]

LEMMA NoneIsEmpty == View!None = Absent /\ View!NoneOf = EmptyMap
  BY DEF View!None, View!NoneOf, Absent, EmptyMap

\* The cache starts as the empty view.
LEMMA InitRefines == Init => View!Init
  BY NoneIsEmpty DEF Init, View!Init, NoRequest

\* Each step of the cache is a step of the view, or one the view does not see.
LEMMA StepRefines == ViewInv /\ [Next]_vars => [View!Next]_View!vvars
<1> SUFFICES ASSUME ViewInv, [Next]_vars PROVE View!Next \/ UNCHANGED View!vvars
  OBVIOUS
<1> USE DEF ViewInv
<1>1. CASE UNCHANGED <<published, Result, Owed, finalized, req>>
  BY <1>1 DEF View!vvars, Result, Owed, FinalIn
<1>2. CASE \/ CalmDown \/ (\E k \in Kinds : Tick(k)) \/ UNCHANGED vars
           \/ (\E c \in Channels : ValidatorsMove(c)) \/ Applying
  BY <1>1, <1>2 DEF CalmDown, Tick, ValidatorsMove, Applying, ExtendActive, ModifyActive,
                    RemoveFinalized, Result, Owed, FinalIn, vars, history
<1>3. CASE \/ StartNew \/ StartUpdate \/ ListChannels \/ CollectDone \/ AcquireRead
           \/ FetchDone \/ AcquireWrite
  <2>1. Result' = Result
    BY <1>3 DEF StartNew, StartUpdate, Yield, ListChannels, CollectDone, AcquireRead,
                FetchDone, AcquireWrite, CollectedInv, Result
  <2>2. UNCHANGED <<published, Owed, finalized, req>>
    BY <1>3 DEF StartNew, StartUpdate, Yield, ListChannels, CollectDone, AcquireRead,
                FetchDone, AcquireWrite, Owed, history
  <2> QED
    BY <1>1, <2>1, <2>2
<1>4. CASE TimeOut
  <2>1. Result' = EmptyMap /\ Owed' = {} /\ UNCHANGED <<published, finalized, req>>
    BY <1>4 DEF TimeOut, EndRound, Result, Owed, history
  <2>2. View!GiveUp
    BY <2>1, NoneIsEmpty DEF View!GiveUp, Result, Owed
  <2> QED
    BY <2>2 DEF View!Next
<1>5. ASSUME NEW c \in Channels, CollectStatus(c) \/ FetchStatus(c)
      PROVE  View!Next \/ UNCHANGED View!vvars
  <2>1. /\ pc \in {"collect", "fetch"}
        /\ fetched' = [fetched EXCEPT ![c] = reported[c]] \/ fetched' = fetched
        /\ UNCHANGED <<reported, active, pc, published, finalized, req>>
    BY <1>5 DEF CollectStatus, FetchStatus, GetStatus, env, history
  <2>2. Result = fetched /\ Result' = fetched' /\ Owed = {} /\ Owed' = {}
    BY <2>1 DEF Result, Owed
  <2>3. CASE fetched' = fetched
    BY <1>1, <2>1, <2>2, <2>3
  <2>4. CASE fetched' = [fetched EXCEPT ![c] = reported[c]]
    <3>1. fetched'[c] = reported[c] /\ published = active
      BY <2>1, <2>4 DEF TypeOK, Maps, PublishedInv
    <3>2. /\ fetched'[c].status \in {"Live", "Finalized"}
          /\ fetched'[c].ver >= published[c].ver
      BY <3>1 DEF CollectedInv, TypeOK, Maps, Entries, Observations, Absent
    <3>3. View!Learn(c)
      BY <2>1, <2>2, <2>4, <3>1, <3>2 DEF View!Learn, Result, Owed
    <3> QED
      BY <3>3 DEF View!Next
  <2> QED
    BY <2>1, <2>3, <2>4
<1>6. CASE ReleaseWrite
  <2>1. /\ pc = "apply" /\ undone = {} /\ published' = active
        /\ Owed = {} /\ Result = fetched
        /\ UNCHANGED <<finalized, req>>
    BY <1>6 DEF ReleaseWrite, Owed, Result
  <2>2. Result' = EmptyMap /\ Owed' = FinalIn(fetched)
    BY <1>6 DEF ReleaseWrite, EndRound, Owed, Result
  <2>3. active = [c \in Channels |-> IF c \in LiveIn(fetched) THEN fetched[c]
                                     ELSE IF c \in FinalIn(fetched) THEN Absent
                                     ELSE published[c]]
    <3>1. \A c \in Channels : active[c] = IF c \in LiveIn(fetched) THEN fetched[c]
                                          ELSE IF c \in FinalIn(fetched) THEN Absent
                                          ELSE published[c]
      BY <2>1 DEF AppliedInv, LiveIn, FinalIn, Keys, Absent
    <3> QED
      BY <3>1 DEF TypeOK, Maps
  <2>4. View!Commit
    BY <2>1, <2>2, <2>3, NoneIsEmpty
       DEF View!Commit, View!With, LiveIn, FinalIn, Result, Owed
  <2> QED
    BY <2>4 DEF View!Next
<1>7. CASE ExtendFinalized
  <2>1. /\ Owed = FinalIn(fetched) /\ Owed' = {}
        /\ Result = EmptyMap /\ Result' = EmptyMap
        /\ finalized' = finalized \cup FinalIn(fetched)
        /\ UNCHANGED <<published, req>>
    BY <1>7 DEF ExtendFinalized, EndRound, Owed, Result, history
  <2>2. View!Record
    BY <2>1 DEF View!Record, Owed, Result
  <2> QED
    BY <2>2 DEF View!Next
<1>8. ASSUME NEW h \in Requests,
             Arrive(h) \/ Disconnect(h) \/ BeginSnapshot(h) \/ EndSnapshot(h)
             \/ \E c \in Channels : ReadEntry(h, c)
      PROVE  View!Next \/ UNCHANGED View!vvars
  <2>1. UNCHANGED <<published, Result, Owed, finalized>>
    BY <1>8 DEF Arrive, Disconnect, BeginSnapshot, EndSnapshot, ReadEntry, Result, Owed,
                FinalIn, history
  <2>2. CASE Arrive(h) \/ Disconnect(h)
    <3>1. req' = [req EXCEPT ![h] = req'[h]] /\ req'[h].st \in {"idle", "waiting"}
      BY <2>2 DEF Arrive, Disconnect, NoRequest, TypeOK
    <3>2. /\ Answered' = Answered \ {h}
          /\ AnswerOf' = [AnswerOf EXCEPT ![h] = EmptyMap]
      BY <3>1 DEF Answered, AnswerOf, TypeOK
    <3>3. View!Ask(h)
      BY <2>1, <3>2, NoneIsEmpty DEF View!Ask, Result, Owed, Answered, AnswerOf
    <3> QED
      BY <3>3 DEF View!Next
  <2>3. CASE BeginSnapshot(h) \/ \E c \in Channels : ReadEntry(h, c)
    <3>1. /\ req' = [req EXCEPT ![h] = req'[h]]
          /\ req[h].st # "done" /\ req'[h].st = "reading"
      BY <2>3 DEF BeginSnapshot, ReadEntry, TypeOK
    <3>2. UNCHANGED <<Answered, AnswerOf>>
      BY <3>1 DEF Answered, AnswerOf, TypeOK
    <3> QED
      BY <2>1, <3>2 DEF View!vvars, Result, Owed, Answered, AnswerOf
  <2>4. CASE EndSnapshot(h)
    <3>1. /\ req' = [req EXCEPT ![h] = req'[h]]
          /\ req[h].st # "done" /\ req'[h].st = "done" /\ req'[h].snap = req[h].snap
      BY <2>4 DEF EndSnapshot, TypeOK
    <3>2. req[h].snap = published
      BY <2>4 DEF EndSnapshot, SnapshotAtomic, TypeOK, Maps
    <3>3. /\ h \notin Answered /\ Answered' = Answered \cup {h}
          /\ AnswerOf' = [AnswerOf EXCEPT ![h] = published]
      BY <3>1, <3>2 DEF Answered, AnswerOf, TypeOK
    <3>4. View!Answer(h)
      BY <2>1, <3>3 DEF View!Answer, Result, Owed, Answered, AnswerOf
    <3> QED
      BY <3>4 DEF View!Next
  <2> QED
    BY <1>8, <2>2, <2>3, <2>4
<1> QED
  BY <1>2, <1>3, <1>4, <1>5, <1>6, <1>7, <1>8
     DEF Next, Refresh, Environment, Serve, Applying

\* The campaign cache implements CampaignView, whatever the constants: rounds are
\* committed whole or not at all, answers are whole views, results never go back.
THEOREM CacheImplementsView == Spec => ImplementsView
<1> QED
  BY InitRefines, StepRefines, ViewInvariance, PTL DEF Spec, ImplementsView, View!Spec

\* What a round has found is no older than the view, and only a commit changes that.
ResultInv == \A c \in Channels : Result[c] # View!None => Result[c].ver >= published[c].ver

LEMMA ViewSteps ==
  ASSUME TypeOK, TypeOK', ResultInv, [View!Next]_View!vvars
  PROVE  /\ ResultInv'
         /\ \A c \in Channels : published[c] # View!None /\ published'[c] # View!None
              => published'[c].ver >= published[c].ver
<1>1. /\ Result \in Maps /\ Result' \in Maps /\ published \in Maps /\ published' \in Maps
  BY MapTypes DEF TypeOK, Result
<1>2. \A m \in Maps, c \in Channels : m[c].ver \in Nat
  BY DEF Maps, Entries, Observations, Absent
<1>3. /\ View!NoneOf = EmptyMap /\ View!None = Absent /\ View!None' = View!None
      /\ \A c \in Channels : EmptyMap[c] = View!None
  BY NoneIsEmpty DEF EmptyMap, View!None
<1>4. ASSUME NEW c \in Channels, View!Learn(c)
      PROVE  /\ published' = published
             /\ Result' = [Result EXCEPT ![c] = Result'[c]]
             /\ Result'[c].ver >= published[c].ver
  BY <1>4 DEF View!Learn, Result
<1>5. CASE View!Commit
  <2>1. /\ Result' = View!NoneOf
        /\ \A c \in Channels : \/ published'[c] = Result[c] /\ Result[c].status = "Live"
                               \/ published'[c] = View!None
                               \/ published'[c] = published[c]
    BY <1>5 DEF View!Commit, View!With, Result
  <2>2. \A c \in Channels : Result[c].status = "Live" => Result[c] # View!None
    BY DEF View!None
  <2> QED
    BY <1>1, <1>2, <1>3, <2>1, <2>2 DEF ResultInv
<1>6. CASE View!GiveUp \/ View!Record \/ (\E h \in Requests : View!Ask(h) \/ View!Answer(h))
           \/ UNCHANGED View!vvars
  <2>1. published' = published /\ (Result' = Result \/ Result' = View!NoneOf)
    BY <1>6 DEF View!GiveUp, View!Record, View!Ask, View!Answer, View!vvars, Result
  <2> QED
    BY <1>1, <1>2, <1>3, <2>1 DEF ResultInv
<1>7. CASE \E c \in Channels : View!Learn(c)
  BY <1>1, <1>2, <1>3, <1>4, <1>7 DEF ResultInv, Maps
<1> QED
  BY <1>5, <1>6, <1>7 DEF View!Next

\* What requests are told of a campaign never goes back while it is cached: a fact
\* about CampaignView, which the cache implements.
THEOREM AnswersNeverGoBack == Spec => View!NeverOlder
<1>1. Init => ResultInv
  BY NoneIsEmpty DEF Init, ResultInv, Result, EmptyMap
<1>2. TypeOK /\ TypeOK' /\ ResultInv /\ [View!Next]_View!vvars => ResultInv'
  BY ViewSteps
<1>3. TypeOK /\ TypeOK' /\ ResultInv /\ [View!Next]_View!vvars =>
        [\A c \in Channels : published[c] # View!None /\ published'[c] # View!None
           => published'[c].ver >= published[c].ver]_View!vvars
  BY ViewSteps
<1> QED
  BY <1>1, <1>2, <1>3, CacheImplementsView, TypeCorrect, PTL
     DEF Spec, ImplementsView, View!Spec, View!NeverOlder
==============================================================================
