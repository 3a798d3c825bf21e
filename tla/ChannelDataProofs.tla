-------------------------- MODULE ChannelDataProofs --------------------------
(***************************************************************************)
(* Theorems about ChannelData, for any number of validators and of changes *)
(* to the data and the status of the channel.                              *)
(***************************************************************************)
EXTENDS ChannelData, TLAPS

LEMMA Types ==
  /\ Versions \subseteq Nat /\ 0 \in Versions /\ 1 \in Versions
  /\ None \in Campaigns /\ Nothing \in [Validators -> Versions]
  /\ \A r \in Campaigns : r.data \in Versions /\ r.status \in Versions
  BY VersionAssumption DEF Versions, None, Campaigns, Nothing

\* What a round makes of a campaign keeps its type.
LEMMA CampaignTypes ==
  ASSUME TypeOK
  PROVE  /\ \A d \in Versions : Merge(result, d) \in Campaigns
         /\ Extended \in Campaigns /\ Modified \in Campaigns
         /\ [None EXCEPT !.status = reported] \in Campaigns
  BY Types DEF TypeOK, Merge, Extended, Modified, Campaigns, None

LEMMA InitTypeOK == Init => TypeOK
<1> SUFFICES ASSUME Init PROVE TypeOK
  OBVIOUS
<1>1. served \in [Validators -> Versions \ {0}] /\ reported \in Versions \ {0}
  BY Types DEF Init
<1>2. result \in Campaigns /\ cached \in Campaigns /\ newest \in Versions
  BY Types DEF Init
<1>3. \A f \in {listed, begun, floor} : f \in [Validators -> Versions]
  BY Types DEF Init
<1> QED
  BY <1>1, <1>2, <1>3 DEF Init, TypeOK

LEMMA NextTypeOK == TypeOK /\ [Next]_vars => TypeOK'
<1> SUFFICES ASSUME TypeOK, [Next]_vars PROVE TypeOK'
  OBVIOUS
<1> USE Types DEF TypeOK
<1>1. ASSUME NEW v \in Validators, ChangeData(v) PROVE TypeOK'
  <2>1. served[v] + 1 \in Versions \ {0}
    BY <1>1, VersionAssumption DEF ChangeData, Versions
  <2>2. served' \in [Validators -> Versions \ {0}]
    BY <1>1, <2>1 DEF ChangeData
  <2> QED
    BY <1>1, <2>2 DEF ChangeData, history
<1>2. CASE ChangeStatus
  <2>1. reported + 1 \in Versions \ {0}
    BY <1>2, VersionAssumption DEF ChangeStatus, Versions
  <2> QED
    BY <1>2, <2>1 DEF ChangeStatus, history
<1>3. CASE Settle \/ StartNew \/ StartUpdate \/ UNCHANGED vars
  <2>1. pc = "idle" => listed = Nothing /\ rest = {} /\ result = None
    OBVIOUS
  <2>2. [Validators -> Versions \ {0}] \subseteq [Validators -> Versions]
    OBVIOUS
  <2> QED
    BY <1>3, <2>1, <2>2 DEF Settle, StartNew, StartUpdate, vars, world, history
<1>4. ASSUME NEW v \in Validators, List(v) PROVE TypeOK'
  <2>1. served[v] \in Versions
    OBVIOUS
  <2> QED
    BY <1>4, <2>1 DEF List, world, history
<1>5. CASE ListDone
  BY <1>5 DEF ListDone, world, history
<1>6. ASSUME NEW v \in Validators, Collect(v) PROVE TypeOK'
  <2>1. Merge(result, listed[v]) \in Campaigns /\ reported \in Versions
    BY CampaignTypes
  <2> QED
    BY <1>6, <2>1 DEF Collect, world
<1>7. CASE CommitNew \/ CommitUpdate \/ TimeOut
  <2>1. EndRound /\ cached' \in Campaigns /\ floor' \in [Validators -> Versions]
    BY <1>7, CampaignTypes DEF CommitNew, CommitUpdate, TimeOut
  <2> QED
    BY <2>1 DEF EndRound, world
<1>8. CASE Fetch
  <2>1. result' \in Campaigns /\ newest' \in Versions
    BY <1>8, CampaignTypes DEF Fetch
  <2> QED
    BY <1>8, <2>1 DEF Fetch, world
<1> QED
  BY <1>1, <1>2, <1>3, <1>4, <1>5, <1>6, <1>7, <1>8 DEF Next, Step

\* Nothing of a round is left to the next one, however it ends.
THEOREM TypeCorrect == Spec => []TypeOK
  BY InitTypeOK, NextTypeOK, PTL DEF Spec
------------------------------------------------------------------------------
(* Data and status of a result. *)

\* What the round has is no older than what it found served: the lists, and the
\* result, whose data are those of one of the lists.  Its status is the newest.  An
\* update has a campaign to change.
RoundInv ==
  /\ result.status = newest
  /\ pc = "list" => result = None
  /\ pc \in {"list", "collect"} =>
       \A v \in Validators : /\ begun[v] <= served[v]
                             /\ listed[v] # 0 => listed[v] >= begun[v]
  /\ pc = "collect" => /\ \A v \in rest : listed[v] # 0
                       /\ result # None => \E v \in Validators : result.data >= begun[v]
  /\ pc \in {"fetch", "update"} => cached # None

LEMMA RoundInit == Init => RoundInv
  BY DEF Init, RoundInv, None

LEMMA RoundStep == TypeOK /\ RoundInv /\ [Next]_vars => RoundInv'
<1> SUFFICES ASSUME TypeOK, RoundInv, [Next]_vars PROVE RoundInv'
  OBVIOUS
<1> USE DEF RoundInv
<1>t. /\ \A v \in Validators : served[v] \in Nat /\ listed[v] \in Nat /\ begun[v] \in Nat
      /\ served \in [Validators -> Versions \ {0}] /\ listed \in [Validators -> Versions]
  BY Types DEF TypeOK
<1>1. ASSUME NEW v \in Validators, ChangeData(v) PROVE RoundInv'
  <2>1. \A w \in Validators : served'[w] >= served[w] /\ served'[w] \in Nat
    BY <1>1, <1>t DEF ChangeData
  <2> QED
    BY <1>1, <1>t, <2>1 DEF ChangeData, history
<1>2. CASE ChangeStatus \/ Settle \/ UNCHANGED vars
  BY <1>2 DEF ChangeStatus, Settle, vars, world, history
<1>3. CASE StartNew
  <2>1. /\ pc' = "list" /\ begun' = served' /\ served' = served /\ listed' = Nothing
        /\ result' = None /\ result = None /\ newest' = newest
    BY <1>3 DEF StartNew, TypeOK, world
  <2> QED
    BY <1>t, <2>1 DEF Nothing
<1>4. ASSUME NEW v \in Validators, List(v) PROVE RoundInv'
  <2>1. /\ pc = "list" /\ pc' = "list" /\ UNCHANGED <<served, begun, result, newest>>
        /\ listed' = listed \/ listed' = [listed EXCEPT ![v] = served[v]]
    BY <1>4 DEF List, world, history
  <2>2. \A w \in Validators : listed'[w] # 0 => listed'[w] >= begun'[w]
    BY <1>t, <2>1
  <2> QED
    BY <2>1, <2>2
<1>5. CASE ListDone
  BY <1>5 DEF ListDone, world, history
<1>6. ASSUME NEW v \in Validators, Collect(v) PROVE RoundInv'
  <2>1. /\ pc = "collect" /\ v \in rest /\ rest' \subseteq rest
        /\ UNCHANGED <<pc, served, listed, begun>>
    BY <1>6 DEF Collect, world
  <2>2. listed[v] >= begun[v]
    BY <2>1
  <2>3. CASE result' = Merge(result, listed[v]) /\ newest' = reported
    <3>1. result' \in Campaigns /\ result \in Campaigns
      BY <1>t, <2>3, CampaignTypes DEF TypeOK
    <3>2. result'.status = reported
      BY <2>3, <3>1 DEF Merge, Campaigns
    <3>3. result'.data = IF result = None THEN listed[v] ELSE result.data
      BY <2>3, <3>1 DEF Merge, Campaigns
    <3>4. \E w \in Validators : result'.data >= begun'[w]
      BY <2>1, <2>2, <3>3
    <3> QED
      BY <2>1, <2>3, <3>2, <3>4
  <2>4. CASE UNCHANGED <<result, newest>>
    BY <2>1, <2>4
  <2> QED
    BY <1>6, <2>3, <2>4 DEF Collect
<1>7. CASE CommitNew \/ CommitUpdate \/ TimeOut
  <2>1. pc' = "idle" /\ result' = None /\ newest' = 0
    BY <1>7 DEF CommitNew, CommitUpdate, TimeOut, EndRound
  <2> QED
    BY <2>1 DEF None
<1>8. CASE StartUpdate \/ Fetch
  <2>1. /\ pc' \in {"fetch", "update"}
        /\ UNCHANGED <<result, newest>>
             \/ (result' = [None EXCEPT !.status = reported] /\ newest' = reported)
    BY <1>8 DEF StartUpdate, Fetch, history
  <2>2. cached # None /\ cached' = cached
    BY <1>8 DEF StartUpdate, Fetch
  <2> QED
    BY <2>1, <2>2 DEF None
<1> QED
  BY <1>1, <1>2, <1>3, <1>4, <1>5, <1>6, <1>7, <1>8 DEF Next, Step

\* A round commits the newest status it was given, though the data may come from
\* another listing than the one that get_status was last called for.
THEOREM NewestStatusIsCommitted == Spec => NewestStatusWins
<1>1. TypeOK /\ RoundInv /\ [Next]_vars => (cached' # cached => cached'.status = newest)
  <2> SUFFICES ASSUME TypeOK, RoundInv, Next, cached' # cached PROVE cached'.status = newest
    BY DEF vars
  <2>1. CASE CommitNew
    BY <2>1 DEF CommitNew, Extended, RoundInv
  <2>2. CASE CommitUpdate
    BY <2>2 DEF CommitUpdate, Modified, RoundInv, TypeOK, Campaigns
  <2>3. CommitNew \/ CommitUpdate
    BY DEF Next, Step, ChangeData, ChangeStatus, Settle, StartNew, StartUpdate, TimeOut,
           ListDone, Fetch, List, Collect
  <2> QED
    BY <2>1, <2>2, <2>3
<1> QED
  BY <1>1, RoundInit, RoundStep, TypeCorrect, PTL DEF Spec, NewestStatusWins

\* Data come with new rounds only and follow the lists; updates keep them.
THEOREM DataAreFollowed == Spec => []DataFollowLists
<1>1. Init => DataFollowLists
  BY DEF Init, DataFollowLists
<1>2. TypeOK /\ RoundInv /\ DataFollowLists /\ [Next]_vars => DataFollowLists'
  <2> SUFFICES ASSUME TypeOK, RoundInv, DataFollowLists, [Next]_vars PROVE DataFollowLists'
    OBVIOUS
  <2>1. CASE CommitNew
    <3>1. CASE result = None
      BY <2>1, <3>1 DEF CommitNew, Extended, DataFollowLists
    <3>2. CASE result # None
      <4>1. cached' = result /\ floor' = begun /\ pc = "collect"
        BY <2>1, <3>2 DEF CommitNew, Extended
      <4> QED
        BY <3>2, <4>1 DEF RoundInv, DataFollowLists
    <3> QED
      BY <3>1, <3>2
  <2>2. CASE CommitUpdate
    <3>1. cached # None
      BY <2>2 DEF CommitUpdate, RoundInv
    <3> QED
      BY <2>2, <3>1 DEF CommitUpdate, Modified, TypeOK, Campaigns, DataFollowLists
  <2>3. CASE ~(CommitNew \/ CommitUpdate)
    <3>1. UNCHANGED <<cached, floor>>
      BY <2>3 DEF Next, Step, ChangeData, ChangeStatus, Settle, StartNew, StartUpdate, TimeOut,
                  ListDone, Fetch, List, Collect, vars, history
    <3> QED
      BY <3>1 DEF DataFollowLists
  <2> QED
    BY <2>1, <2>2, <2>3
<1> QED
  BY <1>1, <1>2, RoundInit, RoundStep, TypeCorrect, PTL DEF Spec
==============================================================================
