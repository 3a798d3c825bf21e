----------------------------- MODULE ExpiryProofs -----------------------------
(***************************************************************************)
(* Theorems about Expiry, for any durations, deposits, dates and number of *)
(* NewStates.                                                              *)
(***************************************************************************)
EXTENDS Expiry, GetStatusProofs

\* The calls that rounds make are calls of GetStatus: what holds of them on their own
\* holds in the cache.
LEMMA CallsOfRounds == ExpirySpec => Spec
<1>1. ExpiryInit => Init
  BY DEF ExpiryInit
<1>2. [ExpiryNext]_<<vars, cacheVars>> => [Next]_vars
  BY DEF ExpiryNext, Begin, End, Outside, Next
<1> QED
  BY <1>1, <1>2, PTL DEF ExpirySpec, Spec

\* A call that began after valid_until only asks for the balances, so that it can
\* return nothing but Finalized or fail; each call after it is such a call, too.
SettledInv ==
  /\ entry \notin Finalized
  /\ pc = "balances" => reason \in Finalized
  /\ lateCall => Expired /\ pc = "balances"
  /\ settled => Expired /\ entry = "Absent" /\ (pc # "idle" => lateCall)

LEMMA SettledInvariance == ExpirySpec => []SettledInv
<1>1. ExpiryInit => SettledInv
  BY DEF ExpiryInit, Init, SettledInv, Finalized
<1>2. TypeOK /\ TypeOK' /\ SettledInv /\ [ExpiryNext]_<<vars, cacheVars>> => SettledInv'
  <2> SUFFICES ASSUME TypeOK, TypeOK', SettledInv, [ExpiryNext]_<<vars, cacheVars>>
               PROVE  SettledInv'
    OBVIOUS
  <2>0. pc' = "balances" => reason' \in Finalized
    BY DEF TypeOK
  <2>1. CASE Begin
    <3>1. /\ pc = "idle" /\ pc' # "idle" /\ UNCHANGED <<passed, entry, settled>>
          /\ lateCall' = Expired
          /\ Expired => pc' = "balances"
      BY <2>1 DEF Begin, Start, Request, Expired, validatorVars
    <3> QED
      BY <2>0, <3>1 DEF SettledInv, Expired
  <2>2. CASE End
    <3>0. /\ Ends /\ UNCHANGED passed
          /\ AskFollower \/ AskLatest \/ \E r : Returned(r) /\ Return(r)
      BY <2>2, CallSteps DEF End, Ends, validatorVars
    <3>1. CASE AskFollower \/ AskLatest
      <4>1. pc \in {"leader", "follower"} /\ pc' \in {"follower", "latest"}
        BY <3>1 DEF AskFollower, AskLatest, Request
      <4>2. ~lateCall' /\ UNCHANGED <<entry, settled>>
        BY <2>2, <4>1 DEF End, SettledInv
      <4> QED
        BY <3>0, <4>1, <4>2 DEF SettledInv, Expired
    <3>2. ASSUME NEW r, Returned(r), Return(r) PROVE SettledInv'
      <4>1. /\ pc # "idle" /\ pc' = "idle" /\ result' = r
            /\ lateCall => r.status \in Finalized \cup {"error"}
        BY <3>2, ReturnTypes DEF Returned, Return, SettledInv
      <4>2. CASE UNCHANGED <<entry, settled>>
        BY <2>2, <3>0, <4>1, <4>2 DEF End, SettledInv, Expired
      <4>3. CASE /\ r.status # "error"
                 /\ Commit(r.status)
                 /\ settled' = (settled \/ lateCall)
        BY <2>2, <3>0, <4>1, <4>3 DEF End, Commit, SettledInv, Expired, Finalized
      <4> QED
        BY <2>2, <4>1, <4>2, <4>3 DEF End
    <3> QED
      BY <3>0, <3>1, <3>2
  <2>3. CASE Outside \/ UNCHANGED <<vars, cacheVars>>
    <3>1. /\ UNCHANGED <<pc, reason, entry, lateCall, settled>>
          /\ passed \subseteq passed'
      BY <2>3 DEF Outside, PassDate, Beats, NewState, Approve, LearnApproval, Tick, call,
                  vars, validatorVars, cacheVars
    <3> QED
      BY <3>1 DEF SettledInv, Expired
  <2> QED
    BY <2>1, <2>2, <2>3 DEF ExpiryNext
<1> QED
  BY <1>1, <1>2, CallsOfRounds, TypeCorrect, PTL DEF ExpirySpec

\* An expired campaign is gone once a call made after its end is committed, and stays
\* so; no finalized campaign is ever cached.
THEOREM SettledStaysGone == ExpirySpec => []SettledIsGone
<1>1. SettledInv => SettledIsGone
  BY DEF SettledInv, SettledIsGone
<1> QED
  BY <1>1, SettledInvariance, PTL
==============================================================================
