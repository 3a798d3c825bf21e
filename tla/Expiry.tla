-------------------------------- MODULE Expiry --------------------------------
(***************************************************************************)
(* A campaign that comes to its end while it is cached: get_status         *)
(* (GetStatus) together with what the rounds of the cache                  *)
(* (src/src/cache.rs) make of its results.  The status that requests go by *)
(* is the one of the last result that a round committed.                   *)
(***************************************************************************)
EXTENDS GetStatus

VARIABLES
  entry,     \* the cached status, "Absent" without one
  lateCall,  \* history: the call in progress began after valid_until
  settled    \* history: a result of such a call was committed

cacheVars == <<entry, lateCall, settled>>

ExpiryInit ==
  /\ Init
  /\ entry = "Absent" /\ lateCall = FALSE /\ settled = FALSE

Expired == "valid_until" \in passed

\* What update() does with a status: a finalized campaign is removed, others are
\* inserted by a new round, changed by an update.
Commit(status) == entry' = IF status \in Finalized THEN "Absent" ELSE status

\* get_status begins a call in a round.
Begin ==
  /\ Start
  /\ lateCall' = Expired
  /\ UNCHANGED <<entry, settled>>

\* A call returns a status and its round commits it, or the call fails, or the
\* round times out: then the entry stays as it is.
End ==
  /\ AnswerBalances \/ AnswerLeader \/ AnswerFollower \/ AnswerLatest \/ Fail
  /\ lateCall' = (lateCall /\ pc' # "idle")
  /\ IF pc' # "idle" THEN UNCHANGED <<entry, settled>>
     ELSE \/ /\ result'.status # "error"
             /\ Commit(result'.status)
             /\ settled' = (settled \/ lateCall)
          \/ UNCHANGED <<entry, settled>>

Outside ==
  /\ \/ \E d \in Dates : PassDate(d)
     \/ \E v, s \in Validators : Beats(v, s)
     \/ NewState \/ Approve \/ LearnApproval \/ Tick
  /\ UNCHANGED cacheVars

ExpiryNext == Begin \/ End \/ Outside

ExpirySpec == ExpiryInit /\ [][ExpiryNext]_<<vars, cacheVars>>
------------------------------------------------------------------------------
\* No finalized campaign is cached.  An expired one is not offered any more once one
\* call that began after valid_until had its result committed; until then it may be,
\* since the call needs the leader even though the date alone decides.
SettledIsGone == entry \notin Finalized /\ (settled => entry = "Absent")
==============================================================================
