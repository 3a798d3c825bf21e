------------------------------ MODULE GetStatus ------------------------------
(***************************************************************************)
(* get_status of src/src/status.rs: the calls that decide the Status of    *)
(* one campaign, while its validators go on exchanging messages and time   *)
(* passes between the requests of a call.                                  *)
(*                                                                         *)
(* A call asks the leader for its last approved NewState and heartbeats,   *)
(* then the follower for its ApproveState and heartbeats, then, sometimes, *)
(* the leader for its latest NewState; it compares their timestamps with   *)
(* the clock at the moment of each comparison.                             *)
(*                                                                         *)
(* Time is a number of ticks since a message was sent.  A heartbeat is the *)
(* age of the newest one of a sender, a NewState its number in the order   *)
(* the leader sent them; its balances sum up to that number.               *)
(***************************************************************************)
EXTENDS Naturals

CONSTANTS Recency,        \* Messages.recency, 4 minutes
          Minute,         \* how old the latest NewState must be to count as rejected
          Timeout,        \* request timeout of SentryApi's HTTP client
          Deposits,       \* deposits that the campaign may have
          MaxSeq,         \* bound: NewStates the leader sends
          MayPass,        \* bound: the dates that pass
          Links,          \* bound: the pairs <<v, s>> such that v hears of s
          Prompt,         \* whether the validators do their work in time:
          Beat,           \*   oldest heartbeat there is between two validators
          Approving       \*   oldest NewState that is not approved yet

Validators == {"leader", "follower"}
Dates      == {"active_from", "withdraw_period_start", "valid_until"}

ASSUME BoundsAssumption ==
  MaxSeq \in Nat /\ MayPass \subseteq Dates /\ Links \subseteq Validators \X Validators
ASSUME TimesAssumption ==
  /\ {Recency, Minute, Timeout, Beat, Approving} \subseteq Nat
  /\ Minute <= Recency
ASSUME DepositsAssumption == Deposits \subseteq Nat
ASSUME PromptAssumption == Prompt \in BOOLEAN

VARIABLES
  passed,      \* the dates of the campaign that lie in the past
  deposit,     \* channel.deposit_amount
  hb,          \* hb[v][s]: age of the newest heartbeat of s that v has
  newest,      \* the latest NewState of the leader
  approved,    \* the last approved NewState, as the leader knows it
  approval,    \* the last ApproveState, as the follower knows it
  pc,          \* the request the call waits for
  wait,        \* how long it has waited for it
  reason,      \* why the campaign is finalized, if the call knows it is
  leader, follower,   \* the LastApprovedResponses, aging
  doubts,      \* `disconnected` and `offline`, computed before the last request
  result,      \* what the last call returned
  finals       \* history: some call has returned Finalized

validatorVars == <<passed, deposit, hb, newest, approved, approval>>
call          == <<pc, wait, reason, leader, follower, doubts>>
vars          == <<validatorVars, call, result, finals>>
------------------------------------------------------------------------------
Oldest == Recency + Timeout + 1   \* older than anything is compared with
Never  == Oldest + 1              \* there is no such message
Ages   == 0..Never

Older(age) == IF age < Oldest THEN age + 1 ELSE age

Heartbeats    == [Validators -> Ages]
AgedBeats(hs) == [s \in Validators |-> Older(hs[s])]
NoBeats       == [s \in Validators |-> Never]

Healths == {"none", "healthy", "unhealthy"}

NoLeader   == [beats |-> NoBeats, state |-> 0]
NoFollower == [beats |-> NoBeats, approve |-> "none"]

Doubts   == {"disconnected", "offline", "rejected_state", "unhealthy"}
Statuses == {"Expired", "Withdraw", "Exhausted", "Initializing", "Unsound",
             "Active", "Waiting"}
Finalized == {"Expired", "Withdraw", "Exhausted"}

Result(status, why) == [status |-> status, doubts |-> why]

TypeOK ==
  /\ passed \in SUBSET Dates
  /\ deposit \in Deposits
  /\ hb \in [Validators -> Heartbeats]
  /\ newest \in [seq : 0..MaxSeq, age : Ages]
  /\ approved \in 0..MaxSeq
  /\ approval \in [seq : 0..MaxSeq, health : Healths]
  /\ pc \in {"idle", "balances", "leader", "follower", "latest"}
  /\ wait \in 0..Timeout
  /\ reason \in Finalized \cup {"none"}
  /\ reason # "none" <=> pc = "balances"
  /\ leader \in [beats : Heartbeats, state : 0..MaxSeq]
  /\ follower \in [beats : Heartbeats, approve : Healths]
  /\ doubts \in SUBSET {"disconnected", "offline"}
  /\ result \in [status : Statuses \cup {"none", "error"}, doubts : SUBSET Doubts]
  /\ result.status = "Unsound" <=> result.doubts # {}
  /\ finals \in BOOLEAN

Init ==
  /\ passed \in {{}, MayPass \cap {"active_from"}}
  /\ deposit \in Deposits
  /\ hb = [v \in Validators |-> [s \in Validators |-> 
                                    IF Prompt /\ <<v, s>> \in Links THEN 0 ELSE Never]]
  /\ newest = [seq |-> 0, age |-> Oldest]
  /\ approved = 0
  /\ approval = [seq |-> 0, health |-> "none"]
  /\ pc = "idle" /\ wait = 0 /\ reason = "none"
  /\ leader = NoLeader /\ follower = NoFollower /\ doubts = {}
  /\ result = Result("none", {})
  /\ finals = FALSE
------------------------------------------------------------------------------
(* The validators and the clock. *)

PassDate(d) ==
  /\ d \in MayPass \ passed
  /\ passed' = passed \cup {d}
  /\ UNCHANGED <<deposit, hb, newest, approved, approval, call, result, finals>>

\* A heartbeat of s arrives at v, perhaps late.
Beats(v, s) ==
  /\ <<v, s>> \in Links
  /\ \E age \in 0..Oldest :
       age < hb[v][s] /\ hb' = [hb EXCEPT ![v] = [hb[v] EXCEPT ![s] = age]]
  /\ UNCHANGED <<passed, deposit, newest, approved, approval, call, result, finals>>

NewState ==
  /\ newest.seq < MaxSeq
  /\ newest' = [seq |-> newest.seq + 1, age |-> 0]
  /\ UNCHANGED <<passed, deposit, hb, approved, approval, call, result, finals>>

\* The follower approves the latest NewState, as healthy or not.
Approve ==
  /\ newest.seq > 0
  /\ \E health \in IF Prompt THEN {"healthy"} ELSE {"healthy", "unhealthy"} :
       approval' = [seq |-> newest.seq, health |-> health]
  /\ UNCHANGED <<passed, deposit, hb, newest, approved, call, result, finals>>

\* The approval arrives at the leader; the follower may have lost it since.
LearnApproval ==
  /\ approved' = IF Prompt THEN approval.seq ELSE newest.seq
  /\ UNCHANGED <<passed, deposit, hb, newest, approval, call, result, finals>>

\* A tick passes, for the messages and for their copies in the call.
Tick ==
  /\ pc # "idle" => wait < Timeout
  /\ Prompt => /\ \A link \in Links : hb[link[1]][link[2]] < Beat
               /\ newest.age < Approving \/ approved = newest.seq
  /\ hb' = [v \in Validators |-> AgedBeats(hb[v])]
  /\ newest' = [newest EXCEPT !.age = Older(newest.age)]
  /\ wait' = IF pc = "idle" THEN wait ELSE wait + 1
  /\ leader' = [leader EXCEPT !.beats = AgedBeats(leader.beats)]
  /\ follower' = [follower EXCEPT !.beats = AgedBeats(follower.beats)]
  /\ UNCHANGED <<passed, deposit, approved, approval, pc, reason, doubts, result, finals>>
------------------------------------------------------------------------------
(* What the messages say. *)

HasBeat(la)       == \E s \in Validators : la.beats[s] # Never
IsRecent(age)     == age <= Recency
HasRecentBeat(la) == \E s \in Validators : IsRecent(la.beats[s])

IsInitializing(l, f) ==
  \/ ~HasBeat(l) /\ l.state = 0
  \/ ~HasBeat(f) /\ f.approve = "none"

IsOffline(l, f) == ~HasRecentBeat(l) \/ ~HasRecentBeat(f)

IsDisconnected(l, f) ==
  ~(IsRecent(l.beats["follower"]) /\ IsRecent(f.beats["leader"]))

IsUnhealthy(l, f) == l.state > 0 /\ f.approve = "unhealthy"

\* Mutant of IsActive: heartbeats were looked at before, so they are not again.
IsActiveAnyway(l, f) == l.state > 0 /\ f.approve = "healthy"

IsActive(l, f) ==
  HasRecentBeat(l) /\ HasRecentBeat(f) /\ l.state > 0 /\ f.approve = "healthy"

\* Mutant of IsReady: a campaign with a NewState must wait, too.
IsReadyAlways(l, f) == FALSE

IsReady(l, f) == HasRecentBeat(l) /\ HasRecentBeat(f) /\ l.state = 0
------------------------------------------------------------------------------
(* A call. *)

\* Waits for the next request.
Request(p) == pc' = p /\ wait' = 0

\* Mutant of Return: what the call knew is left to the next one.
ReturnKeepsReason(r) ==
  /\ result' = r
  /\ finals' = (finals \/ r.status \in Finalized)
  /\ pc' = "idle" /\ wait' = 0 /\ reason' = reason
  /\ leader' = NoLeader /\ follower' = NoFollower /\ doubts' = {}

\* The call returns.
Return(r) ==
  /\ result' = r
  /\ finals' = (finals \/ r.status \in Finalized)
  /\ pc' = "idle" /\ wait' = 0 /\ reason' = "none"
  /\ leader' = NoLeader /\ follower' = NoFollower /\ doubts' = {}

\* Mutant of Start: only the withdraw period ends a campaign.
StartWithdrawOnly ==
  /\ pc = "idle"
  /\ IF "withdraw_period_start" \in passed
       THEN Request("balances") /\ reason' = "Withdraw"
       ELSE Request("leader") /\ reason' = reason
  /\ UNCHANGED <<validatorVars, leader, follower, doubts, result, finals>>

\* is_finalized, up to its first request: the dates come first.
Start ==
  /\ pc = "idle"
  /\ IF passed \cap {"valid_until", "withdraw_period_start"} # {}
       THEN /\ Request("balances")
            /\ reason' = IF "valid_until" \in passed THEN "Expired" ELSE "Withdraw"
       ELSE Request("leader") /\ reason' = reason
  /\ UNCHANGED <<validatorVars, leader, follower, doubts, result, finals>>

\* fetch_balances returns.
AnswerBalances ==
  /\ pc = "balances"
  /\ Return(Result(reason, {}))
  /\ UNCHANGED validatorVars

\* Mutant of Exhausted: the totals must meet exactly.
ExhaustedExactly(l) == l.state = deposit

Exhausted(l) == l.state >= deposit

\* The rest of is_finalized: the leader's last approved balances.
AnswerLeader ==
  /\ pc = "leader"
  /\ LET l == [beats |-> hb["leader"], state |-> approved] IN
       \/ Exhausted(l) /\ Return(Result("Exhausted", {}))
       \/ /\ ~Exhausted(l)
          /\ leader' = l
          /\ Request("follower")
          /\ UNCHANGED <<reason, follower, doubts, result, finals>>
  /\ UNCHANGED validatorVars

\* The status of a campaign whose validators have sent messages.
Decide(l, f, why) ==
  IF why # {} THEN Result("Unsound", why)
  ELSE IF IsActive(l, f) \/ (IsReady(l, f) /\ "active_from" \in passed)
    THEN Result("Active", {})
    ELSE Result("Waiting", {})

Unhealthy(l, f) == IF IsUnhealthy(l, f) THEN {"unhealthy"} ELSE {}

\* is_initializing, is_offline, is_disconnected, and the part of
\* is_rejected_state that needs no request.
AnswerFollower ==
  /\ pc = "follower"
  /\ LET f    == [beats |-> hb["follower"], approve |-> approval.health]
         seen == (IF IsDisconnected(leader, f) THEN {"disconnected"} ELSE {})
                   \cup (IF IsOffline(leader, f) THEN {"offline"} ELSE {})
     IN  \/ IsInitializing(leader, f) /\ Return(Result("Initializing", {}))
         \/ /\ ~IsInitializing(leader, f)
            /\ leader.state > 0 /\ f.approve = "none"
            /\ Return(Decide(leader, f, seen \cup {"rejected_state"}))
         \/ /\ ~IsInitializing(leader, f)
            /\ leader.state = 0
            /\ Return(Decide(leader, f, seen))
         \/ /\ ~IsInitializing(leader, f)
            /\ leader.state > 0 /\ f.approve # "none"
            /\ follower' = f
            /\ doubts' = seen
            /\ Request("latest")
            /\ UNCHANGED <<reason, leader, result, finals>>
  /\ UNCHANGED validatorVars

\* Mutant of Rejected: how old the latest NewState is does not matter.
RejectedAtOnce == leader.state < newest.seq

\* The last approved NewState is older than the latest one, which is old, too.
Rejected == leader.state < newest.seq /\ newest.age > Minute

\* Without a latest NewState in the answer there is nothing to compare with.
AnswerLatest ==
  /\ pc = "latest"
  /\ \E rejected \in {Rejected, FALSE} :
       Return(Decide(leader, follower,
                     doubts \cup (IF rejected THEN {"rejected_state"} ELSE {})
                            \cup Unhealthy(leader, follower)))
  /\ UNCHANGED validatorVars

\* A request fails or times out; get_status returns the error.
Fail ==
  /\ pc # "idle"
  /\ Return(Result("error", {}))
  /\ UNCHANGED validatorVars
------------------------------------------------------------------------------
Next ==
  \/ \E d \in Dates : PassDate(d)
  \/ \E v, s \in Validators : Beats(v, s)
  \/ NewState \/ Approve \/ LearnApproval \/ Tick
  \/ Start \/ AnswerBalances \/ AnswerLeader \/ AnswerFollower \/ AnswerLatest \/ Fail

Spec == Init /\ [][Next]_vars

Returns(status) == pc # "idle" /\ pc' = "idle" /\ result'.status = status
------------------------------------------------------------------------------
\* Once a call has found the campaign finalized, no later call finds it anything
\* else, whichever of the three reasons comes first and though each call asks
\* anew: the cache relies on it when it drops the campaign.
FinalizedForever == finals => result.status \in Finalized \cup {"error"}

\* Validators that do their work in time are never called unsound, though the
\* three answers that a call compares are up to two request timeouts apart.
SoundIsNotDoubted == Prompt => result.status # "Unsound"

\* When a call returns Active both validators have a heartbeat that is recent at
\* that moment, and each has one of the other that is at most one request older:
\* is_offline and is_disconnected are computed before the last request.  The call
\* found the deposit unspent, and either a NewState that the leader knows as approved
\* and the follower as healthy, or none while active_from lies in the past.
ActiveIsCurrent ==
  [][Returns("Active") =>
       /\ \A v \in Validators : \E s \in Validators : IsRecent(hb[v][s])
       /\ hb["leader"]["follower"] <= Recency + Timeout
       /\ hb["follower"]["leader"] <= Recency + Timeout
       /\ leader.state < deposit
       /\ \/ approved > 0 /\ follower.approve = "healthy"
          \/ leader.state = 0 /\ "active_from" \in passed]_vars

\* Waiting is for campaigns without a NewState whose active_from lies ahead.  The
\* one exception: a heartbeat that was recent for is_offline is not for is_active
\* any more, because the last request took its time.
WaitingOnlyBeforeStart ==
  [][Returns("Waiting") => \/ pc = "follower" /\ leader.state = 0 /\ "active_from" \notin passed
                           \/ pc = "latest" /\ wait > 0]_vars
==============================================================================
