--------------------------- MODULE GetStatusProofs ---------------------------
(***************************************************************************)
(* Theorems about GetStatus, for any durations, deposits, dates, links     *)
(* between the validators and any number of NewStates.                     *)
(***************************************************************************)
EXTENDS GetStatus, TLAPS

\* Ages grow by at most one and keep their order, and saturate past every threshold.
LEMMA AgeTypes ==
  /\ Oldest \in Nat /\ Never \in Nat /\ Oldest = Recency + Timeout + 1 /\ Never = Oldest + 1
  /\ \A age \in Ages : /\ Older(age) \in Ages
                       /\ age <= Older(age) /\ Older(age) <= age + 1
  /\ \A a, b \in Ages : a <= b => Older(a) <= Older(b)
  BY TimesAssumption DEF Oldest, Never, Ages, Older

\* Heartbeats age one by one.
LEMMA BeatTypes ==
  /\ NoBeats \in Heartbeats
  /\ \A hs \in Heartbeats : AgedBeats(hs) \in Heartbeats
  /\ \A hs \in Heartbeats, s \in Validators : AgedBeats(hs)[s] = Older(hs[s])
<1>1. Never \in Ages
  BY AgeTypes DEF Ages
<1> QED
  BY <1>1, AgeTypes DEF NoBeats, Heartbeats, AgedBeats

\* A status is Unsound if there are doubts, otherwise it is Active or Waiting.
LEMMA Decision ==
  ASSUME NEW l, NEW f, NEW why \in SUBSET Doubts
  PROVE  /\ Decide(l, f, why) \in [status : {"Unsound", "Active", "Waiting"},
                                   doubts : SUBSET Doubts]
         /\ Decide(l, f, why).doubts = why
         /\ Decide(l, f, why).status = "Unsound" <=> why # {}
  BY DEF Decide, Result

\* What the dates, the validators and the clock do.
Around ==
  \/ \E d \in Dates : PassDate(d)
  \/ \E v, s \in Validators : Beats(v, s)
  \/ NewState \/ Approve \/ LearnApproval

\* The outcomes of a call; it returns, or it waits for the next request.
Ends == AnswerBalances \/ AnswerLeader \/ AnswerFollower \/ AnswerLatest \/ Fail

FollowerAnswer == [beats |-> hb["follower"], approve |-> approval.health]

\* `disconnected` and `offline` as the call computes them.
Seen(f) == (IF IsDisconnected(leader, f) THEN {"disconnected"} ELSE {})
             \cup (IF IsOffline(leader, f) THEN {"offline"} ELSE {})

\* All that a call has against the campaign in the end.
Doubted(rejected) ==
  doubts \cup (IF rejected THEN {"rejected_state"} ELSE {}) \cup Unhealthy(leader, follower)

\* What a call returns, and when.
Returned(r) ==
  \/ pc = "balances" /\ r = Result(reason, {})
  \/ pc = "leader" /\ Exhausted([beats |-> hb["leader"], state |-> approved])
       /\ r = Result("Exhausted", {})
  \/ pc = "follower" /\ r = Result("Initializing", {})
  \/ /\ pc = "follower" /\ leader.state > 0 /\ FollowerAnswer.approve = "none"
     /\ r = Decide(leader, FollowerAnswer, Seen(FollowerAnswer) \cup {"rejected_state"})
  \/ /\ pc = "follower" /\ leader.state = 0
     /\ r = Decide(leader, FollowerAnswer, Seen(FollowerAnswer))
  \/ /\ pc = "latest"
     /\ \E rejected \in {Rejected, FALSE} : r = Decide(leader, follower, Doubted(rejected))
  \/ pc # "idle" /\ r = Result("error", {})

\* The call has the leader's answer.
AskFollower ==
  /\ pc = "leader"
  /\ ~Exhausted([beats |-> hb["leader"], state |-> approved])
  /\ leader' = [beats |-> hb["leader"], state |-> approved]
  /\ Request("follower")
  /\ UNCHANGED <<reason, follower, doubts, result, finals>>

\* The call has the follower's answer, too.
AskLatest ==
  /\ pc = "follower"
  /\ leader.state > 0 /\ FollowerAnswer.approve # "none"
  /\ follower' = FollowerAnswer
  /\ doubts' = Seen(FollowerAnswer)
  /\ Request("latest")
  /\ UNCHANGED <<reason, leader, result, finals>>

\* The steps of a call after its start.
LEMMA CallSteps ==
  ASSUME Ends
  PROVE  /\ UNCHANGED validatorVars
         /\ AskFollower \/ AskLatest \/ \E r : Returned(r) /\ Return(r)
<1>1. UNCHANGED validatorVars
  BY DEF Ends, AnswerBalances, AnswerLeader, AnswerFollower, AnswerLatest, Fail
<1>2. CASE AnswerBalances
  BY <1>2 DEF AnswerBalances, Returned
<1>3. CASE AnswerLeader
  BY <1>3 DEF AnswerLeader, Returned, AskFollower
<1>4. CASE AnswerFollower
  BY <1>4, Zenon DEF AnswerFollower, Returned, AskLatest, Seen, FollowerAnswer
<1>5. CASE AnswerLatest
  BY <1>5, Zenon DEF AnswerLatest, Returned, Doubted
<1>6. CASE Fail
  BY <1>6 DEF Fail, Returned
<1> QED
  BY <1>1, <1>2, <1>3, <1>4, <1>5, <1>6 DEF Ends
------------------------------------------------------------------------------
\* What a call may return: doubts come with Unsound only, an end of the campaign
\* only from the dates or from the leader's balances.
LEMMA ReturnTypes ==
  ASSUME TypeOK, NEW r, Returned(r)
  PROVE  /\ r \in [status : Statuses \cup {"none", "error"}, doubts : SUBSET Doubts]
         /\ r.status = "Unsound" <=> r.doubts # {}
         /\ r.status \in Finalized =>
              pc = "balances" \/ (pc = "leader" /\ approved >= deposit)
         /\ pc = "balances" => r.status \in Finalized \cup {"error"}
<1> USE DEF Statuses, Finalized
<1>1. CASE pc = "balances" /\ r = Result(reason, {})
  <2>1. reason \in Finalized
    BY <1>1 DEF TypeOK
  <2> QED
    BY <1>1, <2>1 DEF Result
<1>2. CASE /\ pc = "leader" /\ Exhausted([beats |-> hb["leader"], state |-> approved])
           /\ r = Result("Exhausted", {})
  BY <1>2 DEF Result, Exhausted
<1>3. CASE \/ pc = "follower" /\ r = Result("Initializing", {})
           \/ pc # "idle" /\ r = Result("error", {})
  BY <1>3 DEF Result
<1>4. ASSUME NEW l, NEW f, NEW why \in SUBSET Doubts, r = Decide(l, f, why),
             pc \in {"follower", "latest"}
      PROVE  /\ r \in [status : Statuses \cup {"none", "error"}, doubts : SUBSET Doubts]
             /\ r.status = "Unsound" <=> r.doubts # {}
             /\ r.status \notin Finalized
  BY <1>4, Decision
<1>5. Seen(FollowerAnswer) \in SUBSET Doubts
  BY DEF Seen, Doubts
<1>6. /\ Seen(FollowerAnswer) \cup {"rejected_state"} \in SUBSET Doubts
      /\ \A rejected \in {Rejected, FALSE} : Doubted(rejected) \in SUBSET Doubts
  BY <1>5 DEF Doubts, Doubted, Unhealthy, TypeOK
<1> QED
  BY <1>1, <1>2, <1>3, <1>4, <1>5, <1>6 DEF Returned

\* Every variable keeps its type; a reason is known only while the balances are
\* asked for, and doubts come with Unsound only.
THEOREM TypeCorrect == Spec => []TypeOK
<1> USE BoundsAssumption, TimesAssumption, DepositsAssumption, AgeTypes, BeatTypes
<1>0. /\ NoLeader \in [beats : Heartbeats, state : 0..MaxSeq]
      /\ NoFollower \in [beats : Heartbeats, approve : Healths]
  BY DEF NoLeader, NoFollower, Healths
<1>1. Init => TypeOK
  <2> SUFFICES ASSUME Init PROVE TypeOK
    OBVIOUS
  <2>1. hb \in [Validators -> Heartbeats] /\ newest \in [seq : 0..MaxSeq, age : Ages]
    BY DEF Init, Heartbeats, Ages
  <2>2. passed \in SUBSET Dates
    BY DEF Init, Dates
  <2>3. /\ result \in [status : Statuses \cup {"none", "error"}, doubts : SUBSET Doubts]
        /\ result.status # "Unsound" /\ result.doubts = {}
    BY DEF Init, Result
  <2>4. deposit \in Deposits /\ wait \in 0..Timeout /\ approval \in [seq : 0..MaxSeq, health : Healths]
    BY DEF Init, Healths
  <2> QED
    BY <1>0, <2>1, <2>2, <2>3, <2>4 DEF Init, TypeOK
<1>2. TypeOK /\ [Next]_vars => TypeOK'
  <2> SUFFICES ASSUME TypeOK, [Next]_vars PROVE TypeOK'
    OBVIOUS
  <2> USE DEF call
  <2>1. ASSUME NEW d \in Dates, PassDate(d) PROVE TypeOK'
    BY <2>1 DEF PassDate, TypeOK
  <2>2. ASSUME NEW v \in Validators, NEW s \in Validators, Beats(v, s) PROVE TypeOK'
    <3>1. hb' \in [Validators -> Heartbeats]
      BY <2>2 DEF Beats, TypeOK, Heartbeats, Ages
    <3> QED
      BY <2>2, <3>1 DEF Beats, TypeOK
  <2>3. CASE NewState
    BY <2>3 DEF NewState, TypeOK, Ages
  <2>4. CASE Approve \/ LearnApproval
    <3>1. /\ approved' \in 0..MaxSeq
          /\ approval' \in [seq : 0..MaxSeq, health : Healths]
      BY <2>4 DEF Approve, LearnApproval, TypeOK, Healths
    <3>2. UNCHANGED <<passed, deposit, hb, newest, call, result, finals>>
      BY <2>4 DEF Approve, LearnApproval
    <3> QED
      BY <3>1, <3>2 DEF TypeOK
  <2>5. CASE Tick
    <3>1. /\ hb' \in [Validators -> Heartbeats]
          /\ newest' \in [seq : 0..MaxSeq, age : Ages]
          /\ wait' \in 0..Timeout
      BY <2>5 DEF Tick, TypeOK
    <3>2. /\ leader' \in [beats : Heartbeats, state : 0..MaxSeq]
          /\ follower' \in [beats : Heartbeats, approve : Healths]
      BY <2>5 DEF Tick, TypeOK
    <3> QED
      BY <2>5, <3>1, <3>2 DEF Tick, TypeOK
  <2>6. CASE Start
    <3>1. /\ UNCHANGED <<validatorVars, leader, follower, doubts, result, finals>>
          /\ wait' = 0 /\ pc' \in {"balances", "leader"}
      BY <2>6 DEF Start, Request
    <3>2. reason' \in Finalized \cup {"none"} /\ (reason' # "none" <=> pc' = "balances")
      BY <2>6 DEF Start, Request, TypeOK, Finalized
    <3> QED
      BY <3>1, <3>2 DEF validatorVars, TypeOK
  <2>7. CASE Ends
    <3>1. CASE AskFollower
      <4>1. leader' \in [beats : Heartbeats, state : 0..MaxSeq]
        BY <3>1 DEF AskFollower, TypeOK, Validators
      <4>2. /\ UNCHANGED <<validatorVars, follower, doubts, reason, result, finals>>
            /\ pc = "leader" /\ pc' = "follower" /\ wait' = 0
        BY <2>7, <3>1, CallSteps DEF AskFollower, Request
      <4> QED
        BY <4>1, <4>2 DEF validatorVars, TypeOK
    <3>2. CASE AskLatest
      <4>1. /\ follower' \in [beats : Heartbeats, approve : Healths]
            /\ doubts' \in SUBSET {"disconnected", "offline"}
        BY <3>2 DEF AskLatest, FollowerAnswer, Seen, TypeOK, Validators
      <4>2. /\ UNCHANGED <<validatorVars, leader, reason, result, finals>>
            /\ pc = "follower" /\ pc' = "latest" /\ wait' = 0
        BY <2>7, <3>2, CallSteps DEF AskLatest, Request
      <4> QED
        BY <4>1, <4>2 DEF validatorVars, TypeOK
    <3>3. ASSUME NEW r, Returned(r), Return(r) PROVE TypeOK'
      <4>1. /\ r \in [status : Statuses \cup {"none", "error"}, doubts : SUBSET Doubts]
            /\ r.status = "Unsound" <=> r.doubts # {}
        BY <3>3, ReturnTypes
      <4>2. /\ UNCHANGED validatorVars
            /\ result' = r /\ finals' \in BOOLEAN
            /\ pc' = "idle" /\ wait' = 0 /\ reason' = "none"
            /\ leader' = NoLeader /\ follower' = NoFollower /\ doubts' = {}
        BY <2>7, <3>3, CallSteps DEF Return
      <4> QED
        BY <1>0, <4>1, <4>2 DEF validatorVars, TypeOK
    <3> QED
      BY <2>7, <3>1, <3>2, <3>3, CallSteps
  <2>8. CASE UNCHANGED vars
    BY <2>8 DEF vars, validatorVars, TypeOK
  <2> QED
    BY <2>1, <2>2, <2>3, <2>4, <2>5, <2>6, <2>7, <2>8 DEF Next, Ends
<1> QED
  BY <1>1, <1>2, PTL DEF Spec
------------------------------------------------------------------------------
\* The campaign's end, once reached, stays: by a date, or by the leader's balances.
Over == passed \cap {"valid_until", "withdraw_period_start"} # {} \/ approved >= deposit

\* NewStates are approved in their order, and the leader learns of it afterwards.
OrderInv ==
  /\ approved <= newest.seq /\ approval.seq <= newest.seq
  /\ Prompt => approved <= approval.seq

\* Why a call that follows a finalized one cannot return anything else.
FinalInv ==
  /\ OrderInv
  /\ pc = "balances" => passed \cap {"valid_until", "withdraw_period_start"} # {}
  /\ finals => /\ Over
               /\ pc \notin {"follower", "latest"}
               /\ pc = "leader" => approved >= deposit
               /\ result.status \in Finalized \cup {"error"}

\* Only the validators move these, never backwards.
LEMMA OrderSteps ==
  ASSUME TypeOK, OrderInv, [Next]_vars
  PROVE  /\ OrderInv' /\ approved' \in Nat /\ approved' >= approved
         /\ passed \subseteq passed' /\ UNCHANGED deposit
<1> USE BoundsAssumption DEF OrderInv, TypeOK, call
<1>1. ASSUME NEW d \in Dates, PassDate(d)
      PROVE  /\ OrderInv' /\ approved' \in Nat /\ approved' >= approved
             /\ passed \subseteq passed' /\ UNCHANGED deposit
  BY <1>1 DEF PassDate
<1>2. CASE NewState
  BY <1>2 DEF NewState
<1>3. CASE Approve
  BY <1>3 DEF Approve
<1>4. CASE LearnApproval
  BY <1>4 DEF LearnApproval
<1>5. CASE Tick
  BY <1>5 DEF Tick
<1>6. CASE (\E v, s \in Validators : Beats(v, s)) \/ Start \/ Ends \/ UNCHANGED vars
  <2>1. UNCHANGED <<passed, deposit, newest, approved, approval>>
    BY <1>6, CallSteps DEF Beats, Start, validatorVars, vars
  <2> QED
    BY <2>1
<1> QED
  BY <1>1, <1>2, <1>3, <1>4, <1>5, <1>6 DEF Next, Ends

LEMMA FinalInvariance == Spec => []FinalInv
<1>1. Init => FinalInv
  BY BoundsAssumption DEF Init, FinalInv, OrderInv
<1>2. TypeOK /\ FinalInv /\ [Next]_vars => FinalInv'
  <2> SUFFICES ASSUME TypeOK, FinalInv, [Next]_vars PROVE FinalInv'
    OBVIOUS
  <2>0. /\ OrderInv' /\ passed \subseteq passed' /\ UNCHANGED deposit
        /\ approved >= deposit => approved' >= deposit'
        /\ Over => Over'
    <3>1. /\ OrderInv' /\ approved' \in Nat /\ approved' >= approved
          /\ passed \subseteq passed' /\ UNCHANGED deposit
      BY OrderSteps DEF FinalInv
    <3>2. approved >= deposit => approved' >= deposit'
      BY <3>1, DepositsAssumption, BoundsAssumption DEF TypeOK, OrderInv
    <3> QED
      BY <3>1, <3>2 DEF Over
  <2>1. CASE Around \/ Tick \/ UNCHANGED vars
    <3>1. UNCHANGED <<pc, finals, result>>
      BY <2>1 DEF Around, PassDate, Beats, NewState, Approve, LearnApproval, Tick, call, vars
    <3> QED
      BY <2>0, <3>1 DEF FinalInv
  <2>2. CASE Start
    <3>1. /\ UNCHANGED <<passed, finals, result>>
          /\ pc' \in {"balances", "leader"}
          /\ pc' = "balances" <=> passed \cap {"valid_until", "withdraw_period_start"} # {}
      BY <2>2 DEF Start, Request, validatorVars
    <3> QED
      BY <2>0, <3>1 DEF FinalInv, Over
  <2>3. CASE Ends
    <3>1. UNCHANGED <<passed, approved>>
      BY <2>3, CallSteps DEF validatorVars
    <3>2. CASE AskFollower \/ AskLatest
      <4>1. ~finals
        BY <3>2 DEF AskFollower, AskLatest, Exhausted, FinalInv
      <4>2. finals' = finals /\ pc' \in {"follower", "latest"}
        BY <3>2 DEF AskFollower, AskLatest, Request
      <4> QED
        BY <2>0, <4>1, <4>2 DEF FinalInv
    <3>3. ASSUME NEW r, Returned(r), Return(r) PROVE FinalInv'
      <4>1. /\ pc' = "idle" /\ result' = r
            /\ finals' = (finals \/ r.status \in Finalized)
        BY <3>3 DEF Return
      <4>2. r.status \in Finalized => Over
        BY <3>3, ReturnTypes DEF FinalInv, Over
      <4>3. finals => r.status \in Finalized \cup {"error"}
        <5>1. CASE pc = "balances"
          BY <3>3, <5>1, ReturnTypes
        <5>2. CASE finals /\ pc = "leader"
          BY <3>3, <5>2 DEF Returned, FinalInv, Result, Finalized
        <5>3. pc # "idle"
          BY <3>3 DEF Returned
        <5> QED
          BY <5>1, <5>2, <5>3 DEF FinalInv, TypeOK
      <4> QED
        BY <2>0, <4>1, <4>2, <4>3 DEF FinalInv
    <3> QED
      BY <2>3, <3>2, <3>3, CallSteps
  <2> QED
    BY <2>1, <2>2, <2>3 DEF Next, Around, Ends
<1> QED
  BY <1>1, <1>2, TypeCorrect, PTL DEF Spec

\* A campaign that a call found finalized is found finalized by all later calls,
\* though none of them knows of the earlier ones.
THEOREM FinalizedStays == Spec => []FinalizedForever
<1>1. FinalInv => FinalizedForever
  BY DEF FinalInv, FinalizedForever
<1> QED
  BY <1>1, FinalInvariance, PTL
------------------------------------------------------------------------------
\* The copies in a call are no younger than the heartbeats they were made of, and
\* what was found in them is still true but for the time the last request took.
CopyInv ==
  /\ pc \in {"follower", "latest"} =>
       /\ \A s \in Validators : hb["leader"][s] <= leader.beats[s]
       /\ leader.state < deposit /\ leader.state <= approved
  /\ pc = "latest" =>
       /\ \A s \in Validators : hb["follower"][s] <= follower.beats[s]
       /\ leader.state > 0 /\ follower.approve # "none"
       /\ "disconnected" \notin doubts => /\ leader.beats["follower"] <= Recency + wait
                                          /\ follower.beats["leader"] <= Recency + wait
       /\ "offline" \notin doubts /\ wait = 0 =>
            HasRecentBeat(leader) /\ HasRecentBeat(follower)

\* What `seen` has no doubts about.
LEMMA NothingSeen ==
  ASSUME NEW f
  PROVE  /\ "disconnected" \notin Seen(f) =>
              IsRecent(leader.beats["follower"]) /\ IsRecent(f.beats["leader"])
         /\ "offline" \notin Seen(f) => HasRecentBeat(leader) /\ HasRecentBeat(f)
  BY DEF Seen, IsDisconnected, IsOffline

LEMMA CopyInvariance == Spec => []CopyInv
<1>1. Init => CopyInv
  BY DEF Init, CopyInv
<1>2. TypeOK /\ OrderInv /\ CopyInv /\ [Next]_vars => CopyInv'
  <2> SUFFICES ASSUME TypeOK, OrderInv, CopyInv, [Next]_vars PROVE CopyInv'
    OBVIOUS
  <2> USE TimesAssumption, AgeTypes DEF Validators, call
  <2>0. /\ \A n \in Nat : n <= approved => n <= approved'
        /\ UNCHANGED deposit /\ deposit \in Nat /\ leader.state \in Nat
    BY OrderSteps, BoundsAssumption, DepositsAssumption DEF TypeOK
  <2>1. CASE Tick
    <3>1. /\ \A v, s \in Validators : hb'[v][s] = Older(hb[v][s])
          /\ \A s \in Validators : /\ leader'.beats[s] = Older(leader.beats[s])
                                   /\ follower'.beats[s] = Older(follower.beats[s])
          /\ UNCHANGED <<pc, doubts, leader.state, follower.approve>>
          /\ pc = "latest" => wait' = wait + 1
      BY <2>1, BeatTypes DEF Tick, TypeOK
    <3>2. /\ \A v, s \in Validators : hb[v][s] \in Ages
          /\ \A s \in Validators : leader.beats[s] \in Ages /\ follower.beats[s] \in Ages
          /\ wait \in Nat
      BY DEF TypeOK, Heartbeats
    <3>3. \A s \in Validators :
            /\ hb["leader"][s] <= leader.beats[s] => hb'["leader"][s] <= leader'.beats[s]
            /\ hb["follower"][s] <= follower.beats[s] => hb'["follower"][s] <= follower'.beats[s]
      BY <3>1, <3>2
    <3>4. pc = "latest" =>
            /\ wait' # 0
            /\ \A s \in Validators :
                 /\ leader.beats[s] <= Recency + wait => leader'.beats[s] <= Recency + wait'
                 /\ follower.beats[s] <= Recency + wait => follower'.beats[s] <= Recency + wait'
      <4>1. \A a \in Ages : a <= Recency + wait => Older(a) <= Recency + (wait + 1)
        BY <3>2 DEF Ages
      <4> QED
        BY <3>1, <3>2, <4>1
    <3> QED
      BY <2>0, <3>1, <3>3, <3>4 DEF CopyInv
  <2>2. ASSUME NEW v \in Validators, NEW w \in Validators, Beats(v, w) PROVE CopyInv'
    <3>1. /\ \A x, s \in Validators : hb'[x][s] <= hb[x][s] /\ hb'[x][s] \in Nat
          /\ \A x, s \in Validators : hb[x][s] \in Nat
          /\ \A s \in Validators : leader.beats[s] \in Nat /\ follower.beats[s] \in Nat
      BY <2>2 DEF Beats, TypeOK, Heartbeats, Ages
    <3>2. UNCHANGED <<pc, wait, leader, follower, doubts>>
      BY <2>2 DEF Beats
    <3>3. UNCHANGED <<HasRecentBeat(leader), HasRecentBeat(follower)>>
      BY <3>2 DEF HasRecentBeat
    <3> QED
      BY <2>0, <3>1, <3>2, <3>3 DEF CopyInv
  <2>3. CASE (\E d \in Dates : PassDate(d)) \/ NewState \/ Approve \/ LearnApproval
             \/ UNCHANGED vars
    <3>1. UNCHANGED <<hb, pc, wait, leader, follower, doubts>>
      BY <2>3 DEF PassDate, NewState, Approve, LearnApproval, vars, validatorVars
    <3> QED
      BY <2>0, <3>1 DEF CopyInv, HasRecentBeat, IsRecent
  <2>4. CASE Start
    BY <2>4 DEF Start, Request, CopyInv
  <2>5. CASE Ends
    <3>0. UNCHANGED hb
      BY <2>5, CallSteps DEF validatorVars
    <3>1. CASE AskFollower
      <4>1. /\ pc' = "follower" /\ leader'.beats = hb["leader"]
            /\ leader'.state = approved /\ ~(approved >= deposit)
        BY <3>1 DEF AskFollower, Request, Exhausted
      <4>2. UNCHANGED approved /\ approved \in Nat
        BY <2>5, CallSteps, BoundsAssumption DEF validatorVars, TypeOK
      <4> QED
        BY <2>0, <3>0, <4>1, <4>2 DEF CopyInv, TypeOK, Heartbeats, Ages
    <3>2. CASE AskLatest
      <4>1. /\ pc = "follower" /\ pc' = "latest" /\ wait' = 0
            /\ UNCHANGED leader /\ leader.state > 0
            /\ follower' = FollowerAnswer /\ follower'.approve # "none"
            /\ doubts' = Seen(FollowerAnswer)
        BY <3>2 DEF AskLatest, Request
      <4>2. follower'.beats = hb["follower"]
        BY <4>1 DEF FollowerAnswer
      <4>3. /\ "disconnected" \notin doubts' =>
                 IsRecent(leader'.beats["follower"]) /\ IsRecent(follower'.beats["leader"])
            /\ "offline" \notin doubts' => HasRecentBeat(leader') /\ HasRecentBeat(follower')
        BY <4>1, NothingSeen
      <4>4. HasRecentBeat(leader)' = HasRecentBeat(leader')
            /\ HasRecentBeat(follower)' = HasRecentBeat(follower')
        BY DEF HasRecentBeat, IsRecent
      <4> QED
        BY <2>0, <3>0, <4>1, <4>2, <4>3, <4>4 DEF CopyInv, TypeOK, Heartbeats, Ages, IsRecent
    <3>3. ASSUME NEW r, Return(r) PROVE CopyInv'
      BY <3>3 DEF Return, CopyInv
    <3> QED
      BY <2>5, <3>1, <3>2, <3>3, CallSteps
  <2> QED
    BY <2>1, <2>2, <2>3, <2>4, <2>5 DEF Next, Ends
<1>3. FinalInv => OrderInv
  BY DEF FinalInv
<1> QED
  BY <1>1, <1>2, <1>3, TypeCorrect, FinalInvariance, PTL DEF Spec

\* Heartbeats that are recent in the copy are recent at the validator.
LEMMA RecentCopies ==
  ASSUME TypeOK, NEW la, NEW v \in Validators,
         la.beats \in Heartbeats, \A s \in Validators : hb[v][s] <= la.beats[s],
         HasRecentBeat(la)
  PROVE  \E s \in Validators : IsRecent(hb[v][s])
  BY TimesAssumption, AgeTypes DEF HasRecentBeat, IsRecent, TypeOK, Heartbeats, Ages

\* A step that makes a call return.
LEMMA ReturnSteps ==
  ASSUME Next, pc # "idle", pc' = "idle"
  PROVE  Returned(result')
<1>1. Ends
  BY DEF Next, Ends, PassDate, Beats, NewState, Approve, LearnApproval, Tick, Start, call
<1>2. CASE AskFollower \/ AskLatest
  BY <1>2 DEF AskFollower, AskLatest, Request
<1> QED
  BY <1>1, <1>2, CallSteps DEF Return

\* A call that returns Active is right about the heartbeats at the moment it returns, but
\* for the age of the last request; it has seen the deposit unspent, and a healthy
\* approval of a NewState, or none and active_from in the past.
THEOREM ActiveHolds == Spec => ActiveIsCurrent
<1> DEFINE Current ==
      /\ \A v \in Validators : \E s \in Validators : IsRecent(hb[v][s])
      /\ hb["leader"]["follower"] <= Recency + Timeout
      /\ hb["follower"]["leader"] <= Recency + Timeout
      /\ leader.state < deposit
      /\ \/ approved > 0 /\ follower.approve = "healthy"
         \/ leader.state = 0 /\ "active_from" \in passed
<1>1. TypeOK /\ CopyInv /\ [Next]_vars => [Returns("Active") => Current]_vars
  <2> SUFFICES ASSUME TypeOK, CopyInv, Next, pc # "idle", pc' = "idle",
                      result'.status = "Active"
               PROVE  Current
    BY DEF Returns
  <2> USE TimesAssumption DEF Validators
  <2>0. /\ leader.beats \in Heartbeats /\ follower.beats \in Heartbeats
        /\ FollowerAnswer.beats = hb["follower"] /\ hb["follower"] \in Heartbeats
        /\ \A s \in Validators : /\ hb["leader"][s] \in Nat /\ hb["follower"][s] \in Nat
                                 /\ leader.beats[s] \in Nat /\ follower.beats[s] \in Nat
        /\ wait \in 0..Timeout
        /\ leader.state \in Nat /\ approved \in Nat
    BY AgeTypes, BoundsAssumption DEF TypeOK, Heartbeats, Ages, FollowerAnswer
  <2>1. CASE /\ pc = "follower" /\ leader.state = 0
             /\ result' = Decide(leader, FollowerAnswer, Seen(FollowerAnswer))
    <3>1. Seen(FollowerAnswer) = {} /\ "active_from" \in passed
      BY <2>1 DEF Decide, Result, IsActive
    <3>2. /\ HasRecentBeat(leader) /\ HasRecentBeat(FollowerAnswer)
          /\ leader.beats["follower"] <= Recency /\ hb["follower"]["leader"] <= Recency
      BY <3>1, <2>0, NothingSeen DEF IsRecent
    <3>3. leader.state < deposit /\ \A s \in Validators : hb["leader"][s] <= leader.beats[s]
      BY <2>1 DEF CopyInv
    <3>4. /\ \E s \in Validators : IsRecent(hb["leader"][s])
          /\ \E s \in Validators : IsRecent(hb["follower"][s])
      BY <2>0, <3>2, <3>3, RecentCopies DEF HasRecentBeat
    <3> QED
      BY <2>0, <2>1, <3>1, <3>2, <3>3, <3>4
  <2>2. ASSUME pc = "latest", NEW rejected, result' = Decide(leader, follower, Doubted(rejected))
        PROVE  Current
    <3>1. doubts = {} /\ (IsActive(leader, follower) \/ IsReady(leader, follower))
      BY <2>2 DEF Decide, Result, Doubted
    <3>2. HasRecentBeat(leader) /\ HasRecentBeat(follower)
      BY <3>1 DEF IsActive, IsReady
    <3>5. approved > 0 /\ follower.approve = "healthy" /\ leader.state < deposit
      BY <2>0, <2>2, <3>1 DEF IsActive, IsReady, CopyInv
    <3>3. /\ \A s \in Validators : /\ hb["leader"][s] <= leader.beats[s]
                                   /\ hb["follower"][s] <= follower.beats[s]
          /\ leader.beats["follower"] <= Recency + wait
          /\ follower.beats["leader"] <= Recency + wait
      BY <2>2, <3>1 DEF CopyInv
    <3>4. /\ \E s \in Validators : IsRecent(hb["leader"][s])
          /\ \E s \in Validators : IsRecent(hb["follower"][s])
      BY <2>0, <3>2, <3>3, RecentCopies
    <3> QED
      BY <2>0, <3>3, <3>4, <3>5
  <2>3. \/ /\ pc = "follower" /\ leader.state = 0
           /\ result' = Decide(leader, FollowerAnswer, Seen(FollowerAnswer))
        \/ pc = "latest" /\ \E rejected : result' = Decide(leader, follower, Doubted(rejected))
    <3>1. reason # "Active"
      BY DEF TypeOK, Finalized
    <3>2. Returned(result')
      BY ReturnSteps
    <3>3. /\ Result(reason, {}).status = reason
          /\ Result("Exhausted", {}).status = "Exhausted"
          /\ Result("Initializing", {}).status = "Initializing"
          /\ Result("error", {}).status = "error"
          /\ \A f, why : Decide(leader, f, why \cup {"rejected_state"}).status = "Unsound"
      BY DEF Result, Decide
    <3> QED
      BY <3>1, <3>2, <3>3 DEF Returned
  <2> QED
    BY <2>1, <2>2, <2>3
<1> QED
  BY <1>1, TypeCorrect, CopyInvariance, PTL DEF Spec, ActiveIsCurrent

\* A campaign waits because active_from lies ahead, or because its heartbeats ceased to
\* be recent during the last request.
THEOREM WaitingIsForStart == Spec => WaitingOnlyBeforeStart
<1> DEFINE Ahead == \/ pc = "follower" /\ leader.state = 0 /\ "active_from" \notin passed
                    \/ pc = "latest" /\ wait > 0
<1>1. TypeOK /\ CopyInv /\ [Next]_vars => [Returns("Waiting") => Ahead]_vars
  <2> SUFFICES ASSUME TypeOK, CopyInv, Next, pc # "idle", pc' = "idle",
                      result'.status = "Waiting"
               PROVE  Ahead
    BY DEF Returns
  <2>1. CASE /\ pc = "follower" /\ leader.state = 0
             /\ result' = Decide(leader, FollowerAnswer, Seen(FollowerAnswer))
    <3>1. /\ Seen(FollowerAnswer) = {}
          /\ ~(IsReady(leader, FollowerAnswer) /\ "active_from" \in passed)
      BY <2>1 DEF Decide, Result
    <3> QED
      BY <2>1, <3>1, NothingSeen DEF IsReady
  <2>2. ASSUME pc = "latest", NEW rejected, result' = Decide(leader, follower, Doubted(rejected))
        PROVE  Ahead
    <3>1. /\ doubts = {} /\ Unhealthy(leader, follower) = {}
          /\ ~IsActive(leader, follower)
      BY <2>2 DEF Decide, Result, Doubted
    <3>2. leader.state > 0 /\ follower.approve = "healthy"
      BY <2>2, <3>1 DEF CopyInv, Unhealthy, IsUnhealthy, TypeOK, Healths
    <3>3. wait # 0
      BY <2>2, <3>1, <3>2 DEF CopyInv, IsActive
    <3> QED
      BY <2>2, <3>3, TimesAssumption DEF TypeOK
  <2>3. reason # "Waiting"
    BY DEF TypeOK, Finalized
  <2>4. Returned(result')
    BY ReturnSteps
  <2>5. /\ Result(reason, {}).status = reason
        /\ Result("Exhausted", {}).status = "Exhausted"
        /\ Result("Initializing", {}).status = "Initializing"
        /\ Result("error", {}).status = "error"
        /\ \A f, why : Decide(leader, f, why \cup {"rejected_state"}).status = "Unsound"
    BY DEF Result, Decide
  <2> QED
    BY <2>1, <2>2, <2>3, <2>4, <2>5 DEF Returned
<1> QED
  BY <1>1, TypeCorrect, CopyInvariance, PTL DEF Spec, WaitingOnlyBeforeStart
------------------------------------------------------------------------------
\* The durations that suffice: a heartbeat survives a request, and a NewState is
\* approved early enough for two requests to pass before it counts as rejected.
SoundDurations ==
  /\ <<"leader", "follower">> \in Links /\ <<"follower", "leader">> \in Links
  /\ Beat + Timeout <= Recency
  /\ Approving + 2 * Timeout <= Minute

\* Validators that work in time, and what a call has seen of them so far.
PromptInv ==
  /\ OrderInv
  /\ hb["leader"]["follower"] <= Beat /\ hb["follower"]["leader"] <= Beat
  /\ approval.health # "unhealthy" /\ (approval.seq > 0 => approval.health = "healthy")
  /\ approved # newest.seq => newest.age <= Approving
  /\ pc \in {"follower", "latest"} => leader.state <= approved
  /\ pc = "follower" =>
       /\ leader.beats["follower"] <= Beat + wait
       /\ leader.state < newest.seq => newest.age <= Approving + wait
  /\ pc = "latest" =>
       /\ doubts = {} /\ follower.approve # "unhealthy"
       /\ leader.state < newest.seq => newest.age <= Approving + Timeout + wait
  /\ result.status # "Unsound"

LEMMA PromptInvariance == SoundDurations /\ Prompt /\ Spec => []PromptInv
<1> SUFFICES ASSUME SoundDurations, Prompt PROVE Spec => []PromptInv
  OBVIOUS
<1> USE BoundsAssumption, TimesAssumption, AgeTypes
<1>1. Init => PromptInv
  BY DEF Init, PromptInv, OrderInv, SoundDurations, Validators, Result
<1>2. TypeOK /\ PromptInv /\ [Next]_vars => PromptInv'
  <2> SUFFICES ASSUME TypeOK, PromptInv, [Next]_vars PROVE PromptInv'
    OBVIOUS
  <2> USE DEF call, Validators
  <2>0. OrderInv' /\ approved' \in Nat /\ approved' >= approved
    BY OrderSteps DEF PromptInv
  <2>t. /\ approved \in Nat /\ newest.seq \in Nat /\ newest.age \in Nat /\ approval.seq \in Nat
        /\ leader.state \in Nat /\ wait \in 0..Timeout
        /\ \A s \in Validators : /\ hb["leader"][s] \in Ages /\ hb["follower"][s] \in Ages
                                 /\ leader.beats[s] \in Ages
    BY DEF TypeOK, Heartbeats, Ages
  <2>1. CASE Tick
    <3>1. /\ hb'["leader"]["follower"] = Older(hb["leader"]["follower"])
          /\ hb'["follower"]["leader"] = Older(hb["follower"]["leader"])
          /\ leader'.beats["follower"] = Older(leader.beats["follower"])
          /\ leader'.state = leader.state /\ follower'.approve = follower.approve
          /\ newest'.seq = newest.seq /\ newest'.age = Older(newest.age)
          /\ UNCHANGED <<approved, approval, pc, doubts, result>>
          /\ pc # "idle" => wait' = wait + 1
      BY <2>1, BeatTypes DEF Tick, TypeOK
    <3>2. /\ hb["leader"]["follower"] < Beat /\ hb["follower"]["leader"] < Beat
          /\ newest.age < Approving \/ approved = newest.seq
      BY <2>1 DEF Tick, SoundDurations
    <3>3. /\ newest'.age <= newest.age + 1
          /\ leader'.beats["follower"] <= leader.beats["follower"] + 1
          /\ hb'["leader"]["follower"] <= Beat /\ hb'["follower"]["leader"] <= Beat
          /\ newest'.age \in Nat /\ leader'.beats["follower"] \in Nat
          /\ leader.beats["follower"] \in Nat
      BY <2>t, <3>1, <3>2 DEF TypeOK, Ages
    <3>4. approved' # newest'.seq => newest'.age <= Approving
      BY <2>t, <3>1, <3>2, <3>3
    <3>5. /\ pc' = "follower" =>
               /\ leader'.beats["follower"] <= Beat + wait'
               /\ leader'.state < newest'.seq => newest'.age <= Approving + wait'
          /\ pc' = "latest" =>
               (leader'.state < newest'.seq => newest'.age <= Approving + Timeout + wait')
      BY <2>t, <3>1, <3>3 DEF PromptInv
    <3> QED
      BY <2>0, <3>1, <3>3, <3>4, <3>5 DEF PromptInv
  <2>2. ASSUME NEW v \in Validators, NEW s \in Validators, Beats(v, s) PROVE PromptInv'
    <3>1. /\ hb'["leader"]["follower"] <= Beat /\ hb'["follower"]["leader"] <= Beat
      BY <2>2, <2>t DEF Beats, TypeOK, PromptInv, Ages
    <3> QED
      BY <2>0, <2>2, <3>1 DEF Beats, PromptInv
  <2>3. CASE NewState
    <3>1. newest'.age = 0 /\ UNCHANGED <<hb, approved, approval, call, result>>
      BY <2>3 DEF NewState
    <3> QED
      BY <2>0, <2>t, <3>1 DEF PromptInv
  <2>4. CASE Approve
    <3>1. /\ approval'.health = "healthy"
          /\ UNCHANGED <<hb, newest, approved, call, result>>
      BY <2>4 DEF Approve
    <3> QED
      BY <2>0, <3>1 DEF PromptInv
  <2>5. CASE LearnApproval
    <3>1. UNCHANGED <<hb, newest, approval, call, result>>
      BY <2>5 DEF LearnApproval
    <3>2. approved' # newest.seq => approved # newest.seq
      BY <2>0, <2>t, <3>1 DEF PromptInv, OrderInv
    <3> QED
      BY <2>0, <2>t, <3>1, <3>2 DEF PromptInv
  <2>6. CASE (\E d \in Dates : PassDate(d)) \/ Start \/ UNCHANGED vars
    <3>1. /\ UNCHANGED <<hb, newest, approval, approved, leader, follower, doubts, result>>
          /\ pc' \in {"balances", "leader"} \/ UNCHANGED <<pc, wait>>
      BY <2>6 DEF PassDate, Start, Request, vars, validatorVars
    <3> QED
      BY <2>0, <3>1 DEF PromptInv
  <2>7. CASE Ends
    <3>0. UNCHANGED <<hb, newest, approval, approved>>
      BY <2>7, CallSteps DEF validatorVars
    <3>1. CASE AskFollower
      <4>1. /\ leader' = [beats |-> hb["leader"], state |-> approved]
            /\ pc' = "follower" /\ wait' = 0 /\ result' = result
        BY <3>1 DEF AskFollower, Request
      <4> QED
        BY <2>0, <2>t, <3>0, <4>1 DEF PromptInv, OrderInv, Ages
    <3>s. pc = "follower" => Seen(FollowerAnswer) = {}
      <4>1. SUFFICES ASSUME pc = "follower" PROVE Seen(FollowerAnswer) = {}
        OBVIOUS
      <4>2. leader.beats["follower"] <= Recency /\ hb["follower"]["leader"] <= Recency
        BY <2>t, <4>1 DEF PromptInv, SoundDurations, Ages
      <4> QED
        BY <4>2 DEF Seen, FollowerAnswer, IsDisconnected, IsOffline, HasRecentBeat, IsRecent
    <3>2. CASE AskLatest
      <4>1. /\ doubts' = {} /\ pc = "follower" /\ pc' = "latest" /\ wait' = 0
            /\ UNCHANGED <<leader, result>>
            /\ follower'.approve = approval.health
        BY <3>2, <3>s DEF AskLatest, Request, FollowerAnswer
      <4> QED
        BY <2>0, <2>t, <3>0, <4>1 DEF PromptInv
    <3>3. ASSUME NEW r, Returned(r), Return(r) PROVE PromptInv'
      <4>1. r.status # "Unsound"
        <5>1. pc = "follower" /\ leader.state > 0 => FollowerAnswer.approve # "none"
          BY <2>t DEF PromptInv, OrderInv, FollowerAnswer
        <5>2. pc = "latest" => ~Rejected
          BY <2>t DEF PromptInv, Rejected, SoundDurations
        <5>3. pc = "latest" => doubts = {} /\ Unhealthy(leader, follower) = {}
          BY DEF PromptInv, Unhealthy, IsUnhealthy
        <5>4. \A l, f : Decide(l, f, {}).status # "Unsound"
          BY DEF Decide, Result
        <5>5. reason # "Unsound"
          BY DEF TypeOK, Finalized
        <5>6. CASE pc = "latest"
          <6>1. \A rejected \in {Rejected, FALSE} : Doubted(rejected) = {}
            <7>1. SUFFICES ASSUME NEW rejected \in {Rejected, FALSE} PROVE Doubted(rejected) = {}
              OBVIOUS
            <7>2. ~rejected
              BY <5>2, <5>6, <7>1, Zenon
            <7>3. (IF rejected THEN {"rejected_state"} ELSE {}) = {}
              BY <7>2, Zenon
            <7> QED
              BY <5>3, <5>6, <7>3 DEF Doubted
          <6>2. \/ \E rejected \in {Rejected, FALSE} :
                     r = Decide(leader, follower, Doubted(rejected))
                \/ r = Result("error", {})
            BY <3>3, <5>6 DEF Returned
          <6>3. r = Decide(leader, follower, {}) \/ r = Result("error", {})
            BY <6>1, <6>2, Zenon
          <6> QED
            BY <5>4, <6>3 DEF Result
        <5>7. CASE pc = "follower"
          <6>1. \/ r = Decide(leader, FollowerAnswer, Seen(FollowerAnswer))
                \/ r \in {Result("Initializing", {}), Result("error", {})}
            BY <3>3, <5>1, <5>7 DEF Returned
          <6>2. Seen(FollowerAnswer) = {}
            BY <3>s, <5>7
          <6>3. \/ r = Decide(leader, FollowerAnswer, {})
                \/ r \in {Result("Initializing", {}), Result("error", {})}
            BY <6>1, <6>2, Zenon
          <6> QED
            BY <5>4, <6>3 DEF Result
        <5>8. /\ Result(reason, {}).status = reason
              /\ Result("Exhausted", {}).status = "Exhausted"
              /\ Result("error", {}).status = "error"
          BY DEF Result
        <5> QED
          BY <3>3, <5>5, <5>6, <5>7, <5>8 DEF Returned
      <4> QED
        BY <2>0, <3>0, <3>3, <4>1 DEF PromptInv, Return
    <3> QED
      BY <2>7, <3>1, <3>2, <3>3, CallSteps
  <2> QED
    BY <2>1, <2>2, <2>3, <2>4, <2>5, <2>6, <2>7 DEF Next, Ends
<1> QED
  BY <1>1, <1>2, TypeCorrect, PTL DEF Spec

\* With durations like these no call doubts validators that do their work in time,
\* wherever the answers that it compares and the two clocks stand.
THEOREM PromptIsSound == SoundDurations /\ Spec => []SoundIsNotDoubted
<1>1. PromptInv => SoundIsNotDoubted
  BY DEF PromptInv, SoundIsNotDoubted
<1>2. CASE Prompt
  BY <1>1, <1>2, PromptInvariance, PTL
<1>3. CASE ~Prompt
  <2>1. SoundIsNotDoubted
    BY <1>3 DEF SoundIsNotDoubted
  <2> QED
    BY <2>1, PTL
<1> QED
  BY <1>2, <1>3
==============================================================================
