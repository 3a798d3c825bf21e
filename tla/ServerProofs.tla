----------------------------- MODULE ServerProofs -----------------------------
(***************************************************************************)
(* Theorems about Server, for any clients and any number of calls that a   *)
(* request makes.                                                          *)
(***************************************************************************)
EXTENDS Server, TLAPS

\* The checks of main, spelled out.
LEMMA CheckTypes ==
  /\ Len(Checks) = 5
  /\ Checks[1] = "url" /\ Checks[2] = "ENV" /\ Checks[3] = "PORT"
  /\ Checks[4] = "IP_ADDR" /\ Checks[5] = "config"
  /\ Settings = {"url", "ENV", "PORT", "IP_ADDR", "config"}
<1>1. /\ Len(Checks) = 5
      /\ Checks[1] = "url" /\ Checks[2] = "ENV" /\ Checks[3] = "PORT"
      /\ Checks[4] = "IP_ADDR" /\ Checks[5] = "config"
  BY DEF Checks
<1>2. 1..Len(Checks) = {1, 2, 3, 4, 5}
  BY <1>1
<1> QED
  BY <1>1, <1>2, Zenon DEF Settings

Requests == [st : {"none", "market", "proxy", "answered", "refused", "dropped"},
             left : 0..MaxCalls, hangs : BOOLEAN]

\* The requests that the actions make.
LEMMA RequestTypes ==
  /\ NoRequest \in Requests
  /\ \A st \in {"answered", "refused", "dropped"} : [NoRequest EXCEPT !.st = st] \in Requests
  /\ \A st \in {"market", "proxy"}, n \in 1..MaxCalls :
       [st |-> st, left |-> n, hangs |-> FALSE] \in Requests
  /\ 1 \in 1..MaxCalls /\ MaxCalls \in 1..MaxCalls
<1>1. NoRequest \in Requests
  BY CallsAssumption DEF NoRequest, Requests
<1>2. ASSUME NEW x \in {"answered", "refused", "dropped"}
      PROVE  [NoRequest EXCEPT !.st = x] \in Requests
  BY <1>1 DEF Requests
<1>3. \A x \in {"market", "proxy"}, n \in 1..MaxCalls :
        [st |-> x, left |-> n, hangs |-> FALSE] \in Requests
  BY CallsAssumption DEF Requests
<1> QED
  BY <1>1, <1>2, <1>3, CallsAssumption

\* What the end leaves of the requests and of the refresh task.
LEMMA EndTypes ==
  ASSUME TypeOK, NEW why \in {"panic", "error", "killed", "drained", "failed"}, End(why)
  PROVE  /\ stage' = "down" /\ cause' = why /\ refresh' = "none"
         /\ req' \in [Clients -> Requests]
<1>1. \A c \in Clients : req[c] \in Requests /\ [NoRequest EXCEPT !.st = "dropped"] \in Requests
  BY RequestTypes DEF TypeOK, Requests
<1> QED
  BY <1>1 DEF End

\* Every variable has its type: the process has a cause to end, and with it ends the
\* refresh task.
THEOREM TypeCorrect == Spec => []TypeOK
<1> USE CheckTypes, CallsAssumption
<1>1. Init => TypeOK
  BY RequestTypes DEF Init, TypeOK, Requests
<1>2. TypeOK /\ [Next]_vars => TypeOK'
  <2> SUFFICES ASSUME TypeOK, [Next]_vars PROVE TypeOK'
    OBVIOUS
  <2> USE DEF startup
  <2>0. req \in [Clients -> Requests]
    BY DEF TypeOK, Requests
  <2>1. CASE Check
    <3>1. CASE input[Checks[step]] = "bad"
      <4>1. Failure(Checks[step]) \in {"panic", "error"} /\ End(Failure(Checks[step]))
        BY <2>1, <3>1 DEF Check, Failure
      <4> QED
        BY <2>1, <3>1, <4>1, EndTypes DEF Check, TypeOK, Requests
    <3>2. CASE input[Checks[step]] # "bad"
      BY <2>1, <3>2 DEF Check, TypeOK, Load
    <3> QED
      BY <3>1, <3>2
  <2>2. CASE Setup \/ Bind
    <3>1. CASE \E why \in {"panic", "error"} : End(why)
      BY <2>2, <3>1, EndTypes DEF Setup, Bind, TypeOK, Requests
    <3>2. CASE UNCHANGED <<cause, refresh, req>>
      BY <2>2, <3>2 DEF Setup, Bind, TypeOK, End
    <3> QED
      BY <2>2, <3>1, <3>2 DEF Setup, Bind
  <2>3. CASE InitialRound
    BY <2>3 DEF InitialRound, TypeOK
  <2>4. CASE Interrupt
    <3>1. CASE End("killed")
      BY <2>4, <3>1, EndTypes DEF Interrupt, TypeOK, Requests
    <3>2. CASE stage \in {"serving", "draining"}
      BY <2>4, <3>2 DEF Interrupt, TypeOK
    <3> QED
      BY <2>4, <3>1, <3>2 DEF Interrupt
  <2>5. CASE Drained \/ ServerFails
    BY <2>5, EndTypes DEF Drained, ServerFails, TypeOK, Requests
  <2>6. ASSUME NEW c \in Clients, Arrive(c) \/ MarketReplies(c) \/ MarketHangs(c) \/ Leave(c)
        PROVE  TypeOK'
    <3>1. /\ UNCHANGED <<startup, stage, cause, refresh, signals>>
          /\ \E r \in Requests : req' = [req EXCEPT ![c] = r]
      <4>1. CASE Arrive(c)
        <5>1. \A r \in {[st |-> "market", left |-> MaxCalls, hangs |-> FALSE],
                        [st |-> "proxy", left |-> 1, hangs |-> FALSE],
                        [NoRequest EXCEPT !.st = "refused"]} : r \in Requests
          BY RequestTypes
        <5> QED
          BY <4>1, <5>1 DEF Arrive
      <4>2. CASE MarketReplies(c)
        BY <2>0, <4>2, RequestTypes DEF MarketReplies, Requests
      <4>3. CASE MarketHangs(c)
        BY <2>0, <4>3 DEF MarketHangs, Requests
      <4>4. CASE Leave(c)
        BY <4>4, RequestTypes DEF Leave
      <4> QED
        BY <2>6, <4>1, <4>2, <4>3, <4>4
    <3>2. req' \in [Clients -> Requests]
      BY <2>0, <3>1
    <3> QED
      BY <3>1, <3>2 DEF TypeOK, Requests
  <2>7. CASE Stopped \/ UNCHANGED vars
    BY <2>7 DEF Stopped, vars, TypeOK
  <2> QED
    BY <2>1, <2>2, <2>3, <2>4, <2>5, <2>6, <2>7 DEF Next, Start
<1> QED
  BY <1>1, <1>2, PTL DEF Spec
------------------------------------------------------------------------------
\* What the process has got to know of its settings, by its stage.
StartInv ==
  /\ stage = "checks" => \A i \in 1..5 : i < step => input[Checks[i]] # "bad"
  /\ stage \in {"setup", "round", "bind", "serving", "draining"} =>
       /\ \A s \in Settings : input[s] # "bad"
       /\ config = "file" <=> input["config"] # "absent"
  /\ stage \in {"bind", "serving", "draining"} =>
       refresh = IF input["config"] = "zero" THEN "dead" ELSE "running"

LEMMA StartInvariance == Spec => []StartInv
<1> USE CheckTypes
<1>1. Init => StartInv
  BY DEF Init, StartInv
<1>2. TypeOK /\ StartInv /\ [Next]_vars => StartInv'
  <2> SUFFICES ASSUME TypeOK, StartInv, [Next]_vars PROVE StartInv'
    OBVIOUS
  <2> USE DEF startup
  <2>1. CASE stage' = "down"
    BY <2>1 DEF StartInv
  <2>2. CASE Check /\ stage' # "down"
    <3>1. /\ stage = "checks" /\ step \in 1..5 /\ input[Checks[step]] # "bad"
          /\ step' = step + 1 /\ UNCHANGED input
          /\ stage' = IF step = 5 THEN "setup" ELSE stage
          /\ config' = IF step = 5 THEN Load ELSE config
      BY <2>2 DEF Check, End, TypeOK
    <3>2. \A i \in 1..5 : i < step' => input[Checks[i]] # "bad"
      BY <3>1 DEF StartInv
    <3>3. CASE step = 5
      <4>1. \A s \in Settings : input[s] # "bad"
        BY <3>1, <3>2, <3>3
      <4> QED
        BY <3>1, <3>3, <4>1 DEF StartInv, Load
    <3> QED
      BY <3>1, <3>2, <3>3 DEF StartInv
  <2>3. CASE InitialRound
    BY <2>3 DEF InitialRound, StartInv
  <2>4. CASE (Setup \/ Bind \/ Interrupt) /\ stage' # "down"
    BY <2>4 DEF Setup, Bind, Interrupt, End, StartInv, TypeOK
  <2>5. CASE Drained \/ ServerFails
    BY <2>1, <2>5 DEF Drained, ServerFails, End
  <2>6. CASE \/ Stopped \/ UNCHANGED vars
             \/ \E c \in Clients :
                  Arrive(c) \/ MarketReplies(c) \/ MarketHangs(c) \/ Leave(c)
    <3>1. UNCHANGED <<startup, stage, refresh>>
      BY <2>6 DEF Stopped, vars, Arrive, MarketReplies, MarketHangs, Leave
    <3> QED
      BY <3>1 DEF StartInv
  <2> QED
    BY <2>1, <2>2, <2>3, <2>4, <2>5, <2>6 DEF Next, Start
<1> QED
  BY <1>1, <1>2, TypeCorrect, PTL DEF Spec

\* Who is served is served by a process whose settings were all good, with the
\* configuration asked for, and with a cache that is refreshed unless an interval is zero.
THEOREM ServedAsAsked == Spec => []ServesAsAsked
<1>1. StartInv => ServesAsAsked
  BY DEF StartInv, ServesAsAsked
<1> QED
  BY <1>1, StartInvariance, PTL

\* Requests are in progress only while the process serves or shuts down.
RunningInv == \A c \in Clients : InProgress(req[c]) => stage \in {"serving", "draining"}

LEMMA RunningInvariance == Spec => []RunningInv
<1>1. Init => RunningInv
  BY DEF Init, RunningInv, InProgress, NoRequest
<1>2. TypeOK /\ RunningInv /\ [Next]_vars => RunningInv'
  <2> SUFFICES ASSUME TypeOK, RunningInv, [Next]_vars PROVE RunningInv'
    OBVIOUS
  <2> USE DEF startup
  <2>1. ASSUME NEW why, End(why) PROVE RunningInv'
    BY <2>1 DEF End, RunningInv, InProgress, NoRequest
  <2>2. CASE /\ UNCHANGED req
             /\ stage' = stage \/ stage' \in {"serving", "draining"}
                               \/ stage \notin {"serving", "draining"}
    BY <2>2 DEF RunningInv
  <2>3. CASE Start
    BY <2>1, <2>2, <2>3 DEF Start, Check, Setup, InitialRound, Bind
  <2>4. CASE Interrupt
    BY <2>1, <2>2, <2>4 DEF Interrupt
  <2>5. CASE Drained \/ ServerFails
    BY <2>1, <2>5 DEF Drained, ServerFails
  <2>6. ASSUME NEW c \in Clients, Arrive(c) \/ MarketReplies(c) \/ MarketHangs(c) \/ Leave(c)
        PROVE  RunningInv'
    <3>1. /\ UNCHANGED stage
          /\ \A d \in Clients : d # c => req'[d] = req[d]
          /\ InProgress(req'[c]) => InProgress(req[c]) \/ stage = "serving"
      BY <2>6 DEF Arrive, MarketReplies, MarketHangs, Leave, TypeOK, InProgress, NoRequest
    <3> QED
      BY <3>1 DEF RunningInv
  <2>7. CASE Stopped \/ UNCHANGED vars
    BY <2>2, <2>7 DEF Stopped, vars
  <2> QED
    BY <2>3, <2>4, <2>5, <2>6, <2>7 DEF Next
<1> QED
  BY <1>1, <1>2, TypeCorrect, PTL DEF Spec

\* No interrupt drops a request that was accepted, for any number of clients.
THEOREM NoneIsDropped == Spec => AcceptedIsAnswered
<1> DEFINE Kept == \A c \in Clients : InProgress(req[c]) /\ req'[c].st = "dropped"
                                        => cause' = "failed"
<1>1. TypeOK /\ RunningInv /\ [Next]_vars => [Kept]_vars
  <2> SUFFICES ASSUME TypeOK, RunningInv, Next,
                      NEW c \in Clients, InProgress(req[c]), req'[c].st = "dropped"
               PROVE  cause' = "failed"
    OBVIOUS
  <2>0. stage \in {"serving", "draining"} /\ ~AllDone /\ req'[c] # req[c]
    BY DEF RunningInv, AllDone, InProgress
  <2>1. ASSUME NEW d \in Clients, Arrive(d) \/ MarketReplies(d) \/ MarketHangs(d) \/ Leave(d)
        PROVE  FALSE
    <3>1. c = d
      BY <2>0, <2>1 DEF Arrive, MarketReplies, MarketHangs, Leave, TypeOK
    <3> QED
      BY <2>0, <2>1, <3>1 DEF Arrive, MarketReplies, MarketHangs, Leave, TypeOK, NoRequest,
                              InProgress
  <2>2. ~(Start \/ Interrupt \/ Drained \/ Stopped)
    BY <2>0 DEF Start, Check, Setup, InitialRound, Bind, Interrupt, Drained, Stopped, vars
  <2> QED
    BY <2>1, <2>2 DEF Next, ServerFails, End
<1> QED
  BY <1>1, TypeCorrect, RunningInvariance, PTL DEF Spec, AcceptedIsAnswered
==============================================================================
