-------------------------------- MODULE Server --------------------------------
(***************************************************************************)
(* The life of the process: the checks of main (src/src/main.rs) and       *)
(* Config::new (src/src/config.rs), serve with its initial round, the      *)
(* refresh task it spawns, the requests it handles (src/src/lib.rs) with   *)
(* their calls to the Market (src/src/market.rs), and the shutdown.        *)
(*                                                                         *)
(* The clients of the Market have no timeout: a call may hang.  hyper      *)
(* drains the requests in progress before its future resolves.             *)
(***************************************************************************)
EXTENDS Naturals, Sequences

CONSTANTS Clients,  \* those that send requests, one at a time
          MaxCalls  \* bound: calls to the Market in one request (slot, pages of units, unit)

ASSUME CallsAssumption == MaxCalls \in Nat \ {0}

VARIABLES
  input,    \* input[s]: whether the setting s is "absent", "good", "bad" or "zero"
  stage,    \* "checks", "setup", "round", "bind", "serving", "draining" or "down"
  step,     \* the check that is next
  cause,    \* why the process has ended
  config,   \* where the configuration came from
  refresh,  \* the refresh task: "none", "running" or "dead"
  signals,  \* Ctrl+C pressed so often
  req       \* req[c]: the request of the client c

startup == <<input, step, config>>
vars    == <<startup, stage, cause, refresh, signals, req>>
------------------------------------------------------------------------------
\* In the order of main.
Checks == <<"url", "ENV", "PORT", "IP_ADDR", "config">>

\* "zero" is a configuration file with an interval of zero seconds.
Values(s) == CASE s = "url" -> {"good", "bad"}
               [] s = "config" -> {"absent", "good", "bad", "zero"}
               [] OTHER -> {"absent", "good", "bad"}

Settings == {Checks[i] : i \in 1..Len(Checks)}

\* A bad URL or address panics, the other failures are returned as errors.
Failure(s) == IF s \in {"url", "IP_ADDR"} THEN "panic" ELSE "error"

\* Of a request: where it waits, how many calls to the Market it still makes at most,
\* whether the one it waits for hangs.
NoRequest == [st |-> "none", left |-> 0, hangs |-> FALSE]
InProgress(r) == r.st \in {"market", "proxy"}
AllDone == \A c \in Clients : ~InProgress(req[c])

\* Every variable has its type; the process has a cause to end, and no task survives.
TypeOK ==
  /\ input \in [Settings -> {"absent", "good", "bad", "zero"}]
  /\ stage \in {"checks", "setup", "round", "bind", "serving", "draining", "down"}
  /\ step \in 1..Len(Checks) + 1
  /\ cause \in {"none", "panic", "error", "killed", "drained", "failed"}
  /\ cause = "none" <=> stage # "down"
  /\ config \in {"none", "file", "development", "production"}
  /\ refresh \in {"none", "running", "dead"}
  /\ refresh # "none" => stage \in {"bind", "serving", "draining"}
  /\ signals \in 0..2
  /\ req \in [Clients -> [st : {"none", "market", "proxy", "answered", "refused", "dropped"},
                          left : 0..MaxCalls, hangs : BOOLEAN]]

Init ==
  /\ input \in {i \in [Settings -> {"absent", "good", "bad", "zero"}] :
                  \A s \in Settings : i[s] \in Values(s)}
  /\ stage = "checks" /\ step = 1 /\ cause = "none" /\ config = "none"
  /\ refresh = "none" /\ signals = 0
  /\ req = [c \in Clients |-> NoRequest]

\* Mutant of End: the spawned task outlives main.
EndLeavesTask(why) ==
  /\ stage' = "down" /\ cause' = why /\ refresh' = refresh
  /\ req' = [c \in Clients |-> IF InProgress(req[c])
                               THEN [NoRequest EXCEPT !.st = "dropped"] ELSE req[c]]

\* The runtime goes with main and takes every task along.
End(why) ==
  /\ stage' = "down" /\ cause' = why /\ refresh' = "none"
  /\ req' = [c \in Clients |-> IF InProgress(req[c])
                               THEN [NoRequest EXCEPT !.st = "dropped"] ELSE req[c]]
------------------------------------------------------------------------------
(* Start. *)

\* Mutant of Load: the environment goes before the path.
LoadEnvironmentFirst ==
  IF input["ENV"] = "good" THEN "production"
  ELSE IF input["config"] = "absent" THEN "development" ELSE "file"

\* Config::new: a path goes before the environment (good is "production" here).
Load == IF input["config"] # "absent" THEN "file"
        ELSE IF input["ENV"] = "good" THEN "production" ELSE "development"

Check ==
  /\ stage = "checks" /\ step <= Len(Checks)
  /\ IF input[Checks[step]] = "bad"
       THEN End(Failure(Checks[step])) /\ UNCHANGED <<step, config>>
       ELSE /\ step' = step + 1
            /\ stage' = IF step = Len(Checks) THEN "setup" ELSE stage
            /\ config' = IF step = Len(Checks) THEN Load ELSE config
            /\ UNCHANGED <<cause, refresh, req>>
  /\ UNCHANGED <<input, signals>>

\* The HTTP clients are built: Proxy::new panics where MarketApi::new and
\* ApiClient::init return an error.
Setup ==
  /\ stage = "setup"
  /\ \/ stage' = "round" /\ UNCHANGED <<cause, refresh, req>>
     \/ \E why \in {"panic", "error"} : End(why)
  /\ UNCHANGED <<startup, signals>>

\* Cache::initialize returns, then the refresh task is spawned.  interval() panics
\* on a period of zero, in that task, whose handle is dropped.
InitialRound ==
  /\ stage = "round"
  /\ stage' = "bind"
  /\ refresh' = IF config = "file" /\ input["config"] = "zero" THEN "dead" ELSE "running"
  /\ UNCHANGED <<startup, cause, signals, req>>

\* Server::bind panics if the address is in use.
Bind ==
  /\ stage = "bind"
  /\ \/ stage' = "serving" /\ UNCHANGED <<cause, refresh, req>>
     \/ End("panic")
  /\ UNCHANGED <<startup, signals>>
------------------------------------------------------------------------------
(* Requests. *)

\* Mutant of Arrive: requests are accepted during the shutdown, too.
ArriveAlways(c) ==
  /\ stage \in {"serving", "draining"}
  /\ ~InProgress(req[c])
  /\ req' = [req EXCEPT ![c] = [st |-> "proxy", left |-> 1, hangs |-> FALSE]]
  /\ UNCHANGED <<startup, stage, cause, refresh, signals>>

\* handle: units-for-slot makes several calls (slot, units, fallback unit), any other
\* request one; a URI that cannot be joined to the Market's is refused with 503.
Arrive(c) ==
  /\ stage = "serving"
  /\ ~InProgress(req[c])
  /\ \E r \in {[st |-> "market", left |-> MaxCalls, hangs |-> FALSE],
               [st |-> "proxy", left |-> 1, hangs |-> FALSE],
               [NoRequest EXCEPT !.st = "refused"]} :
       req' = [req EXCEPT ![c] = r]
  /\ UNCHANGED <<startup, stage, cause, refresh, signals>>

\* A call to the Market ends with an answer or an error: the request goes on with the
\* next one, is answered, or is refused with 503.
MarketReplies(c) ==
  /\ InProgress(req[c]) /\ ~req[c].hangs
  /\ \/ req[c].left > 1 /\ req' = [req EXCEPT ![c].left = req[c].left - 1]
     \/ \E st \in {"answered", "refused"} :
          req' = [req EXCEPT ![c] = [NoRequest EXCEPT !.st = st]]
  /\ UNCHANGED <<startup, stage, cause, refresh, signals>>

\* The Market accepts a call and never answers it.
MarketHangs(c) ==
  /\ InProgress(req[c]) /\ ~req[c].hangs
  /\ req' = [req EXCEPT ![c].hangs = TRUE]
  /\ UNCHANGED <<startup, stage, cause, refresh, signals>>

\* The client goes away, and hyper drops the handler.
Leave(c) ==
  /\ InProgress(req[c]) /\ stage # "down"
  /\ req' = [req EXCEPT ![c] = NoRequest]
  /\ UNCHANGED <<startup, stage, cause, refresh, signals>>
------------------------------------------------------------------------------
(* The end. *)

\* Mutant of Interrupt: the handler is forgotten once it has been used.
InterruptTwiceKills ==
  /\ stage # "down" /\ signals < 2
  /\ signals' = signals + 1
  /\ IF stage = "serving" THEN stage' = "draining" /\ UNCHANGED <<cause, refresh, req>>
     ELSE End("killed")
  /\ UNCHANGED startup

\* Ctrl+C: before serve() has polled shutdown_signal it kills the process; the first
\* one after that begins the shutdown, and the others are swallowed.
Interrupt ==
  /\ stage # "down" /\ signals < 2
  /\ signals' = signals + 1
  /\ CASE stage = "serving"  -> stage' = "draining" /\ UNCHANGED <<cause, refresh, req>>
       [] stage = "draining" -> UNCHANGED <<stage, cause, refresh, req>>
       [] OTHER              -> End("killed")
  /\ UNCHANGED startup

\* graceful.await resolves when no request is in progress; main returns Ok.
Drained ==
  /\ stage = "draining" /\ AllDone
  /\ End("drained")
  /\ UNCHANGED <<startup, signals>>

\* The server fails; serve logs the error and returns Ok all the same.
ServerFails ==
  /\ stage = "serving"
  /\ End("failed")
  /\ UNCHANGED <<startup, signals>>

Stopped == stage = "down" /\ UNCHANGED vars
------------------------------------------------------------------------------
Start == Check \/ Setup \/ InitialRound \/ Bind

Next ==
  \/ Start \/ Interrupt \/ Drained \/ ServerFails \/ Stopped
  \/ \E c \in Clients : Arrive(c) \/ MarketReplies(c) \/ MarketHangs(c) \/ Leave(c)

Spec == Init /\ [][Next]_vars

\* The process runs (each request of the initial round has a timeout), and the Market
\* answers the calls that do not hang.
FairSpec ==
  /\ Spec /\ WF_vars(Start) /\ WF_vars(Drained)
  /\ \A c \in Clients : WF_vars(MarketReplies(c))
------------------------------------------------------------------------------
\* Requests are served only by a process whose settings were all accepted, with the
\* configuration that was asked for and a cache that has had its initial round; and
\* the cache is refreshed, unless an interval is zero: then nothing says so.
ServesAsAsked ==
  stage \in {"serving", "draining"} =>
    /\ \A s \in Settings : input[s] # "bad"
    /\ config = "file" <=> input["config"] # "absent"
    /\ refresh = IF input["config"] = "zero" THEN "dead" ELSE "running"

\* A request that was accepted is answered or refused, unless its client leaves or the
\* server fails: not even two interrupts drop it.
AcceptedIsAnswered ==
  [][\A c \in Clients : InProgress(req[c]) /\ req'[c].st = "dropped" => cause' = "failed"]_vars

\* An interrupt that was heeded ends the process, unless some client waits for ever for
\* a Market that never answers it: the clients of the Market have no timeout, and
\* neither has the shutdown.  A call that hangs until its client leaves does not.
ShutdownEnds ==
  stage = "draining" ~> stage = "down" \/ \E c \in Clients : [](req[c].hangs)
==============================================================================
