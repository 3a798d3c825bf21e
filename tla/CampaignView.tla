---------------------------- MODULE CampaignView ----------------------------
(***************************************************************************)
(* What the campaign cache promises, whatever its locks, timeouts and      *)
(* calls do (the doc comment of Cache::update in src/src/cache.rs):        *)
(*   - the view that requests are answered from changes only when a whole  *)
(*     round of results is committed, all of its results at once;          *)
(*   - a round that is given up leaves the view as it was;                 *)
(*   - a result is never older than the campaign it replaces;              *)
(*   - a request is answered with the whole view of one moment;            *)
(*   - a finalized campaign is recorded only after it has left the view.   *)
(***************************************************************************)
EXTENDS Naturals

CONSTANTS Channels, Requests

VARIABLES view,      \* the campaigns that requests are answered from
          result,    \* what the current round has found so far
          owed,      \* finalized channels that left the view, not yet recorded
          recorded,  \* the finalized channels that are recorded
          answered,  \* the requests that have an answer
          answer     \* answer[h]: the campaigns that h was answered with

vvars == <<view, result, owed, recorded, answered, answer>>

None   == [status |-> "Absent", ver |-> 0]
NoneOf == [c \in Channels |-> None]

With(m, s) == {c \in Channels : m[c].status = s}

Init ==
  /\ view = NoneOf /\ result = NoneOf
  /\ owed = {} /\ recorded = {}
  /\ answered = {} /\ answer = [h \in Requests |-> NoneOf]

\* The round learns the state of c, at least as recent as the one in the view.
Learn(c) ==
  /\ result'[c].status \in {"Live", "Finalized"}
  /\ result'[c].ver >= view[c].ver
  /\ result' = [result EXCEPT ![c] = result'[c]]
  /\ UNCHANGED <<view, owed, recorded, answered, answer>>

\* All that the round has learned takes effect: live campaigns are added or
\* replaced, finalized ones leave the view and are to be recorded.
Commit ==
  /\ owed = {}
  /\ view' = [c \in Channels |-> IF c \in With(result, "Live") THEN result[c]
                                 ELSE IF c \in With(result, "Finalized") THEN None
                                 ELSE view[c]]
  /\ owed' = With(result, "Finalized")
  /\ result' = NoneOf
  /\ UNCHANGED <<recorded, answered, answer>>

\* The round is given up, before its commit or before its recording.
GiveUp ==
  /\ result' = NoneOf
  /\ owed' = {}
  /\ UNCHANGED <<view, recorded, answered, answer>>

Record ==
  /\ recorded' = recorded \cup owed
  /\ owed' = {}
  /\ UNCHANGED <<view, result, answered, answer>>

Ask(h) ==
  /\ answered' = answered \ {h}
  /\ answer' = [answer EXCEPT ![h] = NoneOf]
  /\ UNCHANGED <<view, result, owed, recorded>>

Answer(h) ==
  /\ h \notin answered
  /\ answered' = answered \cup {h}
  /\ answer' = [answer EXCEPT ![h] = view]
  /\ UNCHANGED <<view, result, owed, recorded>>

Next == \/ \E c \in Channels : Learn(c)
        \/ Commit \/ GiveUp \/ Record
        \/ \E h \in Requests : Ask(h) \/ Answer(h)

Spec == Init /\ [][Next]_vvars

\* What requests are told of a campaign never goes back while it is in the view,
\* although rounds overtake what validators report and are given up at any time.
NeverOlder ==
  [][\A c \in Channels : view[c] # None /\ view'[c] # None => view'[c].ver >= view[c].ver]_vvars
=============================================================================
