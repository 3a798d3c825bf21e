----------------------------- MODULE ChannelData -----------------------------
(***************************************************************************)
(* One channel of the cache, with its data (targeting rules and the like)  *)
(* apart from its status and balances.  The data come from the lists of    *)
(* the validators, status and balances from get_status: collect_campaigns  *)
(* (src/src/cache/api_client.rs) keeps the data of the first listing it    *)
(* has a status for and the status of the last one, and an update          *)
(* (src/src/cache.rs) changes status and balances only.                    *)
(***************************************************************************)
EXTENDS Naturals, FiniteSets, Functions

CONSTANTS Validators,
          MaxVersion   \* bound: how often data and status change

ASSUME VersionAssumption == MaxVersion \in Nat \ {0}

VARIABLES
  served,    \* served[v]: the version of the data that v lists
  reported,  \* the version of status and balances get_status would return now
  steady,    \* from now on all calls succeed in time
  order,     \* order[v]: the place of v when the HashSet of validators is iterated
  pc,        \* "idle", "list", "collect", "fetch" or "update"
  asked,     \* validators whose list is outstanding
  listed,    \* listed[v]: what v listed in this round, 0 if nothing
  rest,      \* the listings that collect_campaigns has not come to
  result,    \* what the round has collected
  cached,    \* the campaign in the cache
  newest,    \* history: the last status a call of the round returned
  begun,     \* history: the data served when the new round began
  floor      \* history: those of the last new round with a result

world   == <<served, reported, steady, order>>
history == <<newest, begun, floor>>
vars    == <<world, pc, asked, listed, rest, result, cached, history>>
------------------------------------------------------------------------------
None == [data |-> 0, status |-> 0]

Versions == 0..MaxVersion
Campaigns == [data : Versions, status : Versions]
Nothing == [v \in Validators |-> 0]

Orders == Injection(Validators, 1..Cardinality(Validators))

\* Every variable has its type, and nothing of a round is left to the next one.
TypeOK ==
  /\ served \in [Validators -> Versions \ {0}] /\ reported \in Versions \ {0}
  /\ steady \in BOOLEAN /\ order \in Orders
  /\ pc \in {"idle", "list", "collect", "fetch", "update"}
  /\ asked \in SUBSET Validators /\ listed \in [Validators -> Versions]
  /\ rest \in SUBSET Validators
  /\ result \in Campaigns /\ cached \in Campaigns
  /\ newest \in Versions
  /\ begun \in [Validators -> Versions] /\ floor \in [Validators -> Versions]
  /\ pc = "idle" => listed = Nothing /\ rest = {} /\ result = None

Init ==
  /\ served = [v \in Validators |-> 1] /\ reported = 1 /\ steady = FALSE
  /\ order \in Orders
  /\ pc = "idle" /\ asked = {} /\ listed = Nothing /\ rest = {}
  /\ result = None /\ cached = None
  /\ newest = 0 /\ begun = Nothing /\ floor = Nothing

\* The creator changes the channel; each validator learns it in its own time.
ChangeData(v) ==
  /\ served[v] < MaxVersion
  /\ served' = [served EXCEPT ![v] = served[v] + 1]
  /\ UNCHANGED <<reported, steady, order, pc, asked, listed, rest, result, cached, history>>

ChangeStatus ==
  /\ reported < MaxVersion
  /\ reported' = reported + 1
  /\ UNCHANGED <<served, steady, order, pc, asked, listed, rest, result, cached, history>>

Settle ==
  /\ ~steady /\ steady' = TRUE
  /\ UNCHANGED <<served, reported, order, pc, asked, listed, rest, result, cached, history>>
------------------------------------------------------------------------------
(* A new round. *)

StartNew ==
  /\ pc = "idle"
  /\ pc' = "list" /\ asked' = Validators /\ begun' = served
  /\ UNCHANGED <<world, listed, rest, result, cached, newest, floor>>

\* One of the lists arrives: with the channel, without it, or as an error.
List(v) ==
  /\ pc = "list" /\ v \in asked
  /\ asked' = asked \ {v}
  /\ \/ listed' = [listed EXCEPT ![v] = served[v]]
     \/ ~steady /\ listed' = listed
  /\ UNCHANGED <<world, pc, rest, result, cached, history>>

ListDone ==
  /\ pc = "list" /\ asked = {}
  /\ pc' = "collect"
  /\ rest' = {v \in Validators : listed[v] # 0}
  /\ UNCHANGED <<world, asked, listed, result, cached, history>>

\* Mutant of Merge: or_insert_with alone.
MergeFirst(r, data) == IF r = None THEN [data |-> data, status |-> reported] ELSE r

\* entry().and_modify().or_insert_with(): the first data, the last status.
Merge(r, data) ==
  IF r = None THEN [data |-> data, status |-> reported] ELSE [r EXCEPT !.status = reported]

\* get_status of the next listing: join_all returns the lists in the order of the
\* validators, not of their answers.
Collect(v) ==
  /\ pc = "collect" /\ v \in rest
  /\ \A w \in rest : order[v] <= order[w]
  /\ rest' = rest \ {v}
  /\ \/ result' = Merge(result, listed[v]) /\ newest' = reported
     \/ ~steady /\ UNCHANGED <<result, newest>>
  /\ UNCHANGED <<world, pc, asked, listed, cached, begun, floor>>

\* Mutant of EndRound: the lists of a dropped round are kept.
EndRoundKeepsLists ==
  /\ pc' = "idle" /\ asked' = {} /\ listed' = listed /\ rest' = {}
  /\ result' = None /\ newest' = 0 /\ begun' = Nothing
  /\ UNCHANGED world

EndRound ==
  /\ pc' = "idle" /\ asked' = {} /\ listed' = Nothing /\ rest' = {}
  /\ result' = None /\ newest' = 0 /\ begun' = Nothing
  /\ UNCHANGED world

\* Mutant of Extended: a campaign that is cached is left alone.
ExtendedOnce == IF cached # None THEN cached ELSE result

\* active.extend(): a campaign that was collected replaces the cached one.
Extended == IF result = None THEN cached ELSE result

CommitNew ==
  /\ pc = "collect" /\ rest = {}
  /\ cached' = Extended
  /\ floor' = IF result = None THEN floor ELSE begun
  /\ EndRound
------------------------------------------------------------------------------
(* An update. *)

StartUpdate ==
  /\ pc = "idle" /\ cached # None
  /\ pc' = "fetch"
  /\ UNCHANGED <<world, asked, listed, rest, result, cached, history>>

Fetch ==
  /\ pc = "fetch"
  /\ pc' = "update"
  /\ \/ result' = [None EXCEPT !.status = reported] /\ newest' = reported
     \/ ~steady /\ UNCHANGED <<result, newest>>
  /\ UNCHANGED <<world, asked, listed, rest, cached, begun, floor>>

\* Mutant of Modified: the whole campaign is replaced.
ModifiedWhole == result

\* and_modify(): status and balances only.
Modified == [cached EXCEPT !.status = result.status]

CommitUpdate ==
  /\ pc = "update"
  /\ cached' = IF result = None THEN cached ELSE Modified
  /\ EndRound
  /\ UNCHANGED floor

TimeOut ==
  /\ pc # "idle" /\ ~steady
  /\ EndRound
  /\ UNCHANGED <<cached, floor>>
------------------------------------------------------------------------------
Step == \/ ListDone \/ CommitNew \/ Fetch \/ CommitUpdate
        \/ \E v \in Validators : List(v) \/ Collect(v)

Next ==
  \/ (\E v \in Validators : ChangeData(v)) \/ ChangeStatus \/ Settle
  \/ StartNew \/ StartUpdate \/ TimeOut \/ Step

Spec == Init /\ [][Next]_vars

\* Calls end; neither kind of round starves the other (Served of Rounds).
FairSpec == Spec /\ WF_vars(Step) /\ SF_vars(StartNew)
------------------------------------------------------------------------------
\* The cached data are never older than what every validator served when the last
\* new round with a result began, whichever lists and calls failed; updates, which
\* carry no data, do not lose them.
DataFollowLists == cached # None => \E v \in Validators : cached.data >= floor[v]

\* A round commits the newest status it was given, although it may be asked for
\* twice and the data come from the other listing.
NewestStatusWins ==
  [][cached' # cached => cached'.status = newest]_vars

\* What all validators serve reaches the cache, though updates never fetch it.
DataCatchUp ==
  \A n \in 1..MaxVersion :
    steady /\ (\A v \in Validators : served[v] >= n) ~> cached.data >= n
==============================================================================
