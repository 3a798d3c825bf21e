----------------------------- MODULE RefreshLoop -----------------------------
(***************************************************************************)
(* The refresh task of spawn_fetch_campaigns (src/src/lib.rs) with its     *)
(* durations: two tokio intervals, a timeout around each round, and the    *)
(* requests of a round, one after the other, each under the timeout of the *)
(* HTTP client (src/src/sentry_api.rs).                                    *)
(*                                                                         *)
(* Time is discrete and passes only while the task waits.  A validator     *)
(* that hangs accepts requests and never answers.  The lock of the cache   *)
(* does not appear: nobody holds it over an `.await` but this task.        *)
(***************************************************************************)
EXTENDS Integers, FiniteSets

CONSTANTS Channels,
          Validators,
          Leader, Follower,  \* the validators of a channel
          MayHang,           \* validators that may hang, for ever
          Flaky,             \* validators whose answers may be errors, or incomplete lists
          Ending,            \* channels that may come to their end
          Repeats,           \* bound: how often one list names a channel
          Settings           \* the durations of the process, and of an answer

Kinds == {"new", "update"}
Other(k) == IF k = "new" THEN "update" ELSE "new"

ASSUME ValidatorsAssumption ==
  /\ Leader \in [Channels -> Validators] /\ Follower \in [Channels -> Validators]
  /\ MayHang \subseteq Validators /\ Flaky \subseteq Validators
  /\ IsFiniteSet(Channels) /\ Ending \subseteq Channels
ASSUME RepeatsAssumption == Repeats \in Nat \ {0}
ASSUME DurationsAssumption ==
  /\ Settings \subseteq [period  : [Kinds -> Nat \ {0}],  \* fetch_, update_campaigns_every
                         timeout : [Kinds -> Nat \ {0}],  \* of a round of each kind
                         request : Nat \ {0},             \* timeouts.validator_request
                         answer  : Nat]                   \* the longest an answer takes
  /\ \A s \in Settings : s.answer <= s.request

VARIABLES
  settings, \* the durations in use
  created,  \* the channels that exist
  ended,    \* those that is_finalized finds finalized
  hung,     \* the validators that hang
  cached,   \* the campaigns in the cache
  late,     \* late[k]: time since the next deadline of the interval k, negative before it
  first,    \* the interval that `select` polls first
  pc,       \* "select", "list" (get_all_channels) or "calls" (get_status)
  round,    \* which round that is
  elapsed,  \* time since the round began
  wait,     \* time since the outstanding request was sent
  todo,     \* todo[c]: get_status calls still to make
  call,     \* the get_status call in progress: its channel, its number of requests
  got,      \* channels the round has a status of
  gone      \* channels the round has found finalized

world    == <<settings, created, ended, hung>>
results  == <<got, gone>>
progress == <<elapsed, wait, todo, call, results>>
vars     == <<world, cached, late, first, pc, round, progress>>
------------------------------------------------------------------------------
NoCall  == [ch |-> {}, n |-> 0]
NoCalls == [c \in Channels |-> 0]

ValidatorsOf(c) == {Leader[c], Follower[c]}

\* get_status asks the leader, the follower and the leader again.
Asked(k) == IF k.n = 2 THEN Follower[k.ch] ELSE Leader[k.ch]

\* The initial round is under no timeout.
Bounded == round # "init"

\* Mutant of Deadline: the timeout of a request is used for the round.
DeadlineOfRequest(k) == settings.request

Deadline(k) == settings.timeout[k]

\* Every variable has its type; outside a round nothing is left of it, and no round
\* but the initial one is longer than its timeout.
TypeOK ==
  /\ settings \in Settings
  /\ created \in SUBSET Channels /\ hung \in SUBSET MayHang
  /\ ended \in SUBSET (created \cap Ending)
  /\ cached \in SUBSET created
  /\ late \in [Kinds -> Int] /\ first \in Kinds
  /\ pc \in {"select", "list", "calls"} /\ round \in Kinds \cup {"init"}
  /\ elapsed \in Nat /\ wait \in 0..elapsed
  /\ todo \in [Channels -> 0..2 * Repeats]
  /\ \A c \in Channels \ created : todo[c] = 0
  /\ call \in [ch : created, n : 1..3] \cup {NoCall}
  /\ got \in SUBSET created /\ gone \in SUBSET ended
  /\ IF pc = "select"
     THEN elapsed = 0 /\ todo = NoCalls /\ call = NoCall /\ got = {} /\ gone = {}
     ELSE Bounded => elapsed <= Deadline(round)

Init ==
  /\ settings \in Settings
  /\ created \in SUBSET Channels /\ ended = {} /\ hung = {} /\ cached = {}
  /\ late = [k \in Kinds |-> 0] /\ first = "new"
  /\ pc = "list" /\ round = "init"
  /\ elapsed = 0 /\ wait = 0 /\ todo = NoCalls /\ call = NoCall
  /\ got = {} /\ gone = {}

Create(c) ==
  /\ c \notin created
  /\ created' = created \cup {c}
  /\ UNCHANGED <<settings, ended, hung, cached, late, first, pc, round, progress>>

\* A campaign expires, enters its withdraw period or is exhausted.
Finish(c) ==
  /\ c \in (created \cap Ending) \ ended
  /\ ended' = ended \cup {c}
  /\ UNCHANGED <<settings, created, hung, cached, late, first, pc, round, progress>>

Hang(v) ==
  /\ v \in MayHang \ hung
  /\ hung' = hung \cup {v}
  /\ UNCHANGED <<settings, created, ended, cached, late, first, pc, round, progress>>
------------------------------------------------------------------------------
(* Time. *)

\* Whether the outstanding requests meet a validator that hangs.  Listing asks all
\* of them at once, and those with several pages a second time.
Hangs == IF pc = "list" THEN hung # {} ELSE call # NoCall /\ Asked(call) \in hung

Shortest == IF Hangs THEN settings.request ELSE 0

\* Mutant of Longest: the HTTP client has no timeout (here, ten times as long a one).
LongestUnbounded ==
  IF pc = "list" THEN settings.answer + (IF Hangs THEN 10 * settings.request ELSE settings.answer)
  ELSE IF call = NoCall THEN 0
  ELSE IF Hangs THEN 10 * settings.request ELSE settings.answer

Longest ==
  IF pc = "list" THEN settings.answer + (IF Hangs THEN settings.request ELSE settings.answer)
  ELSE IF call = NoCall THEN 0
  ELSE IF Hangs THEN settings.request ELSE settings.answer

\* timeout(..) polls the round before its own deadline: at the deadline a request
\* that was sent earlier may still end, one that was sent just now may not.
MayEnd ==
  /\ wait >= Shortest
  /\ Bounded => elapsed < Deadline(round) \/ wait > 0

\* Mutant of Tick: the rounds are not under a timeout.
TickUnbounded ==
  /\ IF pc = "select" THEN \A k \in Kinds : late[k] < 0 ELSE wait < Longest
  /\ late' = IF pc # "select" /\ ~Bounded THEN late
             ELSE [k \in Kinds |-> late[k] + 1]
  /\ IF pc = "select" THEN UNCHANGED <<elapsed, wait>>
     ELSE elapsed' = elapsed + 1 /\ wait' = wait + 1
  /\ UNCHANGED <<world, cached, first, pc, round, todo, call, results>>

\* The intervals exist only after the initial round.
Tick ==
  /\ IF pc = "select" THEN \A k \in Kinds : late[k] < 0
     ELSE wait < Longest /\ (Bounded => elapsed < Deadline(round))
  /\ late' = IF pc # "select" /\ ~Bounded THEN late
             ELSE [k \in Kinds |-> late[k] + 1]
  /\ IF pc = "select" THEN UNCHANGED <<elapsed, wait>>
     ELSE elapsed' = elapsed + 1 /\ wait' = wait + 1
  /\ UNCHANGED <<world, cached, first, pc, round, todo, call, results>>
------------------------------------------------------------------------------
(* The loop. *)

\* Mutant of Yield: the interval of the new rounds is polled first, always.
YieldNewFirst(k) ==
  /\ pc = "select"
  /\ late[k] >= 0
  /\ k = "new" \/ late["new"] < 0
  /\ late' = [late EXCEPT ![k] = late[k] - settings.period[k]]
  /\ first' = first
  /\ round' = k

\* select_time.next(): `first` yields if its deadline has passed and loses its
\* precedence, otherwise the other one.  The next deadline is a period after this
\* one, not after now: missed ticks come in a burst.
Yield(k) ==
  /\ pc = "select"
  /\ late[k] >= 0
  /\ first = k \/ late[Other(k)] < 0
  /\ late' = [late EXCEPT ![k] = late[k] - settings.period[k]]
  /\ first' = IF first = k THEN Other(k) ELSE first
  /\ round' = k

StartNew ==
  /\ Yield("new")
  /\ pc' = "list"
  /\ UNCHANGED <<world, cached, progress>>

StartUpdate ==
  /\ Yield("update")
  /\ pc' = "calls"
  /\ todo' = [c \in Channels |-> IF c \in cached THEN 1 ELSE 0]
  /\ UNCHANGED <<world, cached, elapsed, wait, call, results>>

\* Mutant of EndRound: the results of a dropped round are left to the next one.
EndRoundKeepsResults ==
  /\ pc' = "select"
  /\ elapsed' = 0 /\ wait' = 0 /\ UNCHANGED <<todo, call, results>>
  /\ UNCHANGED <<world, late, first, round>>

EndRound ==
  /\ pc' = "select"
  /\ elapsed' = 0 /\ wait' = 0 /\ todo' = NoCalls /\ call' = NoCall
  /\ got' = {} /\ gone' = {}
  /\ UNCHANGED <<world, late, first, round>>

\* The round is dropped, with all its results.
TimeOut ==
  /\ pc # "select" /\ Bounded
  /\ elapsed = Deadline(round)
  /\ EndRound
  /\ UNCHANGED cached
------------------------------------------------------------------------------
(* A round. *)

\* How often the lists of the validators that answered may name the channel.  A page
\* that shifts names it again; an ended channel may not be listed any more.
Listings(c) ==
  IF c \notin created THEN 0..0
  ELSE LET sure == IF c \in ended THEN {} ELSE ValidatorsOf(c) \ (hung \cup Flaky)
       IN  Cardinality(sure)..Repeats * Cardinality(ValidatorsOf(c) \ hung)

\* get_all_channels.
ListChannels ==
  /\ pc = "list" /\ MayEnd
  /\ \E listed \in [Channels -> 0..2 * Repeats] :
       (\A c \in Channels : listed[c] \in Listings(c)) /\ todo' = listed
  /\ pc' = "calls" /\ wait' = 0
  /\ UNCHANGED <<world, cached, late, first, round, elapsed, call, results>>

\* The next iteration of the loop over channels or campaigns.
Call(c) ==
  /\ pc = "calls" /\ call = NoCall
  /\ todo[c] > 0
  /\ todo' = [todo EXCEPT ![c] = todo[c] - 1]
  /\ call' = [ch |-> c, n |-> 1]
  /\ UNCHANGED <<world, cached, late, first, pc, round, elapsed, wait, results>>

\* is_finalized returns Yes with the first answer of the leader.
FindsEnd == call.n = 1 /\ call.ch \in ended

\* A request of get_status ends: with the next one, with an end, a status or an error.
\* The last result of a channel counts.
Answer ==
  /\ pc = "calls" /\ call # NoCall /\ MayEnd
  /\ wait' = 0
  /\ \/ /\ Asked(call) \notin hung /\ ~FindsEnd /\ call.n < 3
        /\ call' = [call EXCEPT !.n = call.n + 1] /\ UNCHANGED results
     \/ /\ Asked(call) \notin hung /\ FindsEnd
        /\ call' = NoCall /\ got' = got \ {call.ch} /\ gone' = gone \cup {call.ch}
     \/ /\ Asked(call) \notin hung /\ call.n > 1
        /\ call' = NoCall /\ got' = got \cup {call.ch} /\ gone' = gone \ {call.ch}
     \/ /\ Asked(call) \in hung \cup Flaky
        /\ call' = NoCall /\ UNCHANGED results
  /\ UNCHANGED <<world, cached, late, first, pc, round, elapsed, todo>>

\* Cache::update: a new round adds its campaigns, an update changes cached ones, and
\* both remove those that are finalized.
Commit ==
  /\ pc = "calls" /\ call = NoCall /\ todo = NoCalls
  /\ cached' = (IF round = "update" THEN cached ELSE cached \cup got) \ gone
  /\ EndRound

Task == StartNew \/ StartUpdate \/ TimeOut \/ ListChannels
          \/ (\E c \in Channels : Call(c)) \/ Answer \/ Commit

Next == Task \/ Tick \/ (\E c \in Channels : Create(c) \/ Finish(c))
             \/ (\E v \in Validators : Hang(v))

Spec == Init /\ [][Next]_vars

\* The task is polled and time passes; validators may hang and calls may fail.
FairSpec == Spec /\ WF_vars(Task) /\ WF_vars(Tick)
------------------------------------------------------------------------------
\* Rounds that take their whole timeout leave the task some time on the average, and
\* a round of one kind fits into the period of the other.
LightLoad ==
  \A s \in Settings :
    /\ s.timeout["new"] * s.period["update"] + s.timeout["update"] * s.period["new"]
         <= s.period["new"] * s.period["update"]
    /\ \A k \in Kinds : s.timeout[k] <= s.period[Other(k)]

\* No interval is ever more than one tick behind, though one task serves both and
\* a round lasts up to its timeout: missed ticks do not pile up.
NoPileUp == \A k \in Kinds : late[k] <= settings.period[k]

\* serve() binds after the initial round, which has no timeout: it is bounded only
\* by the requests it makes: two for the lists, three for each time that one of the
\* two validators of a channel lists it.
MostRequests == 2 + 6 * (Repeats * Cardinality(Channels))

BindsInTime == round = "init" /\ pc # "select" => elapsed <= settings.request * MostRequests

\* The validators of the channel answer at once, whatever the others do.
Answers(c) == settings.answer = 0 /\ ValidatorsOf(c) \cap (MayHang \cup Flaky) = {}

\* The channels whose calls may run into the request timeout.
Hanging      == {c \in Channels : ValidatorsOf(c) \cap MayHang # {}}
HangingCalls == Cardinality(Hanging)

\* The comment of spawn_fetch_campaigns: "Every few minutes, we will get the
\* non-finalized from the market, in order to keep discovering new campaigns".  A
\* campaign whose own validators answer is found, unless it comes to its end.
NewCampaignsDiscovered ==
  \A c \in Channels : c \in created /\ Answers(c) ~> c \in cached \cup ended

\* The requests of a round that hang, at most: the listing, the call for each time that
\* the other validator of a channel lists it, the call for each cached campaign.
MostHanging(k) == IF k = "new" THEN 1 + Repeats * HangingCalls ELSE HangingCalls

\* Its own validators answer, and the settings leave a round time for what hangs.
Given(k, c) == Answers(c) /\ settings.timeout[k] > settings.request * MostHanging(k)

\* So it is if the settings leave a new round time for a listing and the calls that
\* hang: each round meets the same ones again, and when they take longer than its
\* timeout it drops what it has collected.
DiscoveredGivenTime ==
  \A c \in Channels : c \in created /\ Given("new", c) ~> c \in cached \cup ended

\* A round ends with a status of the campaign, or without the campaign in the cache.
Refreshes(c) ==
  /\ pc = "calls" /\ pc' = "select" /\ call = NoCall /\ todo = NoCalls
  /\ c \in got \/ (c \in gone /\ c \notin cached')

\* A cached campaign whose own validators answer is refreshed again and again, if the
\* settings leave an update time for the calls that hang: its results are committed
\* all at once or not at all.
UpdatedGivenTime ==
  \A c \in Channels :
    []<>(c \in cached /\ Given("update", c)) => []<><<Refreshes(c)>>_vars

Loop == INSTANCE Rounds WITH
  running <- IF pc = "select" THEN "none" ELSE round,
  due     <- [k \in Kinds |-> late[k] >= 0]

\* The loop implements Rounds: whatever hangs, every round ends, the next one begins
\* when an interval is due, and the two take turns.
ImplementsRounds == Loop!FairSpec
==============================================================================
