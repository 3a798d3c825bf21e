----------------------------- MODULE UnitsForSlot -----------------------------
(***************************************************************************)
(* A request for the units of an ad slot: handle (src/src/lib.rs),         *)
(* get_units_for_slot, get_campaigns and apply_targeting                   *)
(* (src/src/units_for_slot.rs), and the Market's answers it waits for.     *)
(* The campaign cache changes under it, as CampaignCache describes: here   *)
(* it is any change between two steps, since the handler reads the cache   *)
(* in one step.                                                            *)
(*                                                                         *)
(* A campaign has one ad unit.  What is done with a unit is what comes of  *)
(* it: whether its type, the campaign's rules or the slot's rules hide it, *)
(* and the price that the campaign's rules set.                            *)
(***************************************************************************)
EXTENDS Integers, FiniteSets

CONSTANTS Campaigns,   \* channel ids
          Assets,      \* deposit assets
          MaxEarning,  \* config.limits.max_channels_earning_from
          GlobalMin,   \* config.limits.global_min_impression_price
          MaxPrice,    \* bound: prices are 0..MaxPrice
          Channels     \* bound: what the channels may be

Prices == 0..MaxPrice

ASSUME ChannelsAssumption ==
  Channels \subseteq [own : BOOLEAN,   \* its creator is the publisher
                      asset : Assets, min : Prices, max : Prices]
ASSUME LimitsAssumption == {MaxEarning, GlobalMin, MaxPrice} \subseteq Nat

VARIABLES
  channel,    \* channel[c]: what never changes of a campaign
  cache,      \* cache[c]: the entry of c in Cache.active
  fallback,   \* whether the ad slot names a fallback unit
  wanted,     \* the `depositAsset`s of the query
  pc,         \* where the handler stands
  campaigns,  \* campaigns_limited_by_earner
  response,   \* the response to the last request
  seen        \* history: what the cache has been since the Market's last answer

request == <<channel, fallback, wanted>>
vars    == <<request, cache, pc, campaigns, response, seen>>
------------------------------------------------------------------------------
\* Entries of the cache: none, or whether the status is Active and whether the
\* balances have the publisher.
Uncached == [active |-> FALSE, earns |-> FALSE]
Entry    == [active : BOOLEAN, earns : BOOLEAN]

\* What the rules leave of a unit; its price is the lower bound before they run.
Outputs == [hidden : BOOLEAN, price : Prices]

NotOffered == -1
NoOffers   == [c \in Campaigns |-> NotOffered]
Answer(status, offers) == [status |-> status, offers |-> offers]

NothingSeen == [eligible |-> {}, earning |-> {}, below |-> FALSE]

TypeOK ==
  /\ channel \in [Campaigns -> Channels]
  /\ cache \in [Campaigns -> Entry]
  /\ fallback \in BOOLEAN
  /\ wanted \in SUBSET Assets
  /\ pc \in {"idle", "slot", "units", "fallback", "cache", "respond", "proxy"}
  /\ campaigns \in SUBSET Campaigns
  /\ pc \notin {"respond", "idle"} => campaigns = {}
  /\ response.status \in {"none", "ok", "not_found", "unavailable", "proxied"}
  /\ response.offers \in [Campaigns -> Prices \cup {NotOffered}]
  /\ seen \in [eligible : SUBSET Campaigns, earning : SUBSET Campaigns, below : BOOLEAN]

Init ==
  /\ channel \in [Campaigns -> Channels]
  /\ cache = [c \in Campaigns |-> Uncached]
  /\ fallback \in BOOLEAN
  /\ wanted = {}
  /\ pc = "idle"
  /\ campaigns = {}
  /\ response = Answer("none", NoOffers)
  /\ seen = NothingSeen
------------------------------------------------------------------------------
(* get_campaigns. *)

Eligible(m) ==
  {c \in Campaigns : /\ m[c].active
                     /\ ~channel[c].own
                     /\ wanted = {} \/ channel[c].asset \in wanted}

Earning(m) == {c \in Eligible(m) : m[c].earns}

\* Mutant of Selected: a publisher at the limit may still earn from one more.
SelectedOneMore(m) ==
  IF Cardinality(Earning(m)) > MaxEarning THEN Earning(m) ELSE Eligible(m)

AtLimit(m) == Cardinality(Earning(m)) >= MaxEarning

Selected(m) == IF AtLimit(m) THEN Earning(m) ELSE Eligible(m)

\* What was seen, and what the cache m shows: campaigns that are eligible, campaigns
\* that the publisher earns from, and whether these are below the limit.
See(s, m) == [eligible |-> s.eligible \cup Eligible(m),
              earning  |-> s.earning \cup Earning(m),
              below    |-> s.below \/ ~AtLimit(m)]
------------------------------------------------------------------------------
(* apply_targeting. *)

Least(a, b)    == IF a < b THEN a ELSE b
Greatest(a, b) == IF a > b THEN a ELSE b

\* Mutant of Price: the lower bound is applied first.
PriceMinFirst(c, output) ==
  Least(Greatest(output.price, channel[c].min), channel[c].max)

\* The price of a unit, as the campaign's rules leave it, within the bounds.
Price(c, output) ==
  Greatest(channel[c].min, Least(output.price, channel[c].max))

Offer(c, output) ==
  IF ~output.hidden /\ Price(c, output) >= GlobalMin
    THEN Price(c, output) ELSE NotOffered
------------------------------------------------------------------------------
\* The refresh task has updated the cache.
CacheMoves(c) ==
  /\ \E e \in Entry : cache' = [cache EXCEPT ![c] = e]
  /\ seen' = IF pc = "cache" THEN See(seen, cache') ELSE seen
  /\ UNCHANGED <<request, pc, campaigns, response>>

\* Mutant of Arrive: the campaigns of the previous request are left over.
ArriveAgain ==
  /\ pc = "idle"
  /\ \/ wanted' \in SUBSET Assets /\ pc' = "slot" /\ UNCHANGED response
     \/ response' = Answer("not_found", NoOffers) /\ UNCHANGED <<wanted, pc>>
     \/ pc' = "proxy" /\ UNCHANGED <<wanted, response>>
  /\ seen' = NothingSeen
  /\ UNCHANGED <<channel, fallback, cache, campaigns>>

\* handle: a GET of /units-for-slot is served here, the rest is the Market's;
\* without an IPFS hash there is no slot to look for.
Arrive ==
  /\ pc = "idle"
  /\ \/ wanted' \in SUBSET Assets /\ pc' = "slot" /\ UNCHANGED response
     \/ response' = Answer("not_found", NoOffers) /\ UNCHANGED <<wanted, pc>>
     \/ pc' = "proxy" /\ UNCHANGED <<wanted, response>>
  /\ campaigns' = {}
  /\ seen' = NothingSeen
  /\ UNCHANGED <<channel, fallback, cache>>

Reply(answer) ==
  /\ response' = answer
  /\ pc' = "idle"
  /\ UNCHANGED <<request, cache, campaigns, seen>>

\* The Market has answered; the next thing the handler waits for.
Continue(next) ==
  /\ pc' = next
  /\ seen' = IF next = "cache" THEN See(seen, cache) ELSE seen
  /\ UNCHANGED <<request, cache, campaigns, response>>

Unavailable == Reply(Answer("unavailable", NoOffers))
NotFound    == Reply(Answer("not_found", NoOffers))

FetchSlot ==
  /\ pc = "slot"
  /\ Continue("units") \/ NotFound \/ Unavailable

FetchUnits ==
  /\ pc = "units"
  /\ Continue(IF fallback THEN "fallback" ELSE "cache") \/ Unavailable

FetchFallback ==
  /\ pc = "fallback"
  /\ Continue("cache") \/ NotFound \/ Unavailable

\* Mutant of GetCampaigns: what the last request was offered stays on the list.
GetCampaignsKept ==
  /\ pc = "cache"
  /\ campaigns' = Selected(cache) \cup {c \in Campaigns : response.offers[c] # NotOffered}
  /\ pc' = "respond"
  /\ UNCHANGED <<request, cache, response, seen>>

\* get_campaigns, under the read guard, which is released when it returns.
GetCampaigns ==
  /\ pc = "cache"
  /\ campaigns' = Selected(cache)
  /\ pc' = "respond"
  /\ UNCHANGED <<request, cache, response, seen>>

\* apply_targeting and the response.
Respond ==
  /\ pc = "respond"
  /\ \E output \in [Campaigns -> Outputs] :
       Reply(Answer("ok", [c \in Campaigns |-> IF c \in campaigns THEN Offer(c, output[c])
                                               ELSE NotOffered]))

\* Proxy::proxy returns the Market's response or fails.
ProxyAnswers ==
  /\ pc = "proxy"
  /\ Reply(Answer("proxied", NoOffers)) \/ Unavailable

\* The client goes away: hyper drops the handler where it awaits.
Disconnect ==
  /\ pc \notin {"idle", "respond"}
  /\ pc' = "idle"
  /\ UNCHANGED <<request, cache, campaigns, response, seen>>

Next ==
  \/ \E c \in Campaigns : CacheMoves(c)
  \/ Arrive \/ FetchSlot \/ FetchUnits \/ FetchFallback \/ GetCampaigns \/ Respond
  \/ ProxyAnswers \/ Disconnect

Spec == Init /\ [][Next]_vars
------------------------------------------------------------------------------
Offered(r) == {c \in Campaigns : r.offers[c] # NotOffered}

\* A response offers only campaigns that were eligible after the Market had given
\* its last answer: however long slot, units and fallback took to arrive, no
\* campaign that had left the cache before is offered.
OffersAreCurrent ==
  [][pc = "respond" /\ pc' = "idle" => Offered(response') \subseteq seen.eligible]_vars

\* A price is within the campaign's bounds and not below the global minimum, the
\* lower bound taking precedence over an upper one that is smaller.
PricesInBounds ==
  \A c \in Offered(response) :
    /\ response.offers[c] >= Greatest(channel[c].min, GlobalMin)
    /\ response.offers[c] <= Greatest(channel[c].min, channel[c].max)

\* A publisher who earns from the maximum of campaigns all the time since the
\* Market's last answer is offered no campaign that it earned from at no such time:
\* whatever round intervenes, the limit and the offers go by the same cache.
NoNewEarningsAtLimit ==
  [][pc = "respond" /\ pc' = "idle" /\ ~seen.below =>
       Offered(response') \subseteq seen.earning]_vars

\* The comment on max_channels_earning_from (src/config/prod.toml): "This will limit
\* the returned Campaigns to the set number".
ReturnedWithinLimit == Cardinality(Offered(response)) <= MaxEarning
==============================================================================
