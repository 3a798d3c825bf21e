-------------------------- MODULE UnitsForSlotProofs --------------------------
(***************************************************************************)
(* Theorems about UnitsForSlot, for any campaigns, assets, limits and      *)
(* prices, and for a cache that changes in any way between two steps.      *)
(***************************************************************************)
EXTENDS UnitsForSlot, TLAPS

\* The bounds of a campaign are prices, as is the price of a unit within them.
LEMMA PriceTypes ==
  ASSUME channel \in [Campaigns -> Channels], NEW c \in Campaigns, NEW o \in Outputs
  PROVE  /\ channel[c].min \in Prices /\ channel[c].max \in Prices
         /\ Price(c, o) \in Prices
         /\ Price(c, o) >= channel[c].min
         /\ Price(c, o) <= Greatest(channel[c].min, channel[c].max)
<1>1. channel[c].min \in Prices /\ channel[c].max \in Prices
  BY ChannelsAssumption
<1>2. Prices \subseteq Int
  BY LimitsAssumption DEF Prices
<1>3. o.price \in Prices
  BY DEF Outputs
<1>4. Price(c, o) \in {channel[c].min, channel[c].max, o.price}
  BY DEF Price, Least, Greatest
<1>5. ASSUME NEW min \in Int, NEW max \in Int, NEW p \in Int
      PROVE  /\ Greatest(min, Least(p, max)) >= min
             /\ Greatest(min, Least(p, max)) <= Greatest(min, max)
  BY DEF Least, Greatest
<1> QED
  BY <1>1, <1>2, <1>3, <1>4, <1>5 DEF Price

\* What a unit is offered for, if it is.
LEMMA OfferBounds ==
  ASSUME channel \in [Campaigns -> Channels], NEW c \in Campaigns, NEW o \in Outputs
  PROVE  /\ Offer(c, o) \in Prices \cup {NotOffered}
         /\ Offer(c, o) # NotOffered =>
              /\ Offer(c, o) >= Greatest(channel[c].min, GlobalMin)
              /\ Offer(c, o) <= Greatest(channel[c].min, channel[c].max)
  BY PriceTypes DEF Offer, Greatest

LEMMA AnswerTypes ==
  /\ NoOffers \in [Campaigns -> Prices \cup {NotOffered}]
  /\ \A s : Offered(Answer(s, NoOffers)) = {}
  BY DEF NoOffers, Offered, Answer

LEMMA SeenTypes ==
  ASSUME NEW s \in [eligible : SUBSET Campaigns, earning : SUBSET Campaigns, below : BOOLEAN],
         NEW m
  PROVE  See(s, m) \in [eligible : SUBSET Campaigns, earning : SUBSET Campaigns,
                        below : BOOLEAN]
<1>1. Eligible(m) \subseteq Campaigns /\ Earning(m) \subseteq Campaigns
  BY DEF Eligible, Earning
<1>2. (s.below \/ ~AtLimit(m)) \in BOOLEAN
  OBVIOUS
<1> QED
  BY <1>1, <1>2 DEF See

\* The steps that answer a request without an offer.
Refuse == \E s \in {"not_found", "unavailable", "proxied"} : Reply(Answer(s, NoOffers))

\* What the answers of the Market and of the proxy come to.
LEMMA MarketSteps ==
  ASSUME FetchSlot \/ FetchUnits \/ FetchFallback \/ ProxyAnswers
  PROVE  /\ pc \in {"slot", "units", "fallback", "proxy"}
         /\ Refuse \/ \E next \in {"units", "fallback", "cache"} : Continue(next)
  BY DEF FetchSlot, FetchUnits, FetchFallback, ProxyAnswers, Refuse, NotFound, Unavailable

\* Every variable keeps its type, and no campaign is left over from one request
\* to the next.
THEOREM TypeCorrect == Spec => []TypeOK
<1>1. Init => TypeOK
  BY AnswerTypes DEF Init, TypeOK, Uncached, Entry, Answer, NothingSeen
<1>2. TypeOK /\ [Next]_vars => TypeOK'
  <2> SUFFICES ASSUME TypeOK, [Next]_vars PROVE TypeOK'
    OBVIOUS
  <2> USE DEF TypeOK, request
  <2>1. ASSUME NEW c \in Campaigns, CacheMoves(c) PROVE TypeOK'
    BY <2>1, SeenTypes DEF CacheMoves
  <2>2. CASE Arrive
    BY <2>2, AnswerTypes DEF Arrive, Answer, NothingSeen
  <2>3. CASE FetchSlot \/ FetchUnits \/ FetchFallback \/ ProxyAnswers
    <3>1. CASE Refuse
      BY <2>3, <3>1, MarketSteps, AnswerTypes DEF Refuse, Reply, Answer
    <3>2. ASSUME NEW next \in {"units", "fallback", "cache"}, Continue(next) PROVE TypeOK'
      BY <2>3, <3>2, MarketSteps, SeenTypes DEF Continue
    <3> QED
      BY <2>3, <3>1, <3>2, MarketSteps
  <2>4. CASE GetCampaigns
    BY <2>4 DEF GetCampaigns, Selected, Earning, Eligible
  <2>5. CASE Respond
    BY <2>5, OfferBounds DEF Respond, Reply, Answer
  <2>6. CASE Disconnect
    BY <2>6 DEF Disconnect
  <2>7. CASE UNCHANGED vars
    BY <2>7 DEF vars
  <2> QED
    BY <2>1, <2>2, <2>3, <2>4, <2>5, <2>6, <2>7 DEF Next
<1> QED
  BY <1>1, <1>2, PTL DEF Spec
------------------------------------------------------------------------------
\* Every offer is within the bounds of its campaign and not below the global
\* minimum, whatever the bounds, reversed ones included.
THEOREM PricesWithinBounds == Spec => []PricesInBounds
<1>1. Init => PricesInBounds
  BY AnswerTypes DEF Init, PricesInBounds
<1>2. TypeOK /\ PricesInBounds /\ [Next]_vars => PricesInBounds'
  <2> SUFFICES ASSUME TypeOK, PricesInBounds, [Next]_vars PROVE PricesInBounds'
    OBVIOUS
  <2>0. UNCHANGED channel
    BY DEF Next, vars, request, CacheMoves, Arrive, FetchSlot, FetchUnits, FetchFallback,
           GetCampaigns, Respond, ProxyAnswers, Disconnect, Reply, Continue, Unavailable,
           NotFound
  <2>1. CASE Respond
    <3>1. PICK o \in [Campaigns -> Outputs] :
            response' = Answer("ok", [c \in Campaigns |-> IF c \in campaigns
                                                          THEN Offer(c, o[c]) ELSE NotOffered])
      BY <2>1 DEF Respond, Reply
    <3>2. \A c \in Offered(response') : response'.offers[c] = Offer(c, o[c])
                                        /\ Offer(c, o[c]) # NotOffered
      BY <3>1 DEF Offered, Answer
    <3> QED
      BY <2>0, <3>2, OfferBounds DEF PricesInBounds, TypeOK, Offered
  <2>2. CASE UNCHANGED response
    BY <2>0, <2>2 DEF PricesInBounds, Offered
  <2>3. CASE Refuse \/ response' = Answer("not_found", NoOffers)
    BY <2>3, AnswerTypes DEF PricesInBounds, Refuse, Reply
  <2>4. CASE FetchSlot \/ FetchUnits \/ FetchFallback \/ ProxyAnswers
    BY <2>2, <2>3, <2>4, MarketSteps DEF Continue
  <2> QED
    BY <2>1, <2>2, <2>3, <2>4 DEF Next, CacheMoves, Arrive, GetCampaigns, Disconnect, vars
<1> QED
  BY <1>1, <1>2, TypeCorrect, PTL DEF Spec
------------------------------------------------------------------------------
\* From the Market's last answer on, what the cache shows is remembered, and what
\* the handler has selected is among it, new campaigns only if there was room for them.
SeenInv ==
  /\ pc = "cache" => /\ Eligible(cache) \subseteq seen.eligible
                     /\ Earning(cache) \subseteq seen.earning
                     /\ seen.below \/ AtLimit(cache)
  /\ pc = "respond" => /\ campaigns \subseteq seen.eligible
                       /\ seen.below \/ campaigns \subseteq seen.earning

\* What a cache shows depends on the request only.
LEMMA SameRequest ==
  ASSUME UNCHANGED <<channel, wanted>>
  PROVE  /\ Eligible(cache)' = Eligible(cache')
         /\ Earning(cache)' = Earning(cache')
         /\ AtLimit(cache)' = AtLimit(cache')
<1>1. Eligible(cache)' = Eligible(cache')
  BY DEF Eligible
<1>2. Earning(cache)' = Earning(cache')
  BY <1>1 DEF Earning
<1> QED
  BY <1>1, <1>2 DEF AtLimit

LEMMA SeenInvariance == Spec => []SeenInv
<1>1. Init => SeenInv
  BY DEF Init, SeenInv
<1>2. SeenInv /\ [Next]_vars => SeenInv'
  <2> SUFFICES ASSUME SeenInv, [Next]_vars PROVE SeenInv'
    OBVIOUS
  <2> USE DEF SeenInv, request
  <2>1. ASSUME NEW c \in Campaigns, CacheMoves(c) PROVE SeenInv'
    BY <2>1, SameRequest DEF CacheMoves, See
  <2>2. CASE Arrive
    BY <2>2 DEF Arrive
  <2>3. CASE FetchSlot \/ FetchUnits \/ FetchFallback \/ ProxyAnswers
    <3>1. CASE Refuse
      BY <3>1 DEF Refuse, Reply
    <3>2. ASSUME NEW next \in {"units", "fallback", "cache"}, Continue(next)
          PROVE  SeenInv'
      BY <3>2, SameRequest DEF Continue, See
    <3> QED
      BY <2>3, <3>1, <3>2, MarketSteps
  <2>4. CASE GetCampaigns
    BY <2>4 DEF GetCampaigns, Selected, Earning
  <2>5. CASE Respond \/ Disconnect
    BY <2>5 DEF Respond, Disconnect, Reply
  <2>6. CASE UNCHANGED vars
    BY <2>6, SameRequest DEF vars
  <2> QED
    BY <2>1, <2>2, <2>3, <2>4, <2>5, <2>6 DEF Next
<1> QED
  BY <1>1, <1>2, PTL DEF Spec

\* A response offers what the handler has selected, if anything.
LEMMA ResponseOffers ==
  ASSUME Next, pc = "respond", pc' = "idle"
  PROVE  Offered(response') \subseteq campaigns
<1>1. Respond
  BY MarketSteps DEF Next, CacheMoves, Arrive, GetCampaigns, Disconnect
<1> QED
  BY <1>1 DEF Respond, Reply, Offered, Answer

\* No response offers a campaign that was not eligible at some time after the
\* Market's last answer, however the cache moves while the handler waits.
THEOREM OffersStayCurrent == Spec => OffersAreCurrent
<1>1. SeenInv /\ [Next]_vars =>
        [pc = "respond" /\ pc' = "idle" => Offered(response') \subseteq seen.eligible]_vars
  BY ResponseOffers DEF SeenInv
<1> QED
  BY <1>1, SeenInvariance, PTL DEF Spec, OffersAreCurrent

\* A publisher that was at the limit all the time is offered only campaigns that it
\* earned from already, whatever the limit and however the cache moves.
THEOREM LimitIsKept == Spec => NoNewEarningsAtLimit
<1>1. SeenInv /\ [Next]_vars =>
        [pc = "respond" /\ pc' = "idle" /\ ~seen.below =>
           Offered(response') \subseteq seen.earning]_vars
  BY ResponseOffers DEF SeenInv
<1> QED
  BY <1>1, SeenInvariance, PTL DEF Spec, NoNewEarningsAtLimit
==============================================================================
