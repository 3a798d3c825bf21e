--------------------------- MODULE MCCampaignCache ---------------------------
(* Instances of CampaignCache for TLC. *)
EXTENDS CampaignCache

CONSTANTS h1, h2, c1, c2, refresher

OneRequest  == {h1, refresher}
TwoRequests == {h1, h2, refresher}
==============================================================================
