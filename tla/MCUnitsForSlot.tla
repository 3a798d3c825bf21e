---------------------------- MODULE MCUnitsForSlot ----------------------------
(* Instances of UnitsForSlot for TLC. *)
EXTENDS UnitsForSlot

\* The publisher's own channel, one of each asset, one with its bounds reversed.
SomeChannels ==
  {[own |-> TRUE,  asset |-> "dai", min |-> 1, max |-> 2],
   [own |-> FALSE, asset |-> "dai", min |-> 0, max |-> 2],
   [own |-> FALSE, asset |-> "tst", min |-> 2, max |-> 1]}
==============================================================================
