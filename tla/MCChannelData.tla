---------------------------- MODULE MCChannelData ----------------------------
EXTENDS ChannelData
CONSTANTS leader, follower
==============================================================================
