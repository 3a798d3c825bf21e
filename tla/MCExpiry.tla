------------------------------- MODULE MCExpiry -------------------------------
EXTENDS Expiry

CrossLinks == {<<"leader", "follower">>, <<"follower", "leader">>}
==============================================================================
