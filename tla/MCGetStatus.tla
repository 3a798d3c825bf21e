----------------------------- MODULE MCGetStatus -----------------------------
(* Instances of GetStatus for TLC. *)
EXTENDS GetStatus

\* Each validator hears of the other.
CrossLinks == {<<"leader", "follower">>, <<"follower", "leader">>}

\* So it does, and the leader's own heartbeats are kept, too.
ThreeLinks == CrossLinks \cup {<<"leader", "leader">>}
==============================================================================
