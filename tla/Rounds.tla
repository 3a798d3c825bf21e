------------------------------- MODULE Rounds -------------------------------
(***************************************************************************)
(* What spawn_fetch_campaigns (src/src/lib.rs) promises of its loop: one   *)
(* round at a time, chosen among the timers that are due, none of which    *)
(* waits for ever.  How long a round or a tick takes is left open.         *)
(***************************************************************************)

VARIABLES
  running,  \* the round in progress, or "none"
  due,      \* due[k]: a tick of the timer k waits to be served
  first     \* the timer that `select` polls first

vars == <<running, due, first>>

Kinds == {"new", "update"}
Other(k) == IF k = "new" THEN "update" ELSE "new"

\* The initial round is in progress; both timers tick as soon as they exist.
Init == running = "init" /\ due = [k \in Kinds |-> TRUE] /\ first = "new"

\* One or both deadlines pass.
Tick(ks) ==
  /\ running # "init"
  /\ due' = [k \in Kinds |-> due[k] \/ k \in ks]
  /\ UNCHANGED <<running, first>>

\* A round begins; its timer may have a second missed tick.
Begin(k) ==
  /\ running = "none"
  /\ due[k]
  /\ first = k \/ ~due[Other(k)]
  /\ running' = k
  /\ first' = IF first = k THEN Other(k) ELSE first
  /\ \E more \in BOOLEAN : due' = [due EXCEPT ![k] = more]

\* A round returns or is dropped.
End == running # "none" /\ running' = "none" /\ UNCHANGED <<due, first>>

Next == (\E ks \in SUBSET Kinds : Tick(ks)) \/ (\E k \in Kinds : Begin(k)) \/ End

Spec == Init /\ [][Next]_vars

\* No round lasts for ever, and the loop goes on when a timer is due.
FairSpec == Spec /\ WF_vars(End) /\ WF_vars(\E k \in Kinds : Begin(k))

\* A timer that is due is served, however often the other one is due.
Served == \A k \in Kinds : due[k] ~> running = k
=============================================================================
