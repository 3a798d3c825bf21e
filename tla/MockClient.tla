------------------------------ MODULE MockClient ------------------------------
(***************************************************************************)
(* The test double of the validator client (src/src/cache/mock_client.rs): *)
(* two lists of mocked results, an index into each, and calls that take    *)
(* the lock of their list.  Its clones share both, so the callers may be   *)
(* several tasks; a call that panics ends its test.                        *)
(***************************************************************************)
EXTENDS Naturals, Sequences, SequencesExt

CONSTANTS Results,     \* mocked results
          Sizes,       \* Sizes[r]: how many campaigns the result r is about
          MaxResults,  \* bound: results mocked for each kind of call
          MaxCalls     \* bound: calls made

VARIABLES
  mocked,  \* mocked[k]: the results to hand out to calls of the kind k
  index,   \* index[k]: the index stored with them
  handed,  \* history: handed[k]: the results handed out
  active,  \* how many campaigns the cache has that asks for an update
  failed   \* "none", or the assertion that failed

vars == <<mocked, index, handed, active, failed>>
------------------------------------------------------------------------------
Calls == {"collect", "update"}

Init ==
  /\ mocked \in [Calls -> SeqOf(Results, MaxResults)]
  /\ index = [k \in Calls |-> 0] /\ handed = [k \in Calls |-> <<>>]
  /\ active \in {Sizes[r] : r \in Results}
  /\ failed = "none"

\* `let (ref mut index, data) = (calls.0, &calls.1)` copies the index, so what is
\* incremented for the next call is the copy.
Advance(k) == UNCHANGED index

HandOut(k, r) ==
  /\ Advance(k)
  /\ handed' = [handed EXCEPT ![k] = Append(handed[k], r)]
  /\ UNCHANGED <<mocked, active, failed>>

Panic(why) == failed' = why /\ UNCHANGED <<mocked, index, handed, active>>

CallsLeft(k) == failed = "none" /\ Len(handed[k]) < MaxCalls

CollectCampaigns ==
  /\ CallsLeft("collect")
  /\ IF index["collect"] < Len(mocked["collect"])
       THEN HandOut("collect", mocked["collect"][index["collect"] + 1])
       ELSE Panic("too many calls")

FetchCampaignUpdates ==
  /\ CallsLeft("update")
  /\ IF index["update"] >= Len(mocked["update"]) THEN Panic("too many calls")
     ELSE LET r == mocked["update"][index["update"] + 1]
          IN  IF Sizes[r] = active THEN HandOut("update", r) ELSE Panic("wrong size")

\* Campaigns come and go in the cache under test.
CacheMoves ==
  /\ failed = "none"
  /\ active' \in {Sizes[r] : r \in Results} \ {active}
  /\ UNCHANGED <<mocked, index, handed, failed>>

Next == CollectCampaigns \/ FetchCampaignUpdates \/ CacheMoves

Spec == Init /\ [][Next]_vars
------------------------------------------------------------------------------
\* The comment in both calls: "increment the index for the next call", so that the
\* results are handed out one after the other.
ResultsInOrder ==
  \A k \in Calls : IsPrefix(handed[k], mocked[k])
==============================================================================
