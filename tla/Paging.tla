-------------------------------- MODULE Paging --------------------------------
(***************************************************************************)
(* How lists that span several pages are fetched while they change:        *)
(*   - from the Market by skip and limit, one page after the other, until  *)
(*     a page is not full: fetch_units and fetch_campaigns of              *)
(*     src/src/market.rs;                                                  *)
(*   - from a validator by page number, the first page and then all the    *)
(*     others at once: get_validator_channels of src/src/sentry_api.rs.    *)
(* The server answers each request from its list as it is then.            *)
(***************************************************************************)
EXTENDS Naturals, Sequences, SequencesExt

CONSTANTS Items,       \* ad units, campaigns or channels
          Limit,       \* items per page
          MaxChanges   \* bound: how often a list changes during a call

ASSUME ListsAssumption ==
  IsFiniteSet(Items) /\ Limit \in Nat \ {0} /\ MaxChanges \in Nat

VARIABLES
  listed,    \* the server's list
  changes,   \* how often it has changed during the call
  pc,        \* where the call stands
  from,      \* the server called, a market or a validator
  skip,      \* fetch_units, fetch_campaigns: items to skip
  pages,     \* get_validator_channels: pages requested and not yet answered
  got,       \* the items received
  steady,    \* history: items listed ever since the call began
  removed, inserted   \* history: items were removed, or added before the last one

server  == <<listed, changes>>
history == <<steady, removed, inserted>>
vars    == <<server, pc, from, skip, pages, got, history>>
------------------------------------------------------------------------------
TypeOK ==
  /\ listed \in Seq(Items)
  /\ changes \in 0..MaxChanges
  /\ pc \in {"idle", "market", "first", "rest", "done", "error"}
  /\ skip \in Nat
  /\ pages \in SUBSET Nat
  /\ pages # {} <=> pc = "rest"
  /\ from \in {"market", "validator"}
  /\ got \in Seq(Items)
  /\ steady \in SUBSET Items
  /\ removed \in BOOLEAN /\ inserted \in BOOLEAN

Init ==
  /\ \E S \in SUBSET Items : listed \in SetToSeqs(S)
  /\ changes = 0
  /\ pc = "idle" /\ from = "market"
  /\ skip = 0 /\ pages = {} /\ got = <<>>
  /\ steady = {} /\ removed = FALSE /\ inserted = FALSE
------------------------------------------------------------------------------
(* The server. *)

Changing ==
  /\ pc \in {"market", "first", "rest"}
  /\ changes < MaxChanges
  /\ changes' = changes + 1
  /\ UNCHANGED <<pc, from, skip, pages, got>>

\* An item expires, is archived or deleted.
Drop ==
  /\ Changing
  /\ \E i \in DOMAIN listed : /\ listed' = RemoveAt(listed, i)
                              /\ steady' = steady \ {listed[i]}
  /\ removed' = TRUE
  /\ UNCHANGED inserted

Add(item) ==
  /\ Changing
  /\ item \notin ToSet(listed)
  /\ \E i \in 1..(Len(listed) + 1) : /\ listed' = InsertAt(listed, i, item)
                                     /\ inserted' = (inserted \/ i <= Len(listed))
  /\ UNCHANGED <<steady, removed>>

\* The items of the list that a page starting behind the first n has.
PageBehind(n) == SubSeq(listed, n + 1, IF n + Limit < Len(listed) THEN n + Limit
                                       ELSE Len(listed))

\* total_pages: a last page that is not full counts.
TotalPages == (Len(listed) + Limit - 1) \div Limit
------------------------------------------------------------------------------
(* The calls. *)

Begin(called) ==
  /\ pc \in {"idle", "done", "error"}
  /\ from' = called
  /\ pc' = IF called = "market" THEN "market" ELSE "first"
  /\ changes' = 0 /\ skip' = 0 /\ pages' = {} /\ got' = <<>>
  /\ steady' = ToSet(listed) /\ removed' = FALSE /\ inserted' = FALSE
  /\ UNCHANGED listed

\* Mutant of MarketPage: a page is not full if it has less than its last item.
MarketPageEarly ==
  /\ pc = "market"
  /\ got' = got \o PageBehind(skip)
  /\ skip' = skip + Len(PageBehind(skip))
  /\ pc' = IF Len(PageBehind(skip)) <= Limit THEN "done" ELSE "market"
  /\ UNCHANGED <<server, from, pages, history>>

\* Mutant of MarketPage: the last item is asked for again.
MarketPageOverlap ==
  /\ pc = "market"
  /\ got' = got \o PageBehind(skip)
  /\ skip' = skip + Len(PageBehind(skip)) - (IF Len(PageBehind(skip)) = 0 THEN 0 ELSE 1)
  /\ pc' = IF Len(PageBehind(skip)) < Limit THEN "done" ELSE "market"
  /\ UNCHANGED <<server, from, pages, history>>

\* fetch_units_page, fetch_campaigns_page, and the loop around them.
MarketPage ==
  /\ pc = "market"
  /\ got' = got \o PageBehind(skip)
  /\ skip' = skip + Len(PageBehind(skip))
  /\ pc' = IF Len(PageBehind(skip)) < Limit THEN "done" ELSE "market"
  /\ UNCHANGED <<server, from, pages, history>>

\* Mutant of FirstPage: two pages are taken for one.
FirstPageOff ==
  /\ pc = "first"
  /\ got' = PageBehind(0)
  /\ IF TotalPages <= 2
       THEN pc' = "done" /\ UNCHANGED pages
       ELSE pc' = "rest" /\ pages' = 1..(TotalPages - 1)
  /\ UNCHANGED <<server, from, skip, history>>

\* The first page tells how many there are.
FirstPage ==
  /\ pc = "first"
  /\ got' = PageBehind(0)
  /\ IF TotalPages < 2
       THEN pc' = "done" /\ UNCHANGED pages
       ELSE pc' = "rest" /\ pages' = 1..(TotalPages - 1)
  /\ UNCHANGED <<server, from, skip, history>>

\* The other pages are answered in any order; their order in `got` is immaterial.
OtherPage(i) ==
  /\ pc = "rest"
  /\ i \in pages
  /\ got' = got \o PageBehind(i * Limit)
  /\ pages' = pages \ {i}
  /\ pc' = IF pages' = {} THEN "done" ELSE "rest"
  /\ UNCHANGED <<server, from, skip, history>>

\* Mutant of Fail: the other pages stay requested.
FailKeepsPages ==
  /\ pc \in {"market", "first", "rest"}
  /\ pc' = "error"
  /\ got' = <<>>
  /\ UNCHANGED <<server, from, skip, pages, history>>

\* One page fails, and the call with it; answers to the other pages are dropped.
Fail ==
  /\ pc \in {"market", "first", "rest"}
  /\ pc' = "error"
  /\ got' = <<>>
  /\ pages' = {}
  /\ UNCHANGED <<server, from, skip, history>>

Next ==
  \/ Drop \/ \E item \in Items : Add(item)
  \/ Begin("market") \/ Begin("validator")
  \/ MarketPage \/ FirstPage \/ (\E i \in pages : OtherPage(i)) \/ Fail

Spec == Init /\ [][Next]_vars
------------------------------------------------------------------------------
\* A call misses an item that was listed all the time only if the list shifted
\* under it: by a removal, or, for the pages of a validator, by an insertion.
\* Both orders of the pages, a list that ends with a full page and items appended
\* between two pages are no exceptions.
MissedOnlyByShift ==
  pc = "done" =>
    steady \subseteq ToSet(got) \/ removed \/ (inserted /\ from = "validator")

\* The members of S that occur in s do so once.
Once(S, s) == \A i, j \in DOMAIN s : s[i] \in S /\ s[i] = s[j] => i = j

\* A call receives an item that was listed all the time twice only if something was
\* inserted before it, or, for the pages of a validator, removed.
TwiceOnlyByShift ==
  pc = "done" =>
    \/ Once(steady, got)
    \/ inserted
    \/ removed /\ from = "validator"
==============================================================================
