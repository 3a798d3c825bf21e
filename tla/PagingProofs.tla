----------------------------- MODULE PagingProofs -----------------------------
(***************************************************************************)
(* Theorems about Paging, for lists and pages of any length and any number *)
(* of changes during a call.                                               *)
(***************************************************************************)
EXTENDS Paging, FiniteSetTheorems, SequenceTheorems, TLAPS

LEMMA Division ==
  ASSUME NEW n \in Nat, NEW d \in Nat \ {0}
  PROVE  /\ n \div d \in Nat
         /\ (n \div d) * d <= n
         /\ n < (n \div d) * d + d
  OBVIOUS

\* The list after a removal: what was behind the item moves up.
LEMMA Removal ==
  ASSUME NEW s \in Seq(Items), NEW i \in 1..Len(s)
  PROVE  /\ RemoveAt(s, i) \in Seq(Items)
         /\ Len(RemoveAt(s, i)) = Len(s) - 1
         /\ \A j \in 1..(Len(s) - 1) : RemoveAt(s, i)[j] = s[IF j < i THEN j ELSE j + 1]
<1> DEFINE a == SubSeq(s, 1, i - 1)
           b == SubSeq(s, i + 1, Len(s))
<1>1. /\ Len(s) \in Nat /\ i \in Nat /\ i >= 1 /\ i <= Len(s)
      /\ \A k \in 1..Len(s) : s[k] \in Items
  BY ElementOfSeq, LenProperties
<1>2. /\ a \in Seq(Items) /\ Len(a) = i - 1
      /\ \A k \in 1..(i - 1) : a[k] = s[k]
  <2>1. \A k \in 1..(i - 1) : s[k] \in Items
    BY <1>1
  <2>2. /\ a \in Seq(Items) /\ Len(a) = IF 1 <= i - 1 THEN i - 1 - 1 + 1 ELSE 0
        /\ \A k \in 1..(i - 1 - 1 + 1) : a[k] = s[1 + k - 1]
    BY <1>1, <2>1, SubSeqProperties
  <2> HIDE DEF a
  <2>3. Len(a) = i - 1
    BY <1>1, <2>2
  <2>4. ASSUME NEW k \in 1..(i - 1) PROVE a[k] = s[k]
    <3>1. k \in 1..(i - 1 - 1 + 1) /\ 1 + k - 1 = k
      BY <1>1
    <3> QED
      BY <2>2, <3>1
  <2> QED
    BY <2>2, <2>3, <2>4
<1>3. /\ b \in Seq(Items) /\ Len(b) = Len(s) - i
      /\ \A k \in 1..(Len(s) - i) : b[k] = s[i + k]
  <2>1. \A k \in (i + 1)..Len(s) : s[k] \in Items
    BY <1>1
  <2>2. /\ b \in Seq(Items) /\ Len(b) = IF i + 1 <= Len(s) THEN Len(s) - (i + 1) + 1 ELSE 0
        /\ \A k \in 1..(Len(s) - (i + 1) + 1) : b[k] = s[i + 1 + k - 1]
    BY <1>1, <2>1, SubSeqProperties
  <2> HIDE DEF b
  <2> QED
    BY <1>1, <2>2
<1>4. RemoveAt(s, i) = a \o b
  BY DEF RemoveAt
<1> HIDE DEF a, b
<1>5. /\ a \o b \in Seq(Items) /\ Len(a \o b) = Len(a) + Len(b)
      /\ \A k \in 1..(Len(a) + Len(b)) : (a \o b)[k] = IF k <= Len(a) THEN a[k] ELSE b[k - Len(a)]
  BY <1>2, <1>3, ConcatProperties
<1>6. ASSUME NEW j \in 1..(Len(s) - 1)
      PROVE  (a \o b)[j] = s[IF j < i THEN j ELSE j + 1]
  <2>1. CASE j < i
    BY <1>1, <1>2, <1>3, <1>5, <2>1
  <2>2. CASE ~(j < i)
    <3>1. (a \o b)[j] = b[j - (i - 1)] /\ j - (i - 1) \in 1..(Len(s) - i)
      BY <1>1, <1>2, <1>3, <1>5, <2>2
    <3>2. i + (j - (i - 1)) = j + 1
      BY <1>1
    <3>3. b[j - (i - 1)] = s[j + 1]
      BY <1>3, <3>1, <3>2
    <3> QED
      BY <2>2, <3>1, <3>3
  <2> QED
    BY <2>1, <2>2
<1> QED
  BY <1>1, <1>2, <1>3, <1>4, <1>5, <1>6

\* The list after an insertion: what was behind its place moves down.
LEMMA Insertion ==
  ASSUME NEW s \in Seq(Items), NEW i \in 1..(Len(s) + 1), NEW e \in Items
  PROVE  /\ InsertAt(s, i, e) \in Seq(Items)
         /\ Len(InsertAt(s, i, e)) = Len(s) + 1
         /\ InsertAt(s, i, e)[i] = e
         /\ \A j \in 1..(Len(s) + 1) :
              j # i => InsertAt(s, i, e)[j] = s[IF j < i THEN j ELSE j - 1]
<1> DEFINE a == SubSeq(s, 1, i - 1)
           b == SubSeq(s, i, Len(s))
           m == <<e>>
<1>1. /\ Len(s) \in Nat /\ i \in Nat /\ i >= 1 /\ i <= Len(s) + 1
      /\ \A k \in 1..Len(s) : s[k] \in Items
  BY ElementOfSeq, LenProperties
<1>2. /\ a \in Seq(Items) /\ Len(a) = i - 1
      /\ \A k \in 1..(i - 1) : a[k] = s[k]
  <2>1. \A k \in 1..(i - 1) : s[k] \in Items
    BY <1>1
  <2>2. /\ a \in Seq(Items) /\ Len(a) = IF 1 <= i - 1 THEN i - 1 - 1 + 1 ELSE 0
        /\ \A k \in 1..(i - 1 - 1 + 1) : a[k] = s[1 + k - 1]
    BY <1>1, <2>1, SubSeqProperties
  <2> HIDE DEF a
  <2> QED
    BY <1>1, <2>2
<1>3. /\ b \in Seq(Items) /\ Len(b) = Len(s) - i + 1
      /\ \A k \in 1..(Len(s) - i + 1) : b[k] = s[i + k - 1]
  <2>1. \A k \in i..Len(s) : s[k] \in Items
    BY <1>1
  <2>2. /\ b \in Seq(Items) /\ Len(b) = IF i <= Len(s) THEN Len(s) - i + 1 ELSE 0
        /\ \A k \in 1..(Len(s) - i + 1) : b[k] = s[i + k - 1]
    BY <1>1, <2>1, SubSeqProperties
  <2> HIDE DEF b
  <2> QED
    BY <1>1, <2>2
<1>4. InsertAt(s, i, e) = (a \o m) \o b
  BY DEF InsertAt
<1>5. m \in Seq(Items) /\ Len(m) = 1 /\ m[1] = e
  OBVIOUS
<1> HIDE DEF a, b, m
<1>6. /\ a \o m \in Seq(Items) /\ Len(a \o m) = i
      /\ \A k \in 1..(Len(a) + Len(m)) : (a \o m)[k] = IF k <= Len(a) THEN a[k] ELSE m[k - Len(a)]
  <2>1. /\ a \o m \in Seq(Items) /\ Len(a \o m) = Len(a) + Len(m)
        /\ \A k \in 1..(Len(a) + Len(m)) :
             (a \o m)[k] = IF k <= Len(a) THEN a[k] ELSE m[k - Len(a)]
    BY <1>2, <1>5, ConcatProperties
  <2>2. Len(a) + Len(m) = i
    BY <1>1, <1>2, <1>5
  <2> QED
    BY <2>1, <2>2
<1>7. /\ (a \o m)[i] = e
      /\ \A k \in 1..(i - 1) : (a \o m)[k] = s[k]
  BY <1>1, <1>2, <1>5, <1>6
<1> DEFINE am == a \o m
<1> HIDE DEF am
<1>8. /\ am \o b \in Seq(Items) /\ Len(am \o b) = Len(am) + Len(b)
      /\ \A k \in 1..(Len(am) + Len(b)) :
           (am \o b)[k] = IF k <= Len(am) THEN am[k] ELSE b[k - Len(am)]
  BY <1>3, <1>6, ConcatProperties DEF am
<1>9. Len(am) = i /\ am[i] = e /\ \A k \in 1..(i - 1) : am[k] = s[k]
  BY <1>6, <1>7 DEF am
<1>10. ASSUME NEW j \in 1..(Len(s) + 1), j # i
       PROVE  (am \o b)[j] = s[IF j < i THEN j ELSE j - 1]
  <2>1. CASE j < i
    BY <1>1, <1>3, <1>8, <1>9, <2>1
  <2>2. CASE ~(j < i)
    <3>1. (am \o b)[j] = b[j - i] /\ j - i \in 1..(Len(s) - i + 1)
      BY <1>1, <1>3, <1>8, <1>9, <1>10, <2>2
    <3>2. i + (j - i) - 1 = j - 1
      BY <1>1
    <3>3. b[j - i] = s[j - 1]
      BY <1>3, <3>1, <3>2
    <3> QED
      BY <2>2, <3>1, <3>3
  <2> QED
    BY <2>1, <2>2
<1>11. (am \o b)[i] = e
  BY <1>1, <1>3, <1>8, <1>9
<1> QED
  BY <1>1, <1>3, <1>4, <1>8, <1>9, <1>10, <1>11 DEF am

\* A page: at most Limit items, those behind the first n, as many as there are.
LEMMA PageItems ==
  ASSUME listed \in Seq(Items), NEW n \in Nat
  PROVE  /\ PageBehind(n) \in Seq(Items)
         /\ Len(PageBehind(n)) \in 0..Limit
         /\ \A k \in 1..Len(PageBehind(n)) : /\ n + k \in 1..Len(listed)
                                             /\ PageBehind(n)[k] = listed[n + k]
         /\ \A j \in 1..Len(listed) : n < j /\ j <= n + Limit => j - n \in 1..Len(PageBehind(n))
         /\ Len(PageBehind(n)) < Limit => Len(listed) <= n + Len(PageBehind(n))
<1> DEFINE hi == IF n + Limit < Len(listed) THEN n + Limit ELSE Len(listed)
           p  == SubSeq(listed, n + 1, hi)
<1>1. /\ Len(listed) \in Nat /\ Limit \in Nat \ {0} /\ hi \in Nat /\ hi <= Len(listed)
      /\ \A k \in (n + 1)..hi : listed[k] \in Items
  BY ElementOfSeq, LenProperties, ListsAssumption
<1>2. /\ p \in Seq(Items) /\ Len(p) = IF n + 1 <= hi THEN hi - (n + 1) + 1 ELSE 0
      /\ \A k \in 1..(hi - (n + 1) + 1) : p[k] = listed[n + 1 + k - 1]
  <2> HIDE DEF hi
  <2> QED
    BY <1>1, SubSeqProperties
<1>3. PageBehind(n) = p
  BY DEF PageBehind
<1>4. hi <= n + Limit /\ (hi = n + Limit \/ hi = Len(listed))
  BY <1>1
<1> HIDE DEF hi, p
<1>5. Len(p) = IF n <= hi THEN hi - n ELSE 0
  BY <1>1, <1>2
<1>6. ASSUME NEW k \in 1..Len(p) PROVE n + k \in 1..Len(listed) /\ p[k] = listed[n + k]
  <2>1. k \in 1..(hi - (n + 1) + 1) /\ n + 1 + k - 1 = n + k /\ n + k <= hi
    BY <1>1, <1>5
  <2> QED
    BY <1>1, <1>2, <2>1
<1>7. ASSUME NEW j \in 1..Len(listed), n < j, j <= n + Limit PROVE j - n \in 1..Len(p)
  BY <1>1, <1>4, <1>5, <1>7
<1> QED
  BY <1>1, <1>2, <1>3, <1>4, <1>5, <1>6, <1>7

\* What is received with a page: its items, each of S once if they had not come yet.
LEMMA Received ==
  ASSUME NEW s \in Seq(Items), NEW p \in Seq(Items)
  PROVE  /\ s \o p \in Seq(Items)
         /\ ToSet(s \o p) = ToSet(s) \cup ToSet(p)
         /\ \A S : Once(S, s) /\ Once(S, p) /\ S \cap ToSet(s) \cap ToSet(p) = {}
                     => Once(S, s \o p)
<1>1. /\ s \o p \in Seq(Items) /\ Len(s \o p) = Len(s) + Len(p)
      /\ \A k \in 1..(Len(s) + Len(p)) : (s \o p)[k] = IF k <= Len(s) THEN s[k] ELSE p[k - Len(s)]
  BY ConcatProperties
<1>2. /\ Len(s) \in Nat /\ Len(p) \in Nat /\ DOMAIN s = 1..Len(s) /\ DOMAIN p = 1..Len(p)
      /\ DOMAIN (s \o p) = 1..(Len(s) + Len(p))
  BY <1>1, LenProperties
<1> DEFINE sp == s \o p
<1> HIDE DEF sp
<1>3. \A k \in DOMAIN s : k \in DOMAIN sp /\ sp[k] = s[k]
  BY <1>1, <1>2 DEF sp
<1>4. \A k \in DOMAIN p : k + Len(s) \in DOMAIN sp /\ sp[k + Len(s)] = p[k]
  BY <1>1, <1>2 DEF sp
<1>5. ASSUME NEW k \in DOMAIN sp, k \notin DOMAIN s
      PROVE  k - Len(s) \in DOMAIN p /\ sp[k] = p[k - Len(s)]
  BY <1>1, <1>2, <1>5 DEF sp
<1>6. ToSet(sp) = ToSet(s) \cup ToSet(p)
  BY <1>3, <1>4, <1>5 DEF ToSet
<1>7. ASSUME NEW S, Once(S, s), Once(S, p), S \cap ToSet(s) \cap ToSet(p) = {}
      PROVE  Once(S, sp)
  <2> SUFFICES ASSUME NEW i \in DOMAIN sp, NEW j \in DOMAIN sp, sp[i] \in S, sp[i] = sp[j]
               PROVE  i = j
    BY DEF Once
  <2>1. CASE i \in DOMAIN s /\ j \in DOMAIN s
    BY <1>3, <1>7, <2>1 DEF Once
  <2>2. CASE i \notin DOMAIN s /\ j \notin DOMAIN s
    <3>1. i - Len(s) = j - Len(s)
      BY <1>5, <1>7, <2>2 DEF Once
    <3>2. i \in Int /\ j \in Int /\ Len(s) \in Int
      BY <1>2 DEF sp
    <3> QED
      BY <3>1, <3>2
  <2>3. CASE i \in DOMAIN s /\ j \notin DOMAIN s
    BY <1>3, <1>5, <1>7, <2>3 DEF ToSet
  <2>4. CASE i \notin DOMAIN s /\ j \in DOMAIN s
    BY <1>3, <1>5, <1>7, <2>4 DEF ToSet
  <2> QED
    BY <2>1, <2>2, <2>3, <2>4
<1> QED
  BY <1>1, <1>6, <1>7 DEF sp
------------------------------------------------------------------------------
(* Types. *)

LEMMA InitTypeOK == Init => TypeOK
<1> SUFFICES ASSUME Init PROVE TypeOK
  OBVIOUS
<1>1. listed \in Seq(Items)
  <2>1. PICK S \in SUBSET Items : listed \in SetToSeqs(S)
    BY DEF Init
  <2>2. Cardinality(S) \in Nat
    BY FS_Subset, FS_CardinalityType, ListsAssumption
  <2>3. listed \in [1..Cardinality(S) -> Items]
    BY <2>1 DEF SetToSeqs
  <2> QED
    BY <2>2, <2>3
<1>2. changes \in 0..MaxChanges /\ got \in Seq(Items)
  BY ListsAssumption, EmptySeq DEF Init
<1> QED
  BY <1>1, <1>2 DEF Init, TypeOK

LEMMA NextTypeOK == TypeOK /\ [Next]_vars => TypeOK'
<1> SUFFICES ASSUME TypeOK, [Next]_vars PROVE TypeOK'
  OBVIOUS
<1>1. CASE Drop
  <2>1. PICK i \in 1..Len(listed) : listed' = RemoveAt(listed, i) /\ steady' = steady \ {listed[i]}
    BY <1>1, LenProperties DEF Drop, TypeOK
  <2>2. listed' \in Seq(Items)
    BY <2>1, Removal DEF TypeOK
  <2>3. changes' \in 0..MaxChanges
    BY <1>1, ListsAssumption DEF Drop, Changing, TypeOK
  <2> QED
    BY <1>1, <2>1, <2>2, <2>3 DEF Drop, Changing, TypeOK
<1>2. ASSUME NEW item \in Items, Add(item) PROVE TypeOK'
  <2>1. PICK i \in 1..(Len(listed) + 1) : /\ listed' = InsertAt(listed, i, item)
                                          /\ inserted' = (inserted \/ i <= Len(listed))
    BY <1>2 DEF Add
  <2>2. listed' \in Seq(Items)
    BY <2>1, Insertion DEF TypeOK
  <2>3. changes' \in 0..MaxChanges
    BY <1>2, ListsAssumption DEF Add, Changing, TypeOK
  <2> QED
    BY <1>2, <2>1, <2>2, <2>3 DEF Add, Changing, TypeOK
<1>3. ASSUME NEW called \in {"market", "validator"}, Begin(called) PROVE TypeOK'
  <2>1. ToSet(listed) \in SUBSET Items
    BY LenProperties, ElementOfSeq DEF TypeOK, ToSet
  <2>2. /\ changes' = 0 /\ skip' = 0 /\ pages' = {} /\ got' = <<>> /\ listed' = listed
        /\ from' = called /\ pc' \in {"market", "first"}
        /\ steady' = ToSet(listed) /\ removed' = FALSE /\ inserted' = FALSE
    BY <1>3 DEF Begin
  <2>3. changes' \in 0..MaxChanges /\ got' \in Seq(Items)
    BY <2>2, ListsAssumption, EmptySeq
  <2> QED
    BY <2>1, <2>2, <2>3 DEF TypeOK
<1>4. CASE MarketPage
  <2>1. got' \in Seq(Items) /\ skip' \in Nat
    BY <1>4, PageItems, Received DEF MarketPage, TypeOK
  <2> QED
    BY <1>4, <2>1 DEF MarketPage, TypeOK, server, history
<1>5. CASE FirstPage
  <2>1. got' \in Seq(Items)
    BY <1>5, PageItems DEF FirstPage, TypeOK
  <2>2. TotalPages \in Nat
    <3>1. Len(listed) + Limit - 1 \in Nat
      BY LenProperties, ListsAssumption DEF TypeOK
    <3> QED
      BY <3>1, Division, ListsAssumption DEF TotalPages
  <2>3. ~(TotalPages < 2) => 1..(TotalPages - 1) # {} /\ 1..(TotalPages - 1) \subseteq Nat
    <3>1. ~(TotalPages < 2) => 1 \in 1..(TotalPages - 1)
      BY <2>2
    <3> QED
      BY <2>2, <3>1
  <2>4. /\ pages' # {} <=> pc' = "rest"
        /\ pages' \in SUBSET Nat
    BY <1>5, <2>2, <2>3 DEF FirstPage, TypeOK
  <2> QED
    BY <1>5, <2>1, <2>4 DEF FirstPage, TypeOK, server, history
<1>6. ASSUME NEW i \in pages, OtherPage(i) PROVE TypeOK'
  <2>1. i * Limit \in Nat
    BY ListsAssumption DEF TypeOK
  <2>2. got' \in Seq(Items)
    BY <1>6, <2>1, PageItems, Received DEF OtherPage, TypeOK
  <2> QED
    BY <1>6, <2>2 DEF OtherPage, TypeOK, server, history
<1>7. CASE Fail
  BY <1>7 DEF Fail, TypeOK, server, history
<1>8. CASE UNCHANGED vars
  BY <1>8 DEF vars, TypeOK, server, history
<1> QED
  BY <1>1, <1>2, <1>3, <1>4, <1>5, <1>6, <1>7, <1>8 DEF Next

\* Pages are outstanding in the last phase of a call to a validator only.
THEOREM TypeCorrect == Spec => []TypeOK
  BY InitTypeOK, NextTypeOK, PTL DEF Spec
------------------------------------------------------------------------------
(* What has been received and what is still to come. *)

\* The positions on page p.
OnPage(p, j) == p * Limit < j /\ j <= (p + 1) * Limit

\* The server lists every item once, and what has been listed all the time still is.
ListInv ==
  /\ \A i, j \in DOMAIN listed : listed[i] = listed[j] => i = j
  /\ steady \subseteq ToSet(listed)

\* skip divides the list: before it, everything has come unless something was
\* removed; behind it, nothing has come unless something was inserted.
MarketInv ==
  pc = "market" =>
    /\ from = "market"
    /\ ~removed => \A j \in DOMAIN listed :
                     listed[j] \in steady /\ j <= skip => listed[j] \in ToSet(got)
    /\ ~inserted => /\ \A j \in DOMAIN listed :
                         listed[j] \in steady \cap ToSet(got) => j <= skip
                    /\ Once(steady, got)

\* The pages that are outstanding are what has not come, unless the list has shifted.
ValidatorInv ==
  /\ pc \in {"first", "rest"} => from = "validator"
  /\ pc = "rest" /\ ~removed /\ ~inserted =>
       /\ \A j \in DOMAIN listed : listed[j] \in steady =>
            (listed[j] \in ToSet(got) <=> ~\E p \in pages : OnPage(p, j))
       /\ Once(steady, got)

IInv == ListInv /\ MarketInv /\ ValidatorInv /\ MissedOnlyByShift /\ TwiceOnlyByShift

LEMMA ListDomain ==
  ASSUME TypeOK
  PROVE  /\ Len(listed) \in Nat /\ DOMAIN listed = 1..Len(listed)
         /\ listed \in Seq(Items) /\ got \in Seq(Items)
         /\ \A j \in DOMAIN listed : listed[j] \in Items /\ listed[j] \in ToSet(listed)
         /\ \A x \in ToSet(listed) : \E j \in DOMAIN listed : x = listed[j]
  BY LenProperties, ElementOfSeq DEF TypeOK, ToSet

LEMMA OnceSubset ==
  ASSUME NEW S, NEW T \in SUBSET S, NEW s, Once(S, s)
  PROVE  Once(T, s)
  BY DEF Once

\* A page has each item once, and what it has is what is behind it in the list.
LEMMA PageOnce ==
  ASSUME TypeOK, ListInv, NEW n \in Nat
  PROVE  /\ \A S : Once(S, PageBehind(n))
         /\ \A j \in DOMAIN listed :
              listed[j] \in ToSet(PageBehind(n)) <=> n < j /\ j <= n + Limit
<1> DEFINE p == PageBehind(n)
<1>1. /\ p \in Seq(Items) /\ Len(p) \in 0..Limit /\ DOMAIN p = 1..Len(p)
      /\ \A k \in 1..Len(p) : n + k \in 1..Len(listed) /\ p[k] = listed[n + k]
      /\ \A j \in 1..Len(listed) : n < j /\ j <= n + Limit => j - n \in 1..Len(p)
  BY PageItems, LenProperties DEF TypeOK
<1> HIDE DEF p
<1>2. Limit \in Nat /\ Len(listed) \in Nat /\ DOMAIN listed = 1..Len(listed)
  BY ListDomain, ListsAssumption
<1>3. \A S : Once(S, p)
  <2> SUFFICES ASSUME NEW i \in 1..Len(p), NEW j \in 1..Len(p), p[i] = p[j] PROVE i = j
    BY <1>1 DEF Once
  <2>1. n + i = n + j
    BY <1>1, <1>2 DEF ListInv
  <2> QED
    BY <1>1, <2>1
<1>4. ASSUME NEW j \in DOMAIN listed, listed[j] \in ToSet(p)
      PROVE  n < j /\ j <= n + Limit
  <2>1. PICK k \in 1..Len(p) : p[k] = listed[j]
    BY <1>1, <1>4 DEF ToSet
  <2>2. n + k = j
    BY <1>1, <1>2, <2>1 DEF ListInv
  <2> QED
    BY <1>1, <1>2, <2>2
<1>5. ASSUME NEW j \in DOMAIN listed, n < j, j <= n + Limit
      PROVE  listed[j] \in ToSet(p)
  <2>1. j - n \in 1..Len(p) /\ n + (j - n) = j
    BY <1>1, <1>2, <1>5
  <2>2. p[j - n] = listed[j]
    BY <1>1, <2>1
  <2> QED
    BY <1>1, <2>1, <2>2 DEF ToSet
<1> QED
  BY <1>3, <1>4, <1>5 DEF p

LEMMA InitIInv == Init => IInv
<1> SUFFICES ASSUME Init PROVE IInv
  OBVIOUS
<1>1. PICK S \in SUBSET Items : listed \in SetToSeqs(S)
  BY DEF Init
<1>2. \A i, j \in DOMAIN listed : listed[i] = listed[j] => i = j
  BY <1>1 DEF SetToSeqs
<1> QED
  BY <1>2 DEF Init, IInv, ListInv, MarketInv, ValidatorInv, MissedOnlyByShift, TwiceOnlyByShift

\* A removal moves items up, and none of them over `skip`.
LEMMA DropStep == TypeOK /\ IInv /\ Drop => IInv'
<1> SUFFICES ASSUME TypeOK, IInv, Drop PROVE IInv'
  OBVIOUS
<1>1. PICK i \in 1..Len(listed) : listed' = RemoveAt(listed, i) /\ steady' = steady \ {listed[i]}
  BY ListDomain DEF Drop
<1>2. /\ listed' \in Seq(Items) /\ Len(listed') = Len(listed) - 1
      /\ DOMAIN listed' = 1..(Len(listed) - 1)
      /\ \A j \in 1..(Len(listed) - 1) : listed'[j] = listed[IF j < i THEN j ELSE j + 1]
  BY <1>1, ListDomain, Removal, LenProperties
<1> DEFINE at(j) == IF j < i THEN j ELSE j + 1
<1>3. \A j \in DOMAIN listed' : /\ at(j) \in DOMAIN listed /\ at(j) # i /\ at(j) >= j
                                /\ listed'[j] = listed[at(j)]
  BY <1>2, ListDomain
<1>4. \A j, k \in DOMAIN listed' : at(j) = at(k) => j = k
  BY <1>2, ListDomain
<1>5. \A k \in DOMAIN listed : k # i => \E j \in DOMAIN listed' : at(j) = k
  <2> TAKE k \in DOMAIN listed
  <2>1. CASE k < i
    BY <1>2, <2>1, ListDomain
  <2>2. CASE k > i
    <3>1. k - 1 \in DOMAIN listed' /\ at(k - 1) = k
      BY <1>2, <2>2, ListDomain
    <3> QED
      BY <3>1
  <2> QED
    BY <1>2, <2>1, <2>2, ListDomain
<1> HIDE DEF at
<1>6. ListInv'
  <2>1. \A j, k \in DOMAIN listed' : listed'[j] = listed'[k] => j = k
    BY <1>3, <1>4 DEF IInv, ListInv
  <2>2. steady' \subseteq ToSet(listed')
    <3> SUFFICES ASSUME NEW x \in steady, x # listed[i] PROVE x \in ToSet(listed')
      BY <1>1
    <3>1. PICK k \in DOMAIN listed : x = listed[k]
      BY ListDomain DEF IInv, ListInv
    <3>2. PICK j \in DOMAIN listed' : at(j) = k
      BY <1>5, <3>1
    <3> QED
      BY <1>3, <3>1, <3>2 DEF ToSet
  <2> QED
    BY <2>1, <2>2 DEF ListInv
<1>7. /\ UNCHANGED <<pc, from, skip, pages, got, inserted>> /\ removed' = TRUE
      /\ pc \in {"market", "first", "rest"} /\ steady' \subseteq steady
  BY <1>1 DEF Drop, Changing
<1>8. MarketInv'
  <2> SUFFICES ASSUME pc = "market", ~inserted
               PROVE  /\ \A j \in DOMAIN listed' : listed'[j] \in steady' \cap ToSet(got) => j <= skip
                      /\ Once(steady', got)
    BY <1>7 DEF MarketInv, IInv
  <2>1. Once(steady', got)
    BY <1>7, OnceSubset DEF IInv, MarketInv
  <2>2. ASSUME NEW j \in DOMAIN listed', listed'[j] \in steady' \cap ToSet(got)
        PROVE  j <= skip
    <3>1. at(j) <= skip /\ at(j) \in DOMAIN listed /\ at(j) >= j
      BY <1>3, <1>7, <2>2 DEF IInv, MarketInv
    <3> QED
      BY <1>2, <3>1, ListDomain DEF TypeOK
  <2> QED
    BY <2>1, <2>2
<1>9. ValidatorInv' /\ MissedOnlyByShift' /\ TwiceOnlyByShift'
  BY <1>7 DEF IInv, ValidatorInv, MissedOnlyByShift, TwiceOnlyByShift
<1> QED
  BY <1>6, <1>8, <1>9 DEF IInv

\* An insertion moves items down, and one at the end none at all.
LEMMA AddStep == ASSUME TypeOK, IInv, NEW item \in Items, Add(item) PROVE IInv'
<1>1. PICK i \in 1..(Len(listed) + 1) : /\ listed' = InsertAt(listed, i, item)
                                        /\ inserted' = (inserted \/ i <= Len(listed))
  BY DEF Add
<1>2. /\ listed' \in Seq(Items) /\ Len(listed') = Len(listed) + 1
      /\ DOMAIN listed' = 1..(Len(listed) + 1)
      /\ listed'[i] = item
      /\ \A j \in 1..(Len(listed) + 1) : j # i => listed'[j] = listed[IF j < i THEN j ELSE j - 1]
  <2>1. /\ InsertAt(listed, i, item) \in Seq(Items)
        /\ Len(InsertAt(listed, i, item)) = Len(listed) + 1
        /\ InsertAt(listed, i, item)[i] = item
        /\ \A j \in 1..(Len(listed) + 1) :
             j # i => InsertAt(listed, i, item)[j] = listed[IF j < i THEN j ELSE j - 1]
    BY ListDomain, Insertion
  <2>2. DOMAIN listed' = 1..Len(listed')
    BY <1>1, <2>1, LenProperties
  <2> QED
    BY <1>1, <2>1, <2>2
<1> DEFINE at(j) == IF j < i THEN j ELSE j - 1
<1>3. \A j \in DOMAIN listed' : j # i => /\ at(j) \in DOMAIN listed /\ at(j) <= j
                                         /\ listed'[j] = listed[at(j)]
  BY <1>2, ListDomain
<1>4. \A j, k \in DOMAIN listed' : j # i /\ k # i /\ at(j) = at(k) => j = k
  BY <1>2, ListDomain
<1>5. \A k \in DOMAIN listed : \E j \in DOMAIN listed' : j # i /\ at(j) = k
  <2> TAKE k \in DOMAIN listed
  <2>1. CASE k < i
    BY <1>2, <2>1, ListDomain
  <2>2. CASE ~(k < i)
    <3>1. k + 1 \in DOMAIN listed' /\ k + 1 # i /\ at(k + 1) = k
      BY <1>2, <2>2, ListDomain
    <3> QED
      BY <3>1
  <2> QED
    BY <2>1, <2>2
<1>6. i > Len(listed) => \A j \in DOMAIN listed' : j # i => at(j) = j
  BY <1>2, ListDomain
<1> HIDE DEF at
<1>7. item \notin ToSet(listed) /\ item \notin steady
  BY DEF Add, IInv, ListInv
<1>8. /\ UNCHANGED <<pc, from, skip, pages, got, removed, steady>>
      /\ pc \in {"market", "first", "rest"}
      /\ ~inserted' => ~inserted /\ i > Len(listed)
  <2>1. ~inserted' => ~inserted /\ i > Len(listed)
    <3>1. i <= Len(listed) \/ i > Len(listed)
      BY ListDomain
    <3> QED
      BY <1>1, <3>1
  <2> QED
    BY <2>1 DEF Add, Changing
\* Where the items that were listed all the time are now.
<1>9. \A j \in DOMAIN listed' : listed'[j] \in steady =>
        /\ j # i /\ at(j) \in DOMAIN listed /\ at(j) <= j /\ listed'[j] = listed[at(j)]
        /\ ~inserted' => at(j) = j
  BY <1>2, <1>3, <1>6, <1>7, <1>8
<1>10. ListInv'
  <2>1. \A j \in DOMAIN listed' : j # i => listed'[j] # item
    BY <1>3, <1>7, ListDomain
  <2>2. \A j, k \in DOMAIN listed' : listed'[j] = listed'[k] => j = k
    BY <1>2, <1>3, <1>4, <2>1 DEF IInv, ListInv
  <2>3. steady' \subseteq ToSet(listed')
    <3> SUFFICES ASSUME NEW x \in steady PROVE x \in ToSet(listed')
      BY <1>8
    <3>1. PICK k \in DOMAIN listed : x = listed[k]
      BY ListDomain DEF IInv, ListInv
    <3>2. PICK j \in DOMAIN listed' : j # i /\ at(j) = k
      BY <1>5
    <3> QED
      BY <1>3, <3>1, <3>2 DEF ToSet
  <2> QED
    BY <2>2, <2>3 DEF ListInv
<1>11. MarketInv'
  <2> SUFFICES ASSUME pc = "market" PROVE MarketInv'
    BY <1>8 DEF MarketInv
  <2>1. ASSUME ~removed, NEW j \in DOMAIN listed', listed'[j] \in steady, j <= skip
        PROVE  listed'[j] \in ToSet(got)
    <3>1. at(j) <= skip
      BY <1>2, <1>9, <2>1, ListDomain DEF TypeOK
    <3> QED
      BY <1>9, <2>1, <3>1 DEF IInv, MarketInv
  <2>2. ASSUME ~inserted', NEW j \in DOMAIN listed', listed'[j] \in steady \cap ToSet(got)
        PROVE  j <= skip
    BY <1>8, <1>9, <2>2 DEF IInv, MarketInv
  <2>3. from = "market" /\ (~inserted' => Once(steady, got))
    BY <1>8 DEF IInv, MarketInv
  <2> QED
    BY <1>8, <2>1, <2>2, <2>3 DEF MarketInv
<1>12. ValidatorInv'
  <2>1. ASSUME pc = "rest", ~removed, ~inserted', NEW j \in DOMAIN listed', listed'[j] \in steady
        PROVE  listed'[j] \in ToSet(got) <=> ~\E p \in pages : OnPage(p, j)
    BY <1>8, <1>9, <2>1 DEF IInv, ValidatorInv
  <2>2. /\ pc \in {"first", "rest"} => from = "validator"
        /\ pc = "rest" /\ ~removed /\ ~inserted' => Once(steady, got)
    BY <1>8 DEF IInv, ValidatorInv
  <2>3. \A p, j : OnPage(p, j)' <=> OnPage(p, j)
    BY DEF OnPage
  <2> QED
    BY <1>8, <2>1, <2>2, <2>3 DEF ValidatorInv, OnPage
<1>13. MissedOnlyByShift' /\ TwiceOnlyByShift'
  BY <1>8 DEF MissedOnlyByShift, TwiceOnlyByShift
<1> QED
  BY <1>10, <1>11, <1>12, <1>13 DEF IInv

LEMMA BeginStep ==
  ASSUME TypeOK, IInv, NEW called \in {"market", "validator"}, Begin(called) PROVE IInv'
<1>1. /\ from' = called /\ pc' = (IF called = "market" THEN "market" ELSE "first")
      /\ skip' = 0 /\ got' = <<>> /\ steady' = ToSet(listed) /\ listed' = listed
  BY DEF Begin
<1>2. ToSet(got') = {} /\ \A S : Once(S, got')
  BY <1>1 DEF ToSet, Once
<1>3. \A j \in DOMAIN listed : ~(j <= 0)
  BY ListDomain
<1> QED
  BY <1>1, <1>2, <1>3 DEF IInv, ListInv, MarketInv, ValidatorInv, MissedOnlyByShift,
                          TwiceOnlyByShift

\* A page of the market: what comes is what lies behind `skip`.
LEMMA MarketStep == ASSUME TypeOK, IInv, MarketPage PROVE IInv'
<1> DEFINE p == PageBehind(skip)
<1>1. /\ pc = "market" /\ from = "market" /\ UNCHANGED <<listed, from, steady, removed, inserted>>
      /\ got' = got \o p /\ skip' = skip + Len(p)
      /\ pc' = IF Len(p) < Limit THEN "done" ELSE "market"
  BY DEF MarketPage, server, history, IInv, MarketInv
<1>2. /\ p \in Seq(Items) /\ Len(p) \in 0..Limit /\ skip \in Nat /\ Limit \in Nat
      /\ Len(p) < Limit => Len(listed) <= skip + Len(p)
  BY PageItems, ListsAssumption DEF TypeOK
<1>3. /\ \A S : Once(S, p)
      /\ \A j \in DOMAIN listed : listed[j] \in ToSet(p) <=> skip < j /\ j <= skip + Limit
  BY PageOnce DEF IInv, TypeOK
\* A page that is not full has the end of the list.
<1>4. \A j \in DOMAIN listed :
        listed[j] \in ToSet(p) <=> skip < j /\ j <= skip + Len(p)
  <2> TAKE j \in DOMAIN listed
  <2>1. CASE Len(p) = Limit
    BY <1>3, <2>1
  <2>2. CASE Len(p) < Limit
    BY <1>2, <1>3, <2>2, ListDomain
  <2> QED
    BY <1>2, <2>1, <2>2
<1>5. ToSet(got') = ToSet(got) \cup ToSet(p)
  BY <1>1, <1>2, ListDomain, Received
<1> HIDE DEF p
<1>6. ASSUME ~removed, NEW j \in DOMAIN listed, listed[j] \in steady, j <= skip + Len(p)
      PROVE  listed[j] \in ToSet(got')
  <2>1. CASE j <= skip
    BY <1>1, <1>5, <1>6, <2>1 DEF IInv, MarketInv
  <2>2. CASE ~(j <= skip)
    BY <1>2, <1>4, <1>5, <1>6, <2>2, ListDomain
  <2> QED
    BY <2>1, <2>2
<1>7. ASSUME ~inserted
      PROVE  /\ Once(steady, got')
             /\ \A j \in DOMAIN listed : listed[j] \in steady \cap ToSet(got') => j <= skip + Len(p)
  <2>1. steady \cap ToSet(got) \cap ToSet(p) = {}
    <3> SUFFICES ASSUME NEW x \in steady, x \in ToSet(got), x \in ToSet(p) PROVE FALSE
      OBVIOUS
    <3>1. PICK j \in DOMAIN listed : x = listed[j]
      BY ListDomain DEF IInv, ListInv
    <3> QED
      BY <1>1, <1>2, <1>4, <1>7, <3>1, ListDomain DEF IInv, MarketInv
  <2>2. Once(steady, got')
    BY <1>1, <1>2, <1>3, <1>7, <2>1, ListDomain, Received DEF IInv, MarketInv
  <2>3. ASSUME NEW j \in DOMAIN listed, listed[j] \in steady \cap ToSet(got')
        PROVE  j <= skip + Len(p)
    BY <1>1, <1>2, <1>4, <1>5, <1>7, <2>3, ListDomain DEF IInv, MarketInv
  <2> QED
    BY <2>2, <2>3
<1>8. ListInv' /\ ValidatorInv'
  BY <1>1 DEF IInv, ListInv, ValidatorInv
<1>9. MarketInv' /\ TwiceOnlyByShift'
  BY <1>1, <1>6, <1>7 DEF MarketInv, TwiceOnlyByShift
<1>10. MissedOnlyByShift'
  <2> SUFFICES ASSUME Len(p) < Limit, ~removed, NEW x \in steady PROVE x \in ToSet(got')
    BY <1>1 DEF MissedOnlyByShift
  <2>1. PICK j \in DOMAIN listed : x = listed[j]
    BY ListDomain DEF IInv, ListInv
  <2> QED
    BY <1>2, <1>6, <2>1, ListDomain
<1> QED
  BY <1>8, <1>9, <1>10 DEF IInv

LEMMA Multiples ==
  ASSUME NEW a \in Nat, NEW b \in Nat, NEW d \in Nat, a <= b
  PROVE  a * d \in Nat /\ b * d \in Nat /\ a * d <= b * d /\ (a + 1) * d = a * d + d
<1>1. b - a \in Nat /\ (b - a) * d \in Nat /\ a * d \in Nat
  OBVIOUS
<1>2. b * d = a * d + (b - a) * d
  OBVIOUS
<1> QED
  BY <1>1, <1>2

\* A position is on one page only.
LEMMA OnePage ==
  ASSUME NEW p \in Nat, NEW q \in Nat, NEW j \in Nat, OnPage(p, j), OnPage(q, j)
  PROVE  p = q
<1> SUFFICES ASSUME NEW a \in Nat, NEW b \in Nat, OnPage(a, j), OnPage(b, j), a < b
             PROVE  FALSE
  OBVIOUS
<1>1. a + 1 <= b /\ a + 1 \in Nat /\ Limit \in Nat
  BY ListsAssumption
<1>2. (a + 1) * Limit \in Nat /\ b * Limit \in Nat /\ (a + 1) * Limit <= b * Limit
  BY <1>1, Multiples
<1> QED
  BY <1>2 DEF OnPage

\* The first page and those that total_pages tells of are the whole list.
LEMMA AllPages ==
  ASSUME TypeOK
  PROVE  /\ TotalPages \in Nat
         /\ \A j \in DOMAIN listed :
              j <= Limit <=> ~\E p \in 1..(TotalPages - 1) : OnPage(p, j)
<1> DEFINE T == TotalPages
<1>1. Len(listed) \in Nat /\ Limit \in Nat \ {0} /\ DOMAIN listed = 1..Len(listed)
  BY ListDomain, ListsAssumption
<1>2. /\ T \in Nat /\ T * Limit \in Nat
      /\ Len(listed) + Limit - 1 < T * Limit + Limit
  <2>1. Len(listed) + Limit - 1 \in Nat
    BY <1>1
  <2>2. T \in Nat /\ Len(listed) + Limit - 1 < T * Limit + Limit
    BY <1>1, <2>1, Division DEF TotalPages
  <2> HIDE DEF T
  <2>3. T * Limit \in Nat
    BY <1>1, <2>2
  <2> QED
    BY <2>2, <2>3
<1> HIDE DEF T
<1>3. ASSUME NEW j \in DOMAIN listed, NEW q \in 1..(T - 1), OnPage(q, j)
      PROVE  ~(j <= Limit)
  <2>1. q \in Nat /\ 1 <= q
    BY <1>2
  <2>2. 1 * Limit <= q * Limit /\ q * Limit \in Nat
    BY <1>1, <2>1, Multiples
  <2> QED
    BY <1>1, <1>3, <2>2 DEF OnPage
<1>4. ASSUME NEW j \in DOMAIN listed, ~(j <= Limit)
      PROVE  \E q \in 1..(T - 1) : OnPage(q, j)
  <2> DEFINE q == (j - 1) \div Limit
  <2>1. j - 1 \in Nat /\ j \in Nat /\ j <= Len(listed) /\ j - 1 >= Limit
    BY <1>1, <1>4
  <2>2. q \in Nat /\ q * Limit <= j - 1 /\ j - 1 < q * Limit + Limit
    BY <1>1, <2>1, Division
  <2> HIDE DEF q
  <2>3. q * Limit \in Nat /\ (q + 1) * Limit = q * Limit + Limit
    BY <1>1, <2>2, Multiples
  <2>4. OnPage(q, j)
    BY <1>1, <2>1, <2>2, <2>3 DEF OnPage
  <2>5. q # 0
    BY <1>1, <2>1, <2>2
  <2>6. q < T
    <3> SUFFICES ASSUME T <= q PROVE FALSE
      BY <1>2, <2>2
    <3>1. T * Limit <= q * Limit
      BY <1>1, <1>2, <2>2, Multiples
    <3> QED
      BY <1>1, <1>2, <2>1, <2>2, <2>3, <3>1
  <2>7. q \in 1..(T - 1)
    BY <1>2, <2>2, <2>5, <2>6
  <2> QED
    BY <2>4, <2>7
<1> QED
  BY <1>2, <1>3, <1>4 DEF T

LEMMA FirstStep == ASSUME TypeOK, IInv, FirstPage PROVE IInv'
<1> DEFINE p == PageBehind(0)
<1>1. /\ pc = "first" /\ from = "validator" /\ pages = {} /\ got' = p
      /\ UNCHANGED <<listed, from, steady, removed, inserted>>
      /\ \/ TotalPages < 2 /\ pc' = "done"
         \/ pc' = "rest" /\ pages' = 1..(TotalPages - 1)
  BY DEF FirstPage, server, history, TypeOK, IInv, ValidatorInv
<1>2. Limit \in Nat /\ 0 + Limit = Limit
  BY ListsAssumption
<1>3. /\ \A S : Once(S, p)
      /\ \A j \in DOMAIN listed : listed[j] \in ToSet(p) <=> j <= Limit
  <2>1. /\ \A S : Once(S, p)
        /\ \A j \in DOMAIN listed : listed[j] \in ToSet(p) <=> 0 < j /\ j <= 0 + Limit
    BY PageOnce DEF IInv
  <2> QED
    BY <1>2, <2>1, ListDomain
<1> HIDE DEF p
<1>4. \A j \in DOMAIN listed :
        listed[j] \in ToSet(p) <=> ~\E q \in 1..(TotalPages - 1) : OnPage(q, j)
  BY <1>3, AllPages
<1>5. ListInv' /\ MarketInv'
  BY <1>1 DEF IInv, ListInv, MarketInv
<1>6. ValidatorInv'
  BY <1>1, <1>3, <1>4 DEF ValidatorInv, OnPage
<1>7. MissedOnlyByShift'
  <2> SUFFICES ASSUME TotalPages < 2, NEW x \in steady PROVE x \in ToSet(p)
    BY <1>1 DEF MissedOnlyByShift
  <2>1. PICK j \in DOMAIN listed : x = listed[j]
    BY ListDomain DEF IInv, ListInv
  <2>2. 1..(TotalPages - 1) = {}
    BY AllPages
  <2> QED
    BY <1>4, <2>1, <2>2
<1>8. TwiceOnlyByShift'
  BY <1>1, <1>3 DEF TwiceOnlyByShift
<1> QED
  BY <1>5, <1>6, <1>7, <1>8 DEF IInv

\* Another page: as long as nothing shifts, it has the items that are on it.
LEMMA OtherStep == ASSUME TypeOK, IInv, NEW i \in pages, OtherPage(i) PROVE IInv'
<1> DEFINE p == PageBehind(i * Limit)
<1>1. /\ pc = "rest" /\ from = "validator" /\ got' = got \o p /\ pages' = pages \ {i}
      /\ UNCHANGED <<listed, from, steady, removed, inserted>>
      /\ pc' = IF pages' = {} THEN "done" ELSE "rest"
  BY DEF OtherPage, server, history, IInv, ValidatorInv
<1>2. i \in Nat /\ Limit \in Nat /\ i * Limit \in Nat /\ (i + 1) * Limit = i * Limit + Limit
  <2>1. i \in Nat /\ Limit \in Nat
    BY ListsAssumption DEF TypeOK
  <2> QED
    BY <2>1, Multiples
<1>3. /\ p \in Seq(Items) /\ \A S : Once(S, p)
      /\ \A j \in DOMAIN listed : listed[j] \in ToSet(p) <=> OnPage(i, j)
  <2>1. p \in Seq(Items)
    BY <1>2, PageItems DEF TypeOK
  <2>2. /\ \A S : Once(S, p)
        /\ \A j \in DOMAIN listed :
             listed[j] \in ToSet(p) <=> i * Limit < j /\ j <= i * Limit + Limit
    BY <1>2, PageOnce DEF IInv
  <2> QED
    BY <1>2, <2>1, <2>2 DEF OnPage
<1> HIDE DEF p
<1>4. ToSet(got') = ToSet(got) \cup ToSet(p)
  BY <1>1, <1>3, ListDomain, Received
<1>5. ASSUME ~removed, ~inserted
      PROVE  /\ Once(steady, got')
             /\ \A j \in DOMAIN listed : listed[j] \in steady =>
                  (listed[j] \in ToSet(got') <=> ~\E q \in pages' : OnPage(q, j))
  <2>1. /\ Once(steady, got)
        /\ \A j \in DOMAIN listed : listed[j] \in steady =>
             (listed[j] \in ToSet(got) <=> ~\E q \in pages : OnPage(q, j))
    BY <1>1, <1>5 DEF IInv, ValidatorInv
  <2>2. steady \cap ToSet(got) \cap ToSet(p) = {}
    <3> SUFFICES ASSUME NEW x \in steady, x \in ToSet(got), x \in ToSet(p) PROVE FALSE
      OBVIOUS
    <3>1. PICK j \in DOMAIN listed : x = listed[j]
      BY ListDomain DEF IInv, ListInv
    <3> QED
      BY <1>3, <2>1, <3>1
  <2>3. Once(steady, got')
    BY <1>1, <1>3, <2>1, <2>2, ListDomain, Received
  <2>4. ASSUME NEW j \in DOMAIN listed
        PROVE  (\E q \in pages : OnPage(q, j)) <=> OnPage(i, j) \/ \E q \in pages' : OnPage(q, j)
    BY <1>1
  <2>5. ASSUME NEW j \in DOMAIN listed, OnPage(i, j), NEW q \in pages', OnPage(q, j)
        PROVE  FALSE
    <3>1. q \in Nat /\ q # i /\ j \in Nat
      BY <1>1, ListDomain DEF TypeOK
    <3> QED
      BY <1>2, <2>5, <3>1, OnePage
  <2> QED
    BY <1>3, <1>4, <2>1, <2>3, <2>4, <2>5
<1>6. ListInv' /\ MarketInv'
  BY <1>1 DEF IInv, ListInv, MarketInv
<1>7. ValidatorInv'
  BY <1>1, <1>5 DEF ValidatorInv, OnPage
<1>8. MissedOnlyByShift'
  <2> SUFFICES ASSUME pages' = {}, ~removed, ~inserted, NEW x \in steady PROVE x \in ToSet(got')
    BY <1>1 DEF MissedOnlyByShift
  <2>1. PICK j \in DOMAIN listed : x = listed[j]
    BY ListDomain DEF IInv, ListInv
  <2> QED
    BY <1>5, <2>1
<1>9. TwiceOnlyByShift'
  BY <1>1, <1>5 DEF TwiceOnlyByShift
<1> QED
  BY <1>6, <1>7, <1>8, <1>9 DEF IInv

LEMMA NextIInv == TypeOK /\ IInv /\ [Next]_vars => IInv'
<1> SUFFICES ASSUME TypeOK, IInv, [Next]_vars PROVE IInv'
  OBVIOUS
<1>1. CASE Fail \/ UNCHANGED vars
  <2>1. /\ UNCHANGED <<listed, from, steady, removed, inserted, skip>>
        /\ pc' = "error" \/ UNCHANGED <<pc, got, pages>>
    BY <1>1 DEF Fail, vars, server, history
  <2> QED
    BY <2>1 DEF IInv, ListInv, MarketInv, ValidatorInv, MissedOnlyByShift, TwiceOnlyByShift, OnPage
<1>2. CASE Next
  BY <1>2, DropStep, AddStep, BeginStep, MarketStep, FirstStep, OtherStep, <1>1 DEF Next
<1> QED
  BY <1>1, <1>2

LEMMA Invariance == Spec => []IInv
  BY InitIInv, NextIInv, TypeCorrect, PTL DEF Spec

\* However long the lists and the pages are and whenever they change: what was listed
\* all the time is received unless the list has shifted.
THEOREM NothingMissed == Spec => []MissedOnlyByShift
<1>1. IInv => MissedOnlyByShift
  BY DEF IInv
<1> QED
  BY <1>1, Invariance, PTL

\* Nor is it received twice.
THEOREM NothingTwice == Spec => []TwiceOnlyByShift
<1>1. IInv => TwiceOnlyByShift
  BY DEF IInv
<1> QED
  BY <1>1, Invariance, PTL
==============================================================================
