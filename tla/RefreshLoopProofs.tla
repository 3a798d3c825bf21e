-------------------------- MODULE RefreshLoopProofs --------------------------
(***************************************************************************)
(* Theorems about RefreshLoop, for any periods and timeouts, any number of *)
(* channels and validators, whichever of them hang.                        *)
(***************************************************************************)
EXTENDS RefreshLoop, FiniteSetTheorems, TLAPS

\* A channel has at most two validators that list it.
LEMMA FewListings ==
  ASSUME NEW c \in Channels, NEW S
  PROVE  Cardinality(ValidatorsOf(c) \ S) \in 0..2
<1> DEFINE V == ValidatorsOf(c)
<1>1. IsFiniteSet(V) /\ Cardinality(V) <= 2 /\ Cardinality(V) \in Nat
  <2>1. IsFiniteSet({Leader[c]}) /\ Cardinality({Leader[c]}) = 1
    BY FS_Singleton
  <2>2. V = {Leader[c]} \cup {Follower[c]}
    BY DEF ValidatorsOf
  <2>3. /\ IsFiniteSet({Leader[c]} \cup {Follower[c]})
        /\ \/ Cardinality({Leader[c]} \cup {Follower[c]}) = Cardinality({Leader[c]})
           \/ Cardinality({Leader[c]} \cup {Follower[c]}) = Cardinality({Leader[c]}) + 1
    BY <2>1, FS_AddElement
  <2> QED
    BY <2>1, <2>2, <2>3
<1>2. V \ S \subseteq V
  OBVIOUS
<1>3. IsFiniteSet(V \ S) /\ Cardinality(V \ S) <= Cardinality(V)
  BY <1>1, <1>2, FS_Subset
<1>4. Cardinality(V \ S) \in Nat
  BY <1>3, FS_CardinalityType
<1> QED
  BY <1>1, <1>3, <1>4

\* What a listing may name at most.
LEMMA Listed ==
  ASSUME NEW n \in 0..2
  PROVE  Repeats * n \in Nat /\ Repeats * n <= 2 * Repeats
<1>1. n = 0 \/ n = 1 \/ n = 2
  OBVIOUS
<1> QED
  BY <1>1, RepeatsAssumption

LEMMA InitTypeOK == Init => TypeOK
<1> SUFFICES ASSUME Init PROVE TypeOK
  OBVIOUS
<1> QED
  BY RepeatsAssumption DEF Init, TypeOK, NoCalls, Kinds, Bounded

\* What a round leaves behind when it ends.
LEMMA EndRoundTypes ==
  ASSUME TypeOK, EndRound, cached' \in SUBSET created'
  PROVE  TypeOK'
BY RepeatsAssumption DEF TypeOK, EndRound, NoCalls, world, Kinds

LEMMA NextTypeOK == TypeOK /\ [Next]_vars => TypeOK'
<1> SUFFICES ASSUME TypeOK, [Next]_vars PROVE TypeOK'
  OBVIOUS
<1> USE DurationsAssumption, ValidatorsAssumption, RepeatsAssumption
<1> USE DEF TypeOK, world, progress, results
<1>1. ASSUME NEW c \in Channels, Create(c) \/ Finish(c) PROVE TypeOK'
  BY <1>1 DEF Create, Finish, Bounded, Deadline
<1>2. ASSUME NEW v \in Validators, Hang(v) PROVE TypeOK'
  BY <1>2 DEF Hang, Bounded, Deadline
<1>3. CASE Tick
  <2>1. late' \in [Kinds -> Int]
    BY <1>3 DEF Tick
  <2>2. CASE pc = "select"
    BY <1>3, <2>1, <2>2 DEF Tick, Bounded, Deadline
  <2>3. CASE pc # "select"
    <3>1. elapsed' = elapsed + 1 /\ wait' = wait + 1
      BY <1>3, <2>3 DEF Tick
    <3>2. elapsed' \in Nat /\ wait' \in 0..elapsed'
      BY <3>1
    <3>3. Bounded' => elapsed' <= Deadline(round)'
      BY <1>3, <2>3, <3>1 DEF Tick, Bounded, Deadline, Kinds
    <3> QED
      BY <1>3, <2>1, <2>3, <3>2, <3>3 DEF Tick
  <2> QED
    BY <2>2, <2>3
<1>4. ASSUME NEW k \in Kinds, Yield(k)
      PROVE  late' \in [Kinds -> Int] /\ first' \in Kinds /\ round' \in Kinds
  <2>1. settings.period[k] \in Nat
    OBVIOUS
  <2>2. late' \in [Kinds -> Int]
    BY <1>4, <2>1 DEF Yield
  <2>3. first' \in Kinds /\ round' \in Kinds
    BY <1>4 DEF Yield, Other, Kinds
  <2> QED
    BY <2>2, <2>3
<1>5. CASE StartNew
  <2>1. elapsed = 0 /\ settings.timeout["new"] \in Nat /\ settings' = settings
    BY <1>5 DEF StartNew, Yield, Kinds
  <2> QED
    BY <1>4, <1>5, <2>1 DEF StartNew, Yield, Kinds, Deadline
<1>6. CASE StartUpdate
  <2>1. elapsed = 0 /\ settings.timeout["update"] \in Nat /\ settings' = settings
    BY <1>6 DEF StartUpdate, Yield, Kinds
  <2> QED
    BY <1>4, <1>6, <2>1 DEF StartUpdate, Yield, Kinds, Deadline
<1>7. CASE TimeOut
  BY <1>7, EndRoundTypes DEF TimeOut, EndRound
<1>8. CASE ListChannels
  <2>1. PICK listed \in [Channels -> 0..2 * Repeats] :
               (\A c \in Channels : listed[c] \in Listings(c)) /\ todo' = listed
    BY <1>8 DEF ListChannels
  <2>2. ASSUME NEW c \in Channels \ created PROVE todo'[c] = 0
    <3>1. todo'[c] \in 0..0
      BY <2>1 DEF Listings
    <3> QED
      BY <3>1
  <2> QED
    BY <1>8, <2>1, <2>2 DEF ListChannels, Bounded, Deadline
<1>9. ASSUME NEW c \in Channels, Call(c) PROVE TypeOK'
  <2>1. c \in created /\ todo' \in [Channels -> 0..2 * Repeats]
    BY <1>9 DEF Call
  <2>2. call' \in [ch : created', n : 1..3]
    BY <1>9, <2>1 DEF Call
  <2> QED
    BY <1>9, <2>1, <2>2 DEF Call, Bounded, Deadline
<1>10. CASE Answer
  <2>1. call \in [ch : created, n : 1..3]
    BY <1>10 DEF Answer
  <2>2. call' \in [ch : created, n : 1..3] \cup {NoCall}
    BY <1>10, <2>1 DEF Answer
  <2>3. got' \in SUBSET created /\ gone' \in SUBSET ended
    BY <1>10, <2>1 DEF Answer, FindsEnd
  <2> QED
    BY <1>10, <2>2, <2>3 DEF Answer, Bounded, Deadline
<1>11. CASE Commit
  <2>1. cached' \in SUBSET created'
    BY <1>11 DEF Commit, EndRound
  <2> QED
    BY <1>11, <2>1, EndRoundTypes DEF Commit
<1>12. CASE UNCHANGED vars
  BY <1>12 DEF vars, Bounded, Deadline
<1> QED
  BY <1>1, <1>2, <1>3, <1>5, <1>6, <1>7, <1>8, <1>9, <1>10, <1>11, <1>12 DEF Next, Task

\* Every variable keeps its type, no round but the initial one outlives its timeout,
\* and nothing of a round that was dropped is left to the next one.
THEOREM TypeCorrect == Spec => []TypeOK
<1> QED
  BY InitTypeOK, NextTypeOK, PTL DEF Spec
------------------------------------------------------------------------------
Running == IF pc = "select" THEN "none" ELSE round
Due     == [k \in Kinds |-> late[k] >= 0]

\* How the deadlines that pass or are served show in Rounds.
LEMMA DueSteps ==
  ASSUME TypeOK
  PROVE  /\ (\A k \in Kinds : late'[k] >= late[k]) /\ late' \in [Kinds -> Int]
              => \E ks \in SUBSET Kinds : Due' = [k \in Kinds |-> Due[k] \/ k \in ks]
         /\ \A k \in Kinds : late' = [late EXCEPT ![k] = late'[k]]
              => \E more \in BOOLEAN : Due' = [Due EXCEPT ![k] = more]
<1>1. ASSUME \A k \in Kinds : late'[k] >= late[k], late' \in [Kinds -> Int]
      PROVE  \E ks \in SUBSET Kinds : Due' = [k \in Kinds |-> Due[k] \/ k \in ks]
  <2> DEFINE ks == {k \in Kinds : late'[k] >= 0}
  <2>1. \A k \in Kinds : late'[k] >= 0 <=> (late[k] >= 0 \/ k \in ks)
    BY <1>1 DEF TypeOK
  <2> HIDE DEF ks
  <2>2. ASSUME NEW k \in Kinds PROVE (late'[k] >= 0) = (late[k] >= 0 \/ k \in ks)
    <3>1. late'[k] >= 0 <=> (late[k] >= 0 \/ k \in ks)
      BY <2>1
    <3> QED
      BY ONLY <3>1
  <2>3. Due' = [k \in Kinds |-> late[k] >= 0 \/ k \in ks]
    BY <2>2, Zenon DEF Due
  <2>4. Due' = [k \in Kinds |-> Due[k] \/ k \in ks]
    BY <2>3, Zenon DEF Due
  <2>5. ks \in SUBSET Kinds
    BY DEF ks
  <2> QED
    BY <2>4, <2>5
<1>2. ASSUME NEW k \in Kinds, late' = [late EXCEPT ![k] = late'[k]]
      PROVE  \E more \in BOOLEAN : Due' = [Due EXCEPT ![k] = more]
  <2>1. \A j \in Kinds : j # k => late'[j] = late[j]
    BY <1>2 DEF TypeOK
  <2>2. Due' = [Due EXCEPT ![k] = (late'[k] >= 0)]
    BY <2>1, Zenon DEF Due
  <2>3. (late'[k] >= 0) \in BOOLEAN
    OBVIOUS
  <2> QED
    BY <2>2, <2>3, Zenon
<1> QED
  BY <1>1, <1>2

\* Every step of the loop is a step of Rounds or leaves its variables alone: the
\* intervals take turns and one round follows the other, for any durations.
THEOREM LoopTakesTurns == Spec => Loop!Spec
<1>1. Init => Loop!Init
  <2> SUFFICES ASSUME Init PROVE Loop!Init
    OBVIOUS
  <2>1. \A k \in Kinds : late[k] >= 0
    BY DEF Init
  <2>2. Due = [k \in Kinds |-> TRUE]
    BY <2>1, Zenon DEF Due
  <2> QED
    BY <2>2 DEF Init, Loop!Init, Kinds, Loop!Kinds, Due
<1>2. TypeOK /\ [Next]_vars => [Loop!Next]_(Loop!vars)
  <2> SUFFICES ASSUME TypeOK, [Next]_vars
      PROVE  Loop!Next \/ UNCHANGED Loop!vars
    OBVIOUS
  <2>0. Kinds = Loop!Kinds
    BY DEF Kinds, Loop!Kinds
  <2>1. CASE Tick
    <3>1. CASE UNCHANGED late
      BY <2>1, <3>1 DEF Tick, Loop!vars
    <3>2. CASE pc = "select" \/ Bounded
      <4>1. /\ late' = [k \in Kinds |-> late[k] + 1]
            /\ UNCHANGED <<pc, first, round>>
        BY <2>1, <3>2 DEF Tick
      <4>2. (\A k \in Kinds : late'[k] >= late[k]) /\ late' \in [Kinds -> Int]
        BY <4>1 DEF TypeOK
      <4>3. PICK ks \in SUBSET Kinds : Due' = [k \in Kinds |-> Due[k] \/ k \in ks]
        BY <4>2, DueSteps
      <4>4. Running # "init" /\ UNCHANGED <<Running, first>>
        BY <3>2, <4>1 DEF Bounded, Running
      <4>5. Loop!Tick(ks)
        BY <4>3, <4>4, <2>0, Zenon DEF Loop!Tick, Due, Running
      <4> QED
        BY <4>5, <2>0 DEF Loop!Next
    <3>3. ~(pc = "select" \/ Bounded) => UNCHANGED late
      BY <2>1 DEF Tick
    <3> QED
      BY <3>1, <3>2, <3>3
  <2>2. ASSUME NEW k \in Kinds, Yield(k), pc' # "select" PROVE Loop!Next
    <3>1. PICK more \in BOOLEAN : Due' = [Due EXCEPT ![k] = more]
      <4>1. late' = [late EXCEPT ![k] = late'[k]]
        BY <2>2 DEF Yield, TypeOK
      <4> QED
        BY <4>1, DueSteps
    <3>2. Other(k) \in Kinds /\ Other(k) = Loop!Other(k)
      BY <2>2 DEF Other, Loop!Other, Kinds
    <3>3. late[Other(k)] < 0 => ~(late[Other(k)] >= 0)
      BY <3>2 DEF TypeOK
    <3>4. Due[k] /\ (first = k \/ ~Due[Other(k)])
      BY <2>2, <3>2, <3>3, Zenon DEF Yield, Due
    <3>5. /\ Running = "none" /\ Running' = k
          /\ first' = IF first = k THEN Other(k) ELSE first
      BY <2>2 DEF Yield, Running
    <3>6. Loop!Begin(k)
      BY <3>1, <3>2, <3>4, <3>5, Zenon DEF Loop!Begin, Running, Due
    <3> QED
      BY <3>6, <2>0, <2>2 DEF Loop!Next
  <2>3. CASE TimeOut \/ Commit
    <3>1. Loop!End
      BY <2>3 DEF Loop!End, TimeOut, Commit, EndRound, Kinds, TypeOK
    <3> QED
      BY <3>1 DEF Loop!Next
  <2>4. CASE \/ ListChannels \/ Answer \/ UNCHANGED vars
             \/ \E c \in Channels : Call(c) \/ Create(c) \/ Finish(c)
             \/ \E v \in Validators : Hang(v)
    BY <2>4 DEF ListChannels, Answer, Call, Create, Finish, Hang, vars, Loop!vars
  <2> QED
    BY <2>1, <2>2, <2>3, <2>4 DEF Next, Task, StartNew, StartUpdate, Kinds
<1> QED
  BY <1>1, <1>2, TypeCorrect, PTL DEF Spec, Loop!Spec
------------------------------------------------------------------------------
(* Missed ticks. *)

\* What the rounds of a kind cost in a product of the two periods.
Weight(k) == settings.timeout[k] * settings.period[Other(k)]
Horizon   == settings.period["new"] * settings.period["update"]

\* How long the round in progress may still last.
Left == IF pc = "select" \/ ~Bounded THEN 0 ELSE Deadline(round) - elapsed

\* The work that waits for the task: rounds that are due, as far as they are late,
\* and the rest of the one in progress, scaled by Horizon.
Backlog == late["new"] * Weight("new") + late["update"] * Weight("update") + Left * Horizon

\* There is no backlog whenever the task is free, so that not both intervals are
\* late when a round begins; from then on their lateness grows with the round.
LoadInv ==
  /\ Backlog <= 0
  /\ \A k \in Kinds : late[k] <= settings.timeout[Other(k)]
  /\ pc # "select" /\ Bounded =>
       /\ late[Other(round)] <= elapsed
       /\ late[round] <= elapsed + settings.timeout[Other(round)] - settings.period[round]

\* The settings and the two deadlines in numbers.
LEMMA LoadTypes ==
  ASSUME TypeOK, LightLoad
  PROVE  /\ Weight("new") \in Nat /\ Weight("update") \in Nat /\ Horizon \in Nat \ {0}
         /\ Weight("new") + Weight("update") <= Horizon
         /\ \A k \in Kinds : /\ settings.timeout[k] \in Nat \ {0}
                            /\ settings.period[k] \in Nat \ {0}
                            /\ settings.timeout[k] <= settings.period[k]
                            /\ settings.timeout[k] <= settings.period[Other(k)]
                            /\ settings.period[k] * Weight(k) = settings.timeout[k] * Horizon
                            /\ Weight(k) > 0 /\ late[k] \in Int /\ Other(k) \in Kinds
<1> DEFINE d == settings.timeout["update"]
           f == settings.timeout["new"]
           P == settings.period["update"]
           Q == settings.period["new"]
<1>1. /\ d \in Nat \ {0} /\ f \in Nat \ {0} /\ P \in Nat \ {0} /\ Q \in Nat \ {0}
      /\ f * P + d * Q <= Q * P
      /\ f <= P /\ d <= Q
  BY DurationsAssumption DEF TypeOK, LightLoad, Kinds, Other
<1>2. Weight("new") = f * P /\ Weight("update") = d * Q /\ Horizon = Q * P
  BY DEF Weight, Horizon, Other
<1> HIDE DEF d, f, P, Q
<1>3. f * P \in Nat \ {0} /\ d * Q \in Nat \ {0} /\ Q * P \in Nat \ {0}
  BY <1>1
<1>4. d <= P /\ f <= Q
  <2>1. d * Q <= P * Q /\ f * P <= Q * P
    BY <1>1, <1>3
  <2> QED
    BY <1>1, <2>1
<1>5. P * (d * Q) = d * (Q * P) /\ Q * (f * P) = f * (Q * P)
  BY <1>1
<1>6. \A k \in Kinds : late[k] \in Int /\ Other(k) \in Kinds
  BY DEF TypeOK, Kinds, Other
<1> QED
  BY <1>1, <1>2, <1>3, <1>4, <1>5, <1>6 DEF d, f, P, Q, Kinds, Other

\* Time passes: a busy task works off at least what becomes due.
LEMMA LoadTicks ==
  ASSUME NEW x \in Int, NEW y \in Int, NEW l \in Int, NEW a \in Nat, NEW b \in Nat, NEW c \in Nat,
         a + b <= c, x * a + y * b + l * c <= 0
  PROVE  (x + 1) * a + (y + 1) * b + (l - 1) * c <= 0
OBVIOUS

\* A free task has no backlog of either kind.
LEMMA NothingWaits ==
  ASSUME NEW x \in Int, NEW y \in Int, NEW a \in Nat \ {0}, NEW b \in Nat \ {0}
  PROVE  /\ x <= 0 /\ y <= 0 => x * a + y * b <= 0
         /\ x >= 0 /\ x * a + y * b <= 0 => y <= 0
<1>1. ASSUME x <= 0, y <= 0 PROVE x * a + y * b <= 0
  <2>1. x * a <= 0 /\ y * b <= 0
    BY <1>1
  <2> QED
    BY <2>1
<1>2. ASSUME x >= 0, x * a + y * b <= 0 PROVE y <= 0
  <2>1. x * a >= 0 /\ x * a \in Int /\ y * b \in Int
    BY <1>2
  <2>2. y * b <= 0
    BY <1>2, <2>1
  <2> QED
    BY <2>2
<1> QED
  BY <1>1, <1>2

LEMMA LoadInit == Init /\ TypeOK /\ LightLoad => LoadInv
<1> SUFFICES ASSUME Init, TypeOK, LightLoad PROVE LoadInv
  OBVIOUS
<1>1. late["new"] = 0 /\ late["update"] = 0 /\ Left = 0 /\ ~Bounded
  BY DEF Init, Left, Bounded, Kinds
<1>2. Backlog = 0
  BY <1>1, LoadTypes DEF Backlog
<1>3. \A k \in Kinds : late[k] <= settings.timeout[Other(k)]
  BY <1>1, LoadTypes DEF Kinds
<1> QED
  BY <1>1, <1>2, <1>3 DEF LoadInv

\* The numbers stay the same, and so does what is made of them.
LEMMA LoadStays ==
  ASSUME [Next]_vars
  PROVE  /\ settings' = settings /\ Weight("new")' = Weight("new")
         /\ Weight("update")' = Weight("update") /\ Horizon' = Horizon
<1>1. settings' = settings
  BY DEF Next, Task, Tick, StartNew, StartUpdate, TimeOut, ListChannels, Call, Answer, Commit,
         Create, Finish, Hang, EndRound, vars, world
<1> QED
  BY <1>1 DEF Weight, Horizon

LEMMA LoadStep == LightLoad /\ TypeOK /\ TypeOK' /\ LoadInv /\ [Next]_vars => LoadInv'
<1> SUFFICES ASSUME LightLoad, TypeOK, TypeOK', LoadInv, [Next]_vars PROVE LoadInv'
  OBVIOUS
<1> DEFINE a == Weight("new")
           b == Weight("update")
           x == late["new"]
           y == late["update"]
<1>t. /\ a \in Nat \ {0} /\ b \in Nat \ {0} /\ Horizon \in Nat \ {0} /\ a + b <= Horizon
      /\ x \in Int /\ y \in Int /\ x' \in Int /\ y' \in Int
      /\ UNCHANGED <<a, b, Horizon, settings>>
      /\ Left \in Int /\ Left >= 0
  <2>1. Left \in Int /\ Left >= 0
    BY LoadTypes DEF Left, TypeOK, Deadline, Bounded, Kinds
  <2>2. late' \in [Kinds -> Int] /\ late \in [Kinds -> Int]
    BY DEF TypeOK
  <2> QED
    BY <2>1, <2>2, LoadTypes, LoadStays DEF Kinds
<1>b. Backlog = x * a + y * b + Left * Horizon /\ x * a + y * b + Left * Horizon <= 0
  BY DEF Backlog, LoadInv
<1>b2. Backlog' = x' * a + y' * b + Left' * Horizon
  BY <1>t DEF Backlog
<1> HIDE DEF a, b
<1>1. CASE Tick
  <2>1. CASE pc = "select"
    <3>1. /\ x < 0 /\ y < 0 /\ x' = x + 1 /\ y' = y + 1 /\ pc' = "select" /\ Left' = 0
      BY <1>1, <2>1 DEF Tick, Left, Kinds
    <3>2. x' * a + y' * b <= 0
      <4>1. x' <= 0 /\ y' <= 0
        BY <1>t, <3>1
      <4> HIDE DEF x, y
      <4> QED
        BY <1>t, <4>1, NothingWaits
    <3>3. Backlog' <= 0
      BY <1>t, <1>b2, <3>1, <3>2
    <3>4. \A k \in Kinds : late'[k] <= settings'.timeout[Other(k)]
      BY <1>t, <3>1, LoadTypes DEF Kinds, Other
    <3> QED
      BY <3>1, <3>3, <3>4 DEF LoadInv
  <2>2. CASE pc # "select" /\ ~Bounded
    <3>1. UNCHANGED <<late, pc, round>>
      BY <1>1, <2>2 DEF Tick
    <3>2. UNCHANGED <<x, y>> /\ Left = 0 /\ Left' = 0 /\ ~Bounded'
      BY <2>2, <3>1 DEF Left, Bounded
    <3>3. Backlog' <= 0
      BY <1>t, <1>b, <1>b2, <3>2
    <3> QED
      BY <1>t, <3>1, <3>2, <3>3 DEF LoadInv
  <2>3. CASE pc # "select" /\ Bounded
    <3>1. /\ x' = x + 1 /\ y' = y + 1 /\ late' = [k \in Kinds |-> late[k] + 1]
          /\ UNCHANGED <<pc, round>> /\ elapsed' = elapsed + 1
      BY <1>1, <2>3 DEF Tick, Kinds
    <3>2. Left' = Left - 1
      <4>1. /\ Left = Deadline(round) - elapsed /\ Left' = Deadline(round)' - elapsed'
            /\ Deadline(round)' = Deadline(round)
        BY <2>3, <1>t, <3>1 DEF Left, Bounded, Deadline
      <4>2. Deadline(round) \in Nat /\ elapsed \in Nat
        BY <2>3, LoadTypes DEF Deadline, Bounded, TypeOK
      <4> QED
        BY <3>1, <4>1, <4>2
    <3>3. Backlog' <= 0
      BY <1>t, <1>b, <1>b2, <3>1, <3>2, LoadTicks
    <3>4. round \in Kinds /\ Other(round) \in Kinds
      BY <2>3 DEF Bounded, TypeOK, Kinds, Other
    <3>5. /\ late'[Other(round)] <= elapsed'
          /\ late'[round] <= elapsed' + settings.timeout[Other(round)] - settings.period[round]
      BY <2>3, <3>1, <3>4, LoadTypes DEF LoadInv, TypeOK
    <3>6. elapsed' <= settings.timeout[round] /\ elapsed' \in Nat
      BY <2>3, <3>1, <1>t DEF TypeOK, Bounded, Deadline
    <3>7. \A k \in Kinds : late'[k] <= settings.timeout[Other(k)]
      <4>1. Other(Other(round)) = round /\ Kinds = {round, Other(round)}
        BY <3>4 DEF Other, Kinds
      <4>2. late'[Other(round)] <= settings.timeout[round]
        BY <3>1, <3>4, <3>5, <3>6, LoadTypes
      <4>3. late'[round] <= settings.timeout[Other(round)]
        BY <3>1, <3>4, <3>5, <3>6, LoadTypes
      <4> QED
        BY <4>1, <4>2, <4>3
    <3> QED
      BY <1>t, <3>1, <3>3, <3>5, <3>7 DEF LoadInv
  <2> QED
    BY <2>1, <2>2, <2>3
<1>2. CASE StartNew \/ StartUpdate
  <2>1. PICK k \in Kinds : Yield(k) /\ pc' # "select" /\ elapsed' = elapsed
    BY <1>2 DEF StartNew, StartUpdate, Kinds, progress, results
  <2>2. /\ pc = "select" /\ elapsed = 0 /\ late[k] >= 0 /\ round' = k
        /\ late' = [late EXCEPT ![k] = late[k] - settings.period[k]]
    BY <2>1 DEF Yield, TypeOK
  <2> DEFINE o == Other(k)
  <2>3. o \in Kinds /\ o # k /\ Other(o) = k
    BY DEF Other, Kinds
  <2>4. late[o] <= 0
    <3>1. Left = 0
      BY <2>2 DEF Left
    <3>2. x * a + y * b <= 0
      BY <1>t, <1>b, <3>1
    <3>3. (k = "new" /\ o = "update") \/ (k = "update" /\ o = "new")
      BY DEF Kinds, Other
    <3>4. CASE k = "new" /\ o = "update"
      BY <1>t, <2>2, <3>2, <3>4, NothingWaits
    <3>5. CASE k = "update" /\ o = "new"
      <4>1. y * b + x * a <= 0 /\ y >= 0
        BY <1>t, <2>2, <3>2, <3>5
      <4> QED
        BY <1>t, <3>5, <4>1, NothingWaits
    <3> QED
      BY <3>3, <3>4, <3>5
  <2>5. late'[o] = late[o] /\ late'[k] = late[k] - settings.period[k] /\ late'[k] <= late[k]
    BY <2>2, <2>3, LoadTypes DEF TypeOK
  <2>6. Left' = settings.timeout[k] /\ Bounded'
    BY <1>t, <2>1, <2>2, LoadTypes DEF Left, Bounded, Deadline, Kinds
  <2>7. Backlog' <= 0
    <3>1. settings.period[k] * Weight(k) = settings.timeout[k] * Horizon
      BY LoadTypes
    <3>2. Left = 0
      BY <2>2 DEF Left
    <3>3. CASE k = "new"
      <4>1. x' = x - settings.period[k] /\ y' = y /\ settings.period[k] \in Nat
        BY <2>3, <2>5, <3>3, LoadTypes DEF Other
      <4>2. x' * a = x * a - settings.period[k] * a
        BY <1>t, <4>1
      <4> QED
        BY <1>t, <1>b, <1>b2, <2>6, <3>1, <3>2, <3>3, <4>1, <4>2, LoadTypes DEF a
    <3>4. CASE k = "update"
      <4>1. y' = y - settings.period[k] /\ x' = x /\ settings.period[k] \in Nat
        BY <2>3, <2>5, <3>4, LoadTypes DEF Other
      <4>2. y' * b = y * b - settings.period[k] * b
        BY <1>t, <4>1
      <4> QED
        BY <1>t, <1>b, <1>b2, <2>6, <3>1, <3>2, <3>4, <4>1, <4>2, LoadTypes DEF b
    <3> QED
      BY <3>3, <3>4 DEF Kinds
  <2>8. \A j \in Kinds : late'[j] <= settings.timeout[Other(j)]
    <3>1. Kinds = {k, o}
      BY DEF Kinds, Other
    <3> QED
      BY <2>3, <2>5, <3>1, LoadTypes DEF LoadInv
  <2>9. /\ late'[Other(round')] <= elapsed'
        /\ late'[round'] <= elapsed' + settings.timeout[Other(round')] - settings.period[round']
    BY <2>1, <2>2, <2>3, <2>4, <2>5, LoadTypes DEF LoadInv
  <2> QED
    BY <1>t, <2>7, <2>8, <2>9 DEF LoadInv
<1>3. CASE TimeOut \/ Commit
  <2>1. pc' = "select" /\ UNCHANGED <<late, x, y>> /\ Left' = 0
    BY <1>3 DEF TimeOut, Commit, EndRound, Left
  <2>2. Left * Horizon >= 0 /\ Left * Horizon \in Int
    BY <1>t
  <2>3. Backlog' <= 0
    BY <1>t, <1>b, <1>b2, <2>1, <2>2
  <2> QED
    BY <1>t, <2>1, <2>3 DEF LoadInv
<1>4. CASE \/ ListChannels \/ Answer \/ UNCHANGED vars
           \/ \E c \in Channels : Call(c) \/ Create(c) \/ Finish(c)
           \/ \E v \in Validators : Hang(v)
  <2>1. /\ UNCHANGED <<late, round, elapsed, settings>>
        /\ pc' = pc \/ (pc # "select" /\ pc' # "select")
    BY <1>4 DEF ListChannels, Answer, Call, Create, Finish, Hang, vars, world, progress, results
  <2>2. UNCHANGED <<Left, x, y, Bounded>>
    BY <2>1 DEF Left, Bounded, Deadline
  <2> QED
    BY <1>t, <1>b, <1>b2, <2>1, <2>2 DEF LoadInv
<1> QED
  BY <1>1, <1>2, <1>3, <1>4 DEF Next, Task

\* Under a light load a deadline is missed by no more than one round of the other
\* kind, so that missed ticks do not pile up, whatever hangs.
THEOREM NoPileUpUnderLoad == LightLoad /\ Spec => []NoPileUp
<1> SUFFICES ASSUME LightLoad PROVE Spec => []NoPileUp
  OBVIOUS
<1>1. TypeOK /\ LoadInv => NoPileUp
  BY LoadTypes DEF LoadInv, NoPileUp, Kinds, Other, TypeOK, LightLoad, DurationsAssumption
<1> QED
  BY <1>1, LoadInit, LoadStep, InitTypeOK, TypeCorrect, PTL DEF Spec
------------------------------------------------------------------------------
(* How long the initial round takes. *)

\* The get_status calls still to make for the channels of S, counted one by one.
Owed(S, t) == {p \in S \X (1..2 * Repeats) : p[2] <= t[p[1]]}

\* The requests that are still to be made, at most, with the outstanding one.
Requests == 3 * Cardinality(Owed(Channels, todo)) + (IF call = NoCall THEN 0 ELSE 4 - call.n)

\* The time that has been spent on requests and the time that the others may take
\* add up to what the round was given.
BindInv ==
  round = "init" =>
    /\ pc = "list" => elapsed = wait /\ wait <= 2 * settings.request /\ call = NoCall
    /\ pc = "calls" =>
         /\ wait <= IF call = NoCall THEN 0 ELSE settings.request
         /\ elapsed - wait + settings.request * Requests <= settings.request * MostRequests

LEMMA FewPending ==
  ASSUME NEW S \in SUBSET Channels
  PROVE  /\ IsFiniteSet(S) /\ Cardinality(S) \in Nat /\ Cardinality(Channels) \in Nat
         /\ Cardinality(S) <= Cardinality(Channels)
<1>1. IsFiniteSet(Channels) /\ Cardinality(Channels) \in Nat
  BY ValidatorsAssumption, FS_CardinalityType
<1>2. IsFiniteSet(S) /\ Cardinality(S) <= Cardinality(Channels)
  BY <1>1, FS_Subset
<1> QED
  BY <1>1, <1>2, FS_CardinalityType

\* There are at most as many calls as channels and times that each may be called.
LEMMA OwedFew ==
  ASSUME NEW S \in SUBSET Channels, NEW t \in [Channels -> 0..2 * Repeats],
         NEW N \in Nat, \A c \in S : t[c] <= N
  PROVE  /\ IsFiniteSet(Owed(S, t)) /\ Cardinality(Owed(S, t)) \in Nat
         /\ Cardinality(Owed(S, t)) <= Cardinality(S) * N
<1>1. IsFiniteSet(S)
  BY FewPending
<1>2. IsFiniteSet(1..N) /\ Cardinality(1..N) = N
  <2>1. Cardinality(1..N) = IF 1 > N THEN 0 ELSE N - 1 + 1
    BY FS_Interval
  <2> QED
    BY <2>1, FS_Interval
<1>3. IsFiniteSet(S \X (1..N)) /\ Cardinality(S \X (1..N)) = Cardinality(S) * N
  BY <1>1, <1>2, FS_Product
<1>4. Owed(S, t) \subseteq S \X (1..N)
  <2> SUFFICES ASSUME NEW c \in S, NEW n \in 1..2 * Repeats, n <= t[c]
               PROVE  n \in 1..N
    BY DEF Owed
  <2> QED
    BY RepeatsAssumption
<1>5. IsFiniteSet(Owed(S, t)) /\ Cardinality(Owed(S, t)) <= Cardinality(S \X (1..N))
  BY <1>3, <1>4, FS_Subset
<1> QED
  BY <1>3, <1>5, FS_CardinalityType

\* A call is begun: it is one of those that were owed.
LEMMA OwedShrinks ==
  ASSUME NEW S \in SUBSET Channels, NEW t \in [Channels -> 0..2 * Repeats],
         NEW c \in S, t[c] > 0
  PROVE  Cardinality(Owed(S, [t EXCEPT ![c] = t[c] - 1])) = Cardinality(Owed(S, t)) - 1
<1> DEFINE u == [t EXCEPT ![c] = t[c] - 1]
<1>1. t[c] \in 1..2 * Repeats /\ \A d \in S : u[d] = IF d = c THEN t[c] - 1 ELSE t[d]
  OBVIOUS
<1>2. <<c, t[c]>> \in Owed(S, t)
  BY <1>1 DEF Owed
<1>3. Owed(S, u) = Owed(S, t) \ {<<c, t[c]>>}
  <2>1. ASSUME NEW d \in S, NEW n \in 1..2 * Repeats
        PROVE  n <= u[d] <=> (n <= t[d] /\ <<d, n>> # <<c, t[c]>>)
    BY <1>1, RepeatsAssumption
  <2> HIDE DEF u
  <2> QED
    BY <2>1 DEF Owed
<1>4. IsFiniteSet(Owed(S, t))
  BY OwedFew, RepeatsAssumption
<1>5. Cardinality(Owed(S, t) \ {<<c, t[c]>>}) = Cardinality(Owed(S, t)) - 1
  BY <1>2, <1>4, FS_RemoveElement
<1> QED
  BY <1>3, <1>5

\* What a call leaves owed to others.
LEMMA OwedKept ==
  ASSUME NEW S \in SUBSET Channels, NEW t \in [Channels -> 0..2 * Repeats],
         NEW c \in Channels \ S
  PROVE  Owed(S, [t EXCEPT ![c] = t[c] - 1]) = Owed(S, t)
<1>1. \A d \in S : [t EXCEPT ![c] = t[c] - 1][d] = t[d]
  OBVIOUS
<1> QED
  BY <1>1 DEF Owed

LEMMA PendingTypes ==
  ASSUME TypeOK
  PROVE  /\ Cardinality(Channels) \in Nat /\ MostRequests \in Nat
         /\ Cardinality(Owed(Channels, todo)) \in Nat
         /\ call # NoCall => call.n \in 1..3
         /\ Requests \in Nat
<1>1. Cardinality(Channels) \in Nat /\ MostRequests \in Nat
  BY FewPending, RepeatsAssumption DEF MostRequests
<1>2. Cardinality(Owed(Channels, todo)) \in Nat
  <2>1. /\ todo \in [Channels -> 0..2 * Repeats] /\ 2 * Repeats \in Nat
        /\ \A c \in Channels : todo[c] <= 2 * Repeats
    BY RepeatsAssumption DEF TypeOK
  <2> QED
    BY <2>1, OwedFew
<1>3. call # NoCall => call.n \in 1..3
  BY DEF TypeOK
<1> QED
  BY <1>1, <1>2, <1>3 DEF Requests

LEMMA OneRequestLess ==
  ASSUME NEW r \in Nat, NEW n \in Nat, NEW m \in Nat, n >= m + 1
  PROVE  r * n >= r * m + r
<1>1. PICK k \in Nat : n = m + 1 + k
  <2>1. n - m - 1 \in Nat
    OBVIOUS
  <2> QED
    BY <2>1
<1>2. r * n = r * m + r + r * k /\ r * k \in Nat /\ r * m \in Nat
  BY <1>1
<1> QED
  BY <1>2

LEMMA TwoRequestsLess ==
  ASSUME NEW r \in Nat, NEW n \in Nat, NEW m \in Nat, n >= m + 2
  PROVE  r * n >= r * m + 2 * r
<1>1. r * (m + 1) >= r * m + r
  BY OneRequestLess
<1>2. r * n >= r * (m + 1) + r
  BY OneRequestLess
<1>3. r * n \in Nat /\ r * m \in Nat /\ r * (m + 1) \in Nat
  OBVIOUS
<1> QED
  BY <1>1, <1>2, <1>3

LEMMA BindInit == Init => BindInv
BY DurationsAssumption DEF Init, BindInv

LEMMA BindStep == TypeOK /\ TypeOK' /\ BindInv /\ [Next]_vars => BindInv'
<1> SUFFICES ASSUME TypeOK, TypeOK', BindInv, [Next]_vars, round' = "init"
             PROVE  BindInv'
  BY DEF BindInv
<1> DEFINE r == settings.request
           m == MostRequests
<1>t. /\ r \in Nat \ {0} /\ m \in Nat /\ r * m \in Nat /\ Requests \in Nat
      /\ settings.answer \in 0..r
      /\ elapsed \in Nat /\ wait \in Nat /\ elapsed' \in Nat /\ wait' \in Nat /\ wait <= elapsed
  BY PendingTypes, DurationsAssumption DEF TypeOK
<1>s. settings' = settings /\ r' = r
  BY LoadStays
<1>1. CASE Tick
  <2>1. UNCHANGED <<pc, round, call, todo, hung>> /\ round = "init"
    BY <1>1 DEF Tick, world
  <2>2. CASE pc = "select"
    BY <2>1, <2>2 DEF BindInv
  <2>3. CASE pc # "select"
    <3>1. elapsed' = elapsed + 1 /\ wait' = wait + 1 /\ wait < Longest
      BY <1>1, <2>3 DEF Tick
    <3>2. CASE pc = "list"
      <4>1. Longest \in Nat /\ Longest <= 2 * r
        BY <1>t, <3>2 DEF Longest
      <4>2. elapsed' = wait' /\ wait' <= 2 * r
        BY <1>t, <2>1, <3>1, <3>2, <4>1 DEF BindInv
      <4> QED
        BY <1>s, <2>1, <3>2, <4>2 DEF BindInv
    <3>3. CASE pc = "calls"
      <4>1. call # NoCall /\ Longest \in Nat /\ Longest <= r
        BY <1>t, <3>1, <3>3 DEF Longest
      <4>2. Requests' = Requests
        BY <2>1 DEF Requests, NoCall
      <4>3. elapsed' - wait' = elapsed - wait
        BY <1>t, <3>1
      <4>4. wait' <= r
        BY <1>t, <3>1, <4>1
      <4> QED
        BY <1>s, <2>1, <3>3, <4>1, <4>2, <4>3, <4>4 DEF BindInv
    <3> QED
      BY <2>3, <3>2, <3>3 DEF TypeOK
  <2> QED
    BY <2>2, <2>3
<1>2. CASE TimeOut \/ Commit
  BY <1>2 DEF TimeOut, Commit, EndRound, BindInv
<1>3. CASE ListChannels
  <2>1. /\ pc = "list" /\ pc' = "calls" /\ wait' = 0 /\ elapsed' = elapsed /\ round = "init"
        /\ call' = NoCall
    BY <1>3 DEF ListChannels, BindInv
  <2>2. elapsed <= 2 * r
    BY <2>1 DEF BindInv
  <2>3. Requests' \in Nat /\ m >= Requests' + 2
    <3>1. todo' \in [Channels -> 0..2 * Repeats]
      BY DEF TypeOK
    <3> DEFINE p == Cardinality(Owed(Channels, todo'))
               q == Cardinality(Channels)
    <3>2. q \in Nat /\ p \in Nat /\ p <= q * (2 * Repeats)
      BY <3>1, OwedFew, FewPending, RepeatsAssumption
    <3>3. Requests' = 3 * p
      BY <2>1, <3>2 DEF Requests, NoCall
    <3>4. m = 2 + 6 * (Repeats * q)
      BY DEF MostRequests
    <3> HIDE DEF p, q, m
    <3>5. q * (2 * Repeats) = 2 * (Repeats * q) /\ Repeats * q \in Nat
      BY <3>2, RepeatsAssumption
    <3> QED
      BY <3>2, <3>3, <3>4, <3>5
  <2>4. r * m >= r * Requests' + 2 * r
    <3>1. r \in Nat
      BY <1>t
    <3> HIDE DEF r, m
    <3> QED
      BY <1>t, <2>3, <3>1, TwoRequestsLess
  <2>5. r * Requests' \in Nat
    BY <1>t, <2>3
  <2> HIDE DEF m
  <2>6. elapsed' - wait' + r * Requests' <= r * m
    BY <1>t, <2>1, <2>2, <2>4, <2>5
  <2>7. wait' <= (IF call' = NoCall THEN 0 ELSE r)
    BY <2>1
  <2> QED
    BY <1>s, <2>1, <2>6, <2>7 DEF BindInv, m
<1>4. ASSUME NEW c \in Channels, Call(c) PROVE BindInv'
  <2>1. /\ pc = "calls" /\ pc' = "calls" /\ round = "init" /\ call = NoCall
        /\ call' # NoCall /\ call'.n = 1 /\ UNCHANGED <<elapsed, wait>>
    BY <1>4 DEF Call, NoCall
  <2>2. Requests' = Requests
    <3>1. todo[c] > 0 /\ todo' = [todo EXCEPT ![c] = todo[c] - 1]
      BY <1>4 DEF Call
    <3>2. Cardinality(Owed(Channels, todo')) = Cardinality(Owed(Channels, todo)) - 1
      BY <3>1, OwedShrinks DEF TypeOK
    <3>3. Requests = 3 * Cardinality(Owed(Channels, todo))
      BY <2>1, PendingTypes DEF Requests
    <3>4. Requests' = 3 * Cardinality(Owed(Channels, todo')) + 3
      BY <2>1 DEF Requests, NoCall
    <3> QED
      BY <3>2, <3>3, <3>4, PendingTypes
  <2> QED
    BY <1>s, <1>t, <2>1, <2>2 DEF BindInv
<1>5. CASE Answer
  <2>1. /\ pc = "calls" /\ pc' = "calls" /\ round = "init" /\ call # NoCall
        /\ wait' = 0 /\ UNCHANGED <<elapsed, todo>>
    BY <1>5 DEF Answer
  <2>2. Requests' \in Nat /\ Requests >= Requests' + 1
    <3>1. call' = NoCall \/ (call' # NoCall /\ call'.n = call.n + 1)
      BY <1>5, <2>1 DEF Answer, TypeOK
    <3>2. Owed(Channels, todo)' = Owed(Channels, todo) /\ NoCall' = NoCall
      BY <2>1 DEF Owed, NoCall
    <3> QED
      BY <2>1, <3>1, <3>2, PendingTypes DEF Requests
  <2>3. r * Requests >= r * Requests' + r
    <3>1. r \in Nat
      BY <1>t
    <3> HIDE DEF r
    <3> QED
      BY <1>t, <2>2, <3>1, OneRequestLess
  <2>4. wait <= r /\ elapsed - wait + r * Requests <= r * m
    BY <2>1 DEF BindInv
  <2>5. r * Requests \in Nat /\ r * Requests' \in Nat
    BY <1>t, <2>2
  <2> HIDE DEF m
  <2>6. elapsed' - wait' + r * Requests' <= r * m
    BY <1>t, <2>1, <2>3, <2>4, <2>5
  <2>7. wait' <= (IF call' = NoCall THEN 0 ELSE r)
    BY <1>t, <2>1
  <2> QED
    BY <1>s, <2>1, <2>6, <2>7 DEF BindInv, m
<1>6. CASE \/ UNCHANGED vars
           \/ \E c \in Channels : Create(c) \/ Finish(c)
           \/ \E v \in Validators : Hang(v)
  <2>1. UNCHANGED <<pc, round, elapsed, wait, call, todo, settings>>
    BY <1>6 DEF Create, Finish, Hang, vars, world, progress, results
  <2>2. UNCHANGED Requests
    BY <2>1 DEF Requests, NoCall
  <2> QED
    BY <2>1, <2>2 DEF BindInv
<1> QED
  BY <1>1, <1>2, <1>3, <1>4, <1>5, <1>6 DEF Next, Task, StartNew, StartUpdate, Yield, Kinds

\* serve() binds in a time that depends on the number of channels and the request
\* timeout, and on how often a list names a channel, whatever hangs or fails: no
\* request of the initial round is made more often than it should be.
THEOREM BindsInBoundedTime == Spec => []BindsInTime
<1>1. TypeOK /\ BindInv => BindsInTime
  <2> SUFFICES ASSUME TypeOK, BindInv, round = "init", pc # "select"
               PROVE  elapsed <= settings.request * MostRequests
    BY DEF BindsInTime
  <2>1. /\ settings.request \in Nat \ {0} /\ elapsed \in Nat /\ wait \in Nat
        /\ MostRequests \in Nat /\ Requests \in Nat /\ settings.request * MostRequests \in Nat
    BY PendingTypes, DurationsAssumption DEF TypeOK
  <2>2. CASE pc = "list"
    <3>1. MostRequests >= 2
      BY FewPending, RepeatsAssumption DEF MostRequests
    <3>2. settings.request * MostRequests >= 2 * settings.request
      BY <2>1, <3>1
    <3> QED
      BY <2>1, <2>2, <3>2 DEF BindInv
  <2>3. CASE pc = "calls" /\ call = NoCall
    <3>1. settings.request * Requests \in Nat
      BY <2>1
    <3> QED
      BY <2>1, <2>3, <3>1 DEF BindInv
  <2>4. CASE pc = "calls" /\ call # NoCall
    <3>1. Requests >= 1
      BY <2>4, PendingTypes DEF Requests
    <3>2. settings.request * Requests >= settings.request
      BY <2>1, <3>1
    <3> QED
      BY <2>1, <2>4, <3>2 DEF BindInv
  <2> QED
    BY <2>2, <2>3, <2>4 DEF TypeOK
<1> QED
  BY <1>1, BindInit, BindStep, TypeCorrect, PTL DEF Spec
------------------------------------------------------------------------------
(* Rounds that have enough time. *)

\* The requests that may still hang, with the outstanding one: one in each call for a
\* channel that has a validator that may hang.
ToHang == Cardinality(Owed(Hanging, todo)) + (IF call # NoCall /\ call.ch \in Hanging THEN 1 ELSE 0)

\* A new round calls a channel once for each time a list names it: a validator that
\* hangs has no list, one that begins to hang behind its list costs twice the time.
Settled(k, c) == k = "new" => hung = MayHang /\ c \in created

\* In a round only requests that hang take time, and each call has one of them.
HangInv(k) ==
  settings.answer = 0 /\ round = k /\ pc # "select" =>
    /\ pc = "list" => k = "new" /\ call = NoCall /\ elapsed = wait /\ wait <= settings.request
    /\ pc = "calls" =>
         /\ wait > 0 => Hangs
         /\ wait <= settings.request
         /\ elapsed - wait + settings.request * ToHang <= settings.request * MostHanging(k)

\* A channel that is to be found or refreshed, and that answers, is not forgotten.
AskedInv(k, c) ==
  /\ pc = "calls" /\ round = k /\ Answers(c)
  /\ c \in IF k = "new" THEN created \ ended ELSE cached
  => todo[c] > 0 \/ (call # NoCall /\ call.ch = c) \/ c \in got \cup gone

LEMMA HangTypes ==
  ASSUME TypeOK
  PROVE  /\ Hanging \in SUBSET Channels
         /\ Cardinality(Owed(Hanging, todo)) \in Nat /\ ToHang \in Nat
         /\ HangingCalls \in Nat /\ Repeats * HangingCalls \in Nat
         /\ \A k \in Kinds : MostHanging(k) \in Nat
         /\ settings.request \in Nat \ {0}
<1>1. Hanging \in SUBSET Channels
  BY DEF Hanging
<1>2. Cardinality(Owed(Hanging, todo)) \in Nat
  <2>1. /\ todo \in [Channels -> 0..2 * Repeats] /\ 2 * Repeats \in Nat
        /\ \A c \in Hanging : todo[c] <= 2 * Repeats
    BY <1>1, RepeatsAssumption DEF TypeOK
  <2> QED
    BY <1>1, <2>1, OwedFew
<1>3. HangingCalls \in Nat /\ Repeats * HangingCalls \in Nat
  BY <1>1, FewPending, RepeatsAssumption DEF HangingCalls
<1> QED
  BY <1>1, <1>2, <1>3, DurationsAssumption DEF MostHanging, ToHang, TypeOK

\* A validator that hangs lists nothing, so that only the other one does.
LEMMA OneListing ==
  ASSUME NEW c \in Hanging, NEW S, MayHang \subseteq S
  PROVE  Cardinality(ValidatorsOf(c) \ S) \in {0, 1}
<1> DEFINE R == ValidatorsOf(c) \ S
<1>1. PICK x : R \subseteq {x}
  BY DEF Hanging, ValidatorsOf
<1>2. IsFiniteSet({x}) /\ Cardinality({x}) = 1
  BY FS_Singleton
<1>3. IsFiniteSet(R) /\ Cardinality(R) <= 1
  BY <1>1, <1>2, FS_Subset
<1>4. Cardinality(R) \in Nat
  BY <1>3, FS_CardinalityType
<1> QED
  BY <1>3, <1>4

\* Only a request to a channel of a validator that hangs can hang.
LEMMA HangsFew ==
  ASSUME TypeOK, pc = "calls", Hangs
  PROVE  call # NoCall /\ call.ch \in Hanging /\ Asked(call) \in hung
<1>1. call # NoCall /\ Asked(call) \in hung /\ hung \subseteq MayHang /\ call.ch \in Channels
  BY DEF Hangs, TypeOK
<1>2. Asked(call) \in ValidatorsOf(call.ch)
  BY DEF Asked, ValidatorsOf
<1> QED
  BY <1>1, <1>2 DEF Hanging

LEMMA HangStep ==
  ASSUME NEW k \in Kinds, TypeOK, TypeOK', HangInv(k), k = "new" => hung = MayHang, [Next]_vars
  PROVE  HangInv(k)'
<1> SUFFICES ASSUME settings'.answer = 0, round' = k, pc' # "select"
             PROVE  HangInv(k)'
  BY DEF HangInv
<1> DEFINE r == settings.request
           m == MostHanging(k)
<1>t. /\ r \in Nat \ {0} /\ m \in Nat /\ r * m \in Nat /\ ToHang \in Nat
      /\ elapsed \in Nat /\ wait \in Nat /\ elapsed' \in Nat /\ wait' \in Nat /\ wait <= elapsed
  BY HangTypes DEF TypeOK
<1>s. settings' = settings /\ r' = r /\ m' = m
  BY LoadStays DEF MostHanging, HangingCalls
<1>1. CASE Tick
  <2>1. UNCHANGED <<pc, round, call, todo, hung>> /\ pc # "select"
    BY <1>1 DEF Tick, world
  <2>2. elapsed' = elapsed + 1 /\ wait' = wait + 1 /\ wait < Longest
    BY <1>1, <2>1 DEF Tick
  <2>3. CASE pc = "list"
    <3>1. Longest \in Nat /\ Longest <= r
      BY <1>s, <1>t, <2>3 DEF Longest
    <3>2. k = "new" /\ call = NoCall /\ elapsed = wait
      BY <1>s, <2>1, <2>3 DEF HangInv
    <3>3. wait' <= r
      BY <1>t, <2>2, <3>1
    <3> QED
      BY <1>s, <2>1, <2>2, <2>3, <3>2, <3>3 DEF HangInv
  <2>4. CASE pc = "calls"
    <3>1. Hangs /\ Longest = r
      BY <1>s, <1>t, <2>2, <2>4 DEF Longest, Hangs
    <3>2. wait' <= r /\ elapsed' - wait' = elapsed - wait
      BY <1>t, <2>2, <3>1
    <3>3. ToHang' = ToHang /\ Hangs'
      BY <2>1, <3>1 DEF ToHang, Hangs, Asked, NoCall
    <3>4. elapsed - wait + r * ToHang <= r * m
      BY <1>s, <2>1, <2>4 DEF HangInv
    <3> QED
      BY <1>s, <2>1, <2>4, <3>2, <3>3, <3>4 DEF HangInv
  <2> QED
    BY <2>1, <2>3, <2>4 DEF TypeOK
<1>2. CASE StartNew
  <2>1. pc = "select" /\ pc' = "list" /\ elapsed' = elapsed /\ wait' = wait /\ k = "new"
    BY <1>2 DEF StartNew, Yield, progress, results
  <2>2. elapsed = 0 /\ wait = 0 /\ call = NoCall /\ call' = NoCall
    BY <1>2, <1>t, <2>1 DEF StartNew, progress, results, TypeOK
  <2> QED
    BY <1>s, <1>t, <2>1, <2>2 DEF HangInv, NoCall
<1>3. CASE StartUpdate
  <2>1. /\ pc = "select" /\ pc' = "calls" /\ UNCHANGED <<elapsed, wait, call>> /\ k = "update"
        /\ todo' = [c \in Channels |-> IF c \in cached THEN 1 ELSE 0]
    BY <1>3 DEF StartUpdate, Yield
  <2>2. elapsed = 0 /\ wait = 0 /\ call' = NoCall
    BY <1>t, <2>1 DEF TypeOK
  <2>3. todo' \in [Channels -> 0..2 * Repeats] /\ \A c \in Hanging : todo'[c] <= 1
    BY <2>1 DEF Hanging, TypeOK
  <2>4. ToHang' \in Nat /\ ToHang' <= m
    <3>1. /\ Cardinality(Owed(Hanging, todo')) \in Nat
          /\ Cardinality(Owed(Hanging, todo')) <= HangingCalls * 1
      BY <2>3, HangTypes, OwedFew DEF HangingCalls
    <3>2. ToHang' = Cardinality(Owed(Hanging, todo'))
      BY <2>2, <3>1 DEF ToHang, NoCall
    <3> QED
      BY <2>1, <3>1, <3>2, HangTypes DEF MostHanging
  <2>5. r * ToHang' <= r * m
    BY <1>t, <2>4
  <2>6. r * ToHang' \in Nat
    BY <1>t, <2>4
  <2> HIDE DEF r, m
  <2>7. elapsed' = 0 /\ wait' = 0 /\ elapsed' - wait' + r * ToHang' <= r * m
    BY <1>t, <2>1, <2>2, <2>5, <2>6
  <2>8. wait' <= r
    BY <1>t, <2>7
  <2> QED
    BY <1>s, <2>1, <2>7, <2>8 DEF HangInv, r, m
<1>4. CASE ListChannels
  <2>1. PICK listed \in [Channels -> 0..2 * Repeats] :
          (\A c \in Channels : listed[c] \in Listings(c)) /\ todo' = listed
    BY <1>4 DEF ListChannels
  <2>2. /\ pc = "list" /\ pc' = "calls" /\ wait' = 0 /\ UNCHANGED <<elapsed, call>>
        /\ round = k
    BY <1>4 DEF ListChannels
  <2>3. k = "new" /\ elapsed <= r /\ call' = NoCall
    BY <1>s, <2>2 DEF HangInv
  <2>4. ASSUME NEW c \in Hanging PROVE todo'[c] <= Repeats
    <3>1. c \in Channels /\ todo'[c] \in Listings(c)
      BY <2>1 DEF Hanging
    <3>2. Cardinality(ValidatorsOf(c) \ hung) \in {0, 1}
      BY <2>3, OneListing
    <3>3. Repeats * Cardinality(ValidatorsOf(c) \ hung) \in 0..Repeats
      BY <3>2, RepeatsAssumption
    <3>4. todo'[c] <= IF c \in created THEN Repeats * Cardinality(ValidatorsOf(c) \ hung) ELSE 0
      <4>1. CASE c \in created
        <5> DEFINE sure == IF c \in ended THEN {} ELSE ValidatorsOf(c) \ (hung \cup Flaky)
        <5>1. todo'[c] \in Cardinality(sure)..Repeats * Cardinality(ValidatorsOf(c) \ hung)
          BY <3>1, <4>1 DEF Listings
        <5> QED
          BY <4>1, <5>1
      <4>2. CASE c \notin created
        BY <3>1, <4>2 DEF Listings
      <4> QED
        BY <4>1, <4>2
    <3>5. todo'[c] \in Nat
      BY <2>1, <3>1
    <3> QED
      BY <3>3, <3>4, <3>5, RepeatsAssumption
  <2>5. ToHang' \in Nat /\ m >= ToHang' + 1
    <3> DEFINE p == Cardinality(Owed(Hanging, todo'))
    <3>1. p \in Nat /\ p <= HangingCalls * Repeats
      BY <2>1, <2>4, HangTypes, OwedFew, RepeatsAssumption DEF HangingCalls
    <3>2. ToHang' = p
      BY <2>3, <3>1 DEF ToHang, NoCall
    <3>3. m = 1 + Repeats * HangingCalls
      BY <2>3 DEF MostHanging
    <3> HIDE DEF p, m
    <3>4. HangingCalls * Repeats = Repeats * HangingCalls
      BY HangTypes, RepeatsAssumption
    <3> QED
      BY <3>1, <3>2, <3>3, <3>4, HangTypes
  <2>6. r * m >= r * ToHang' + r
    <3>1. r \in Nat
      BY <1>t
    <3> HIDE DEF r, m
    <3> QED
      BY <1>t, <2>5, <3>1, OneRequestLess
  <2>7. r * ToHang' \in Nat
    BY <1>t, <2>5
  <2> HIDE DEF r, m
  <2>8. wait' <= r /\ elapsed' - wait' + r * ToHang' <= r * m
    BY <1>t, <2>2, <2>3, <2>6, <2>7
  <2>9. ~(wait' > 0)
    BY <2>2
  <2> QED
    BY <1>s, <2>2, <2>8, <2>9 DEF HangInv, r, m
<1>5. ASSUME NEW c \in Channels, Call(c) PROVE HangInv(k)'
  <2>1. /\ pc = "calls" /\ pc' = "calls" /\ UNCHANGED <<round, elapsed, wait, hung>>
        /\ call = NoCall /\ call' = [ch |-> c, n |-> 1] /\ call' # NoCall
        /\ todo[c] > 0 /\ todo' = [todo EXCEPT ![c] = todo[c] - 1]
    BY <1>5 DEF Call, NoCall, world
  <2>2. ~(wait > 0) /\ wait <= r /\ elapsed - wait + r * ToHang <= r * m
    BY <1>s, <2>1 DEF HangInv, Hangs
  <2>3. todo \in [Channels -> 0..2 * Repeats]
    BY DEF TypeOK
  <2>4. ToHang' = ToHang
    <3>1. CASE c \in Hanging
      <4>1. Cardinality(Owed(Hanging, todo')) = Cardinality(Owed(Hanging, todo)) - 1
        BY <2>1, <2>3, <3>1, HangTypes, OwedShrinks
      <4>2. /\ ToHang = Cardinality(Owed(Hanging, todo))
            /\ ToHang' = Cardinality(Owed(Hanging, todo')) + 1
        BY <2>1, <3>1, HangTypes DEF ToHang, NoCall
      <4> QED
        BY <4>1, <4>2, HangTypes
    <3>2. CASE c \notin Hanging
      <4>1. Owed(Hanging, todo') = Owed(Hanging, todo)
        <5>1. Hanging \in SUBSET Channels /\ c \in Channels \ Hanging
          BY <3>2, HangTypes
        <5>2. Owed(Hanging, [todo EXCEPT ![c] = todo[c] - 1]) = Owed(Hanging, todo)
          BY ONLY <2>3, <5>1, OwedKept
        <5> QED
          BY <2>1, <5>2
      <4>2. /\ ToHang = Cardinality(Owed(Hanging, todo)) + 0
            /\ ToHang' = Cardinality(Owed(Hanging, todo')) + 0
        BY <2>1, <3>2 DEF ToHang, NoCall
      <4> QED
        BY <4>1, <4>2
    <3> QED
      BY <3>1, <3>2
  <2> QED
    BY <1>s, <2>1, <2>2, <2>4 DEF HangInv
<1>6. CASE Answer
  <2>1. /\ pc = "calls" /\ pc' = "calls" /\ call # NoCall
        /\ wait' = 0 /\ UNCHANGED <<round, elapsed, todo>>
    BY <1>6 DEF Answer
  <2>2. /\ wait > 0 => Hangs
        /\ wait <= r /\ elapsed - wait + r * ToHang <= r * m
    BY <1>s, <2>1 DEF HangInv
  <2>3. Owed(Hanging, todo)' = Owed(Hanging, todo) /\ NoCall' = NoCall
    BY <2>1 DEF NoCall
  <2>4. ToHang' \in Nat /\ r * ToHang \in Nat /\ r * ToHang' \in Nat
    <3>1. ToHang' \in Nat
      BY <2>3, HangTypes DEF ToHang
    <3> QED
      BY <1>t, <3>1
  <2>5. CASE wait = 0
    <3>1. call'.ch = call.ch \/ call' = NoCall
      BY <1>6, <2>1 DEF Answer, TypeOK
    <3>2. ToHang >= ToHang'
      BY <2>1, <2>3, <3>1, HangTypes DEF ToHang
    <3>3. r * ToHang >= r * ToHang'
      <4>1. CASE ToHang = ToHang'
        BY <1>t, <2>4, <4>1
      <4>2. CASE ToHang >= ToHang' + 1
        <5>1. r \in Nat
          BY <1>t
        <5> HIDE DEF r
        <5>2. r * ToHang >= r * ToHang' + r
          BY <1>t, <2>4, <4>2, <5>1, OneRequestLess
        <5> QED
          BY <2>4, <5>1, <5>2
      <4> QED
        BY <1>t, <2>4, <3>2, <4>1, <4>2
    <3> HIDE DEF m
    <3>4. wait' <= r /\ ~(wait' > 0) /\ elapsed' - wait' + r * ToHang' <= r * m
      BY <1>t, <2>1, <2>2, <2>4, <2>5, <3>3
    <3> QED
      BY <1>s, <2>1, <2>2, <3>4 DEF HangInv, m
  <2>6. CASE wait > 0
    <3>1. call.ch \in Hanging /\ Asked(call) \in hung
      BY <2>1, <2>2, <2>6, HangsFew
    <3>2. call' = NoCall
      BY <1>6, <3>1 DEF Answer
    <3>3. ToHang >= ToHang' + 1
      BY <2>1, <2>3, <3>1, <3>2, HangTypes DEF ToHang
    <3>4. r * ToHang >= r * ToHang' + r
      <4>1. r \in Nat
        BY <1>t
      <4> HIDE DEF r
      <4> QED
        BY <1>t, <2>4, <3>3, <4>1, OneRequestLess
    <3> HIDE DEF m
    <3>5. wait' <= r /\ ~(wait' > 0) /\ elapsed' - wait' + r * ToHang' <= r * m
      BY <1>t, <2>1, <2>2, <2>4, <3>4
    <3> QED
      BY <1>s, <2>1, <2>2, <3>5 DEF HangInv, m
  <2> QED
    BY <1>t, <2>5, <2>6
<1>7. ASSUME NEW v \in Validators, Hang(v) PROVE HangInv(k)'
  <2>1. UNCHANGED <<pc, round, elapsed, wait, call, todo>> /\ hung \subseteq hung'
    BY <1>7 DEF Hang, progress, results
  <2>2. ToHang' = ToHang
    BY <2>1 DEF ToHang, NoCall
  <2>3. pc = "calls" /\ Hangs => Hangs'
    BY <2>1 DEF Hangs, Asked, NoCall
  <2> QED
    BY <1>s, <2>1, <2>2, <2>3 DEF HangInv
<1>8. CASE UNCHANGED vars \/ \E c \in Channels : Create(c) \/ Finish(c)
  <2>1. UNCHANGED <<pc, round, elapsed, wait, call, todo, hung>>
    BY <1>8 DEF Create, Finish, vars, world, progress, results
  <2>2. ToHang' = ToHang /\ Hangs' = Hangs
    BY <2>1 DEF ToHang, Hangs, Asked, NoCall
  <2> QED
    BY <1>s, <2>1, <2>2 DEF HangInv
<1>9. ~TimeOut /\ ~Commit
  BY DEF TimeOut, Commit, EndRound
<1> QED
  BY <1>1, <1>2, <1>3, <1>4, <1>5, <1>6, <1>7, <1>8, <1>9 DEF Next, Task

LEMMA AskedStep ==
  ASSUME NEW k \in Kinds, NEW c \in Channels, TypeOK, HangInv(k), AskedInv(k, c), Settled(k, c),
         [Next]_vars
  PROVE  AskedInv(k, c)'
<1> SUFFICES ASSUME pc' = "calls", round' = k, Answers(c)',
                    c \in IF k = "new" THEN created' \ ended' ELSE cached'
             PROVE  (todo[c] > 0 \/ (call # NoCall /\ call.ch = c) \/ c \in got \cup gone)'
  BY DEF AskedInv, Kinds
<1>s. Answers(c)
  BY DEF Answers, Next, Task, Tick, StartNew, StartUpdate, TimeOut, ListChannels, Call, Answer,
         Commit, Create, Finish, Hang, EndRound, vars, world
<1>e. k = "new" => c \notin ended
  BY DEF Next, Task, Tick, StartNew, StartUpdate, TimeOut, ListChannels, Call, Answer,
         Commit, Create, Finish, Hang, EndRound, vars, world
<1>h. Leader[c] \notin hung \cup Flaky /\ Follower[c] \notin hung \cup Flaky
  BY <1>s DEF Answers, ValidatorsOf, TypeOK
<1>1. CASE StartUpdate
  <2>1. k = "update" /\ todo' = [d \in Channels |-> IF d \in cached THEN 1 ELSE 0] /\ cached' = cached
    BY <1>1 DEF StartUpdate, Yield
  <2> QED
    BY <2>1
<1>2. CASE ListChannels
  <2>1. PICK listed \in [Channels -> 0..2 * Repeats] :
          (\A d \in Channels : listed[d] \in Listings(d)) /\ todo' = listed
    BY <1>2 DEF ListChannels
  <2>2. k = "new" /\ c \in created
    BY <1>2, <1>s DEF ListChannels, HangInv, Settled, Answers
  <2> DEFINE sure == ValidatorsOf(c) \ (hung \cup Flaky)
  <2>3. todo'[c] \in Cardinality(sure)..Repeats * Cardinality(ValidatorsOf(c) \ hung)
    BY <1>e, <2>1, <2>2 DEF Listings
  <2>4. sure # {}
    BY <1>h DEF ValidatorsOf
  <2>5. Cardinality(sure) \in Nat /\ Cardinality(sure) # 0
    <3>1. IsFiniteSet(sure)
      <4>1. IsFiniteSet({Leader[c]} \cup {Follower[c]})
        BY FS_Singleton, FS_AddElement
      <4>2. sure \subseteq {Leader[c]} \cup {Follower[c]}
        BY DEF ValidatorsOf
      <4> QED
        BY <4>1, <4>2, FS_Subset
    <3> QED
      BY <2>4, <3>1, FS_EmptySet, FS_CardinalityType
  <2> HIDE DEF sure
  <2> QED
    BY <2>3, <2>5
<1> DEFINE Kept == todo[c] > 0 \/ (call # NoCall /\ call.ch = c) \/ c \in got \cup gone
<1>3. ASSUME NEW d \in Channels, Call(d) PROVE Kept'
  <2>1. Kept
    BY <1>3, <1>s, <1>e DEF Call, AskedInv, Settled
  <2>2. /\ call = NoCall /\ call' = [ch |-> d, n |-> 1] /\ call' # NoCall /\ call'.ch = d
        /\ todo' = [todo EXCEPT ![d] = todo[d] - 1] /\ UNCHANGED results
    BY <1>3 DEF Call, NoCall
  <2>3. CASE c = d
    BY <2>2, <2>3 DEF NoCall
  <2>4. CASE c # d
    <3>1. todo'[c] = todo[c]
      BY <2>2, <2>4 DEF TypeOK
    <3> QED
      BY <2>1, <2>2, <3>1 DEF results
  <2> QED
    BY <2>3, <2>4
<1>4. CASE Answer
  <2>1. Kept
    BY <1>4, <1>s, <1>e DEF Answer, AskedInv, Settled
  <2>2. call.ch = c => Asked(call) \notin hung \cup Flaky
    BY <1>h DEF Asked
  <2>3. CASE call.ch = c
    <3>1. (call' # NoCall /\ call'.ch = c) \/ c \in got' \cup gone'
      BY <1>4, <2>2, <2>3 DEF Answer, NoCall, TypeOK
    <3> QED
      BY <3>1
  <2>4. CASE call.ch # c
    BY <1>4, <2>1, <2>4 DEF Answer, results
  <2> QED
    BY <2>3, <2>4
<1>5. CASE \/ Tick \/ UNCHANGED vars
           \/ \E d \in Channels : Create(d) \/ Finish(d)
           \/ \E v \in Validators : Hang(v)
  <2>1. UNCHANGED <<pc, round, todo, call, got, gone, cached>>
    BY <1>5 DEF Tick, Create, Finish, Hang, vars, progress, results
  <2>2. Kept
    BY <1>s, <1>e, <2>1 DEF AskedInv, Settled
  <2> QED
    BY <2>1, <2>2 DEF NoCall
<1>6. ~TimeOut /\ ~Commit /\ ~StartNew
  BY DEF TimeOut, Commit, EndRound, StartNew
<1> QED
  BY <1>1, <1>2, <1>3, <1>4, <1>5, <1>6 DEF Next, Task

\* A round that has the time is not dropped: it ends with all it was asked for.
LEMMA NotDropped ==
  ASSUME NEW k \in Kinds, NEW c \in Channels, TypeOK, HangInv(k), Given(k, c),
         [Next]_vars, pc # "select", round = k, pc' = "select"
  PROVE  Commit /\ pc = "calls"
<1> DEFINE r == settings.request
           m == MostHanging(k)
<1>t. /\ r \in Nat \ {0} /\ m \in Nat /\ r * m \in Nat /\ ToHang \in Nat /\ r * ToHang \in Nat
      /\ elapsed \in Nat /\ wait \in Nat /\ settings.timeout[k] > r * m /\ settings.answer = 0
  <2>1. ToHang \in Nat /\ m \in Nat /\ r \in Nat \ {0}
    BY HangTypes
  <2>2. r * m \in Nat /\ r * ToHang \in Nat
    BY <2>1
  <2> QED
    BY <2>1, <2>2 DEF Given, Answers, TypeOK
<1>1. elapsed <= r * m
  <2>1. CASE pc = "list"
    <3> DEFINE h == Repeats * HangingCalls
    <3>1. elapsed <= r /\ m = 1 + h /\ h \in Nat
      BY <1>t, <2>1, HangTypes DEF HangInv, MostHanging
    <3>2. r * m >= r * h + r
      <4>1. r \in Nat /\ m >= h + 1
        BY <1>t, <3>1
      <4> HIDE DEF r, m, h
      <4> QED
        BY <1>t, <3>1, <4>1, OneRequestLess
    <3>3. r * h \in Nat
      BY <1>t, <3>1
    <3> HIDE DEF m, h
    <3> QED
      BY <1>t, <3>1, <3>2, <3>3
  <2>2. CASE pc = "calls"
    <3>1. (wait > 0 => Hangs) /\ wait <= r /\ elapsed - wait + r * ToHang <= r * m
      BY <1>t, <2>2 DEF HangInv
    <3>2. CASE wait = 0
      <4> HIDE DEF m
      <4> QED
        BY <1>t, <3>1, <3>2
    <3>3. CASE wait > 0
      <4>1. call # NoCall /\ call.ch \in Hanging
        BY <2>2, <3>1, <3>3, HangsFew
      <4>2. ToHang >= 0 + 1
        BY <4>1, HangTypes DEF ToHang
      <4>3. r * ToHang >= r * 0 + r
        <5>1. r \in Nat
          BY <1>t
        <5> HIDE DEF r
        <5> QED
          BY <1>t, <4>2, <5>1, OneRequestLess
      <4> HIDE DEF m
      <4> QED
        BY <1>t, <3>1, <4>3
    <3> QED
      BY <1>t, <3>2, <3>3
  <2> QED
    BY <2>1, <2>2 DEF TypeOK
<1>2. ~TimeOut
  <2>1. elapsed < settings.timeout[k]
    <3>1. settings.timeout[k] \in Nat
      BY DurationsAssumption DEF TypeOK
    <3> HIDE DEF m
    <3> QED
      BY <1>t, <1>1, <3>1
  <2> QED
    BY <1>t, <2>1 DEF TimeOut, Deadline
<1>3. Commit
  BY <1>2 DEF Next, Task, Tick, StartNew, StartUpdate, Yield, ListChannels, Call, Answer,
         Create, Finish, Hang, vars
<1> QED
  BY <1>3 DEF Commit

\* What UpdatedGivenTime needs of each update: if the settings leave it time for the
\* calls that hang, it ends with the results of every cached campaign whose own
\* validators answer, whenever validators begin to hang, and without those that it
\* has found finalized.
UpdatesReachAll ==
  [][\A c \in Channels :
       /\ pc # "select" /\ round = "update" /\ pc' = "select"
       /\ c \in cached /\ Given("update", c)
       => Refreshes(c)]_vars

THEOREM UpdatesAreNotLost == Spec => UpdatesReachAll
<1> DEFINE J == HangInv("update") /\ \A c \in Channels : AskedInv("update", c)
<1>1. Init => J
  BY DEF Init, HangInv, AskedInv
<1>2. TypeOK /\ TypeOK' /\ J /\ [Next]_vars => J'
  <2> SUFFICES ASSUME TypeOK, TypeOK', J, [Next]_vars PROVE J'
    OBVIOUS
  <2>1. HangInv("update")'
    BY HangStep DEF Kinds
  <2>2. ASSUME NEW c \in Channels PROVE AskedInv("update", c)'
    BY AskedStep DEF Kinds, Settled
  <2> QED
    BY <2>1, <2>2
<1>3. ASSUME TypeOK, J, [Next]_vars, NEW c \in Channels, pc # "select", round = "update",
             pc' = "select", c \in cached, Given("update", c)
      PROVE  Refreshes(c)
  <2>1. Commit /\ pc = "calls"
    BY <1>3, NotDropped DEF Kinds
  <2>2. call = NoCall /\ todo = NoCalls /\ (c \in gone => c \notin cached')
    BY <2>1 DEF Commit
  <2>3. todo[c] > 0 \/ (call # NoCall /\ call.ch = c) \/ c \in got \cup gone
    BY <1>3, <2>1 DEF AskedInv, Given
  <2> QED
    BY <1>3, <2>1, <2>2, <2>3 DEF Refreshes, NoCalls
<1>4. TypeOK /\ J /\ [Next]_vars =>
        [\A c \in Channels :
           /\ pc # "select" /\ round = "update" /\ pc' = "select"
           /\ c \in cached /\ Given("update", c)
           => Refreshes(c)]_vars
  BY <1>3
<1> HIDE DEF J
<1> QED
  BY <1>1, <1>2, <1>4, TypeCorrect, PTL DEF Spec, UpdatesReachAll

\* What DiscoveredGivenTime needs of each new round, from a time when all validators
\* that will hang do: if the settings leave it time for them, it ends with the
\* campaign in the cache, unless that has come to its end.
Found(c) ==
  [][/\ pc # "select" /\ round = "new" /\ pc' = "select"
     /\ Given("new", c)
     => c \in cached' \cup ended']_vars

THEOREM NewRoundsFindCampaigns ==
  ASSUME NEW c \in Channels
  PROVE  Spec => [](pc = "select" /\ hung = MayHang /\ c \in created => Found(c))
<1> DEFINE J == HangInv("new") /\ AskedInv("new", c) /\ Settled("new", c)
           E == /\ pc # "select" /\ round = "new" /\ pc' = "select"
                /\ Given("new", c)
                => c \in cached' \cup ended'
<1>1. pc = "select" /\ hung = MayHang /\ c \in created => J
  BY DEF HangInv, AskedInv, Settled
<1>2. TypeOK /\ TypeOK' /\ J /\ [Next]_vars => J'
  <2> SUFFICES ASSUME TypeOK, TypeOK', J, [Next]_vars PROVE J'
    OBVIOUS
  <2>1. HangInv("new")'
    BY HangStep DEF Kinds, Settled
  <2>2. AskedInv("new", c)'
    BY AskedStep DEF Kinds
  <2>3. Settled("new", c)'
    BY DEF Settled, Next, Task, Tick, StartNew, StartUpdate, TimeOut, ListChannels, Call, Answer,
           Commit, Create, Finish, Hang, EndRound, vars, world
  <2> QED
    BY <2>1, <2>2, <2>3
<1>3. TypeOK /\ J /\ [Next]_vars => [E]_vars
  <2> SUFFICES ASSUME TypeOK, J, [Next]_vars, pc # "select", round = "new", pc' = "select",
                      Given("new", c)
               PROVE  c \in cached' \cup ended'
    OBVIOUS
  <2>1. Commit /\ pc = "calls"
    BY NotDropped DEF Kinds
  <2>2. /\ call = NoCall /\ todo = NoCalls /\ ended' = ended
        /\ cached' = (cached \cup got) \ gone /\ gone \subseteq ended
    BY <2>1 DEF Commit, EndRound, world, TypeOK
  <2>3. \/ todo[c] > 0 \/ (call # NoCall /\ call.ch = c)
        \/ c \in got \cup gone \cup ended
    BY <2>1 DEF AskedInv, Given, Settled
  <2> QED
    BY <2>2, <2>3 DEF NoCalls
<1> HIDE DEF J
<1> QED
  BY <1>1, <1>2, <1>3, TypeCorrect, PTL DEF Spec, Found
==============================================================================
