------------------------- MODULE FallbackChainProofs -------------------------
(***************************************************************************)
(* What is kept per client follows the client, a call asks the clients in  *)
(* order and none of them twice, and its answer is explained by its        *)
(* attempts: for every set of calls, every chain and every change of it.   *)
(*                                                                         *)
(* The invariant says of the chain that its ids ascend, below nextID: a    *)
(* client that was removed leaves an id nobody gets again.  It says of a   *)
(* call that its snapshot ascends too, and that its attempts so far are    *)
(* the beginning of the snapshot.                                          *)
(***************************************************************************)
EXTENDS FallbackChain, TLAPS, FiniteSetTheorems, WellFoundedInduction

Entries == [id : Ids, cooldown : 0..RecoveryAfter]
Attempts == [id : Ids, outcome : {"ok", "failed", "refused"}]
Results == {"none", "noClients", "ok", "error", "allFailed", "canceled"}
\* The weights the chain is made with, and the weight of a client added later.
Weights == {ByWeight(InitialWeights)[i] : i \in 1..Len(InitialWeights)} \cup {1}

\* The variables have their types.
TypeOK ==
    /\ entries \in Seq(Entries)
    /\ weights \in Seq(Weights)
    /\ nextID \in 1..(MaxId + 1)
    /\ pc \in [Requests -> {"start", "trying", "firstChunk", "forwarding", "done"}]
    /\ candidates \in [Requests -> Seq(Ids)]
    /\ at \in [Requests -> Nat]
    /\ tried \in [Requests -> Seq(Attempts)]
    /\ fallbacks \in [Requests -> Nat]
    /\ result \in [Requests -> Results]
    /\ blamed \subseteq Ids
    /\ weightOf \in [Ids -> Weights]

\* Ids are given out in ascending order and never again.
IdsAscend ==
    /\ \A i, j \in DOMAIN entries : i < j => entries[i].id < entries[j].id
    /\ \A i \in DOMAIN entries : entries[i].id < nextID

\* A client to come will have the weight of one that is added.
WeightToCome == \A id \in Ids : id >= nextID => weightOf[id] = 1

ChainInv == IdsAscend /\ WeightToCome /\ HealthAndWeightFollowTheClient

\* The snapshot ascends, and the attempts are the beginning of it; all of them but
\* the last one were worth falling back from.
FollowsItsSnapshot(r) ==
    /\ \A i, j \in DOMAIN candidates[r] : i < j => candidates[r][i] < candidates[r][j]
    /\ Len(tried[r]) <= Len(candidates[r])
    /\ \A i \in DOMAIN tried[r] : tried[r][i].id = candidates[r][i]
    /\ \A i \in DOMAIN tried[r] : i < Len(tried[r]) => tried[r][i].outcome = "failed"

\* Where a call is in its snapshot, by what it does.
KnowsItsPlace(r) ==
    /\ pc[r] = "start" => tried[r] = <<>> /\ fallbacks[r] = 0
    /\ pc[r] \in {"trying", "firstChunk"} =>
          /\ at[r] \in 1..Len(candidates[r])
          /\ Len(tried[r]) = at[r] - 1 /\ fallbacks[r] = at[r] - 1
          /\ \A i \in DOMAIN tried[r] : tried[r][i].outcome = "failed"
    /\ pc[r] = "forwarding" =>
          /\ at[r] \in 1..Len(candidates[r])
          /\ Len(tried[r]) = at[r] /\ fallbacks[r] = at[r] - 1
          /\ tried[r][at[r]].outcome = "ok"
    /\ pc[r] = "done" => result[r] # "none"

\* What the last attempt of a call that returned says of its answer.
Explained(r) ==
    pc[r] = "done" /\ result[r] # "noClients" =>
        LET n == Len(tried[r]) IN
        /\ fallbacks[r] = (IF result[r] = "canceled" THEN n ELSE n - 1)
        /\ result[r] = "canceled" => \A i \in 1..n : tried[r][i].outcome = "failed"
        /\ result[r] # "canceled" => n \in Nat \ {0}
        /\ result[r] = "ok" => tried[r][n].outcome = "ok"
        /\ result[r] = "error" => tried[r][n].outcome = "refused"
        /\ result[r] = "allFailed" =>
             n = Len(candidates[r]) /\ tried[r][n].outcome = "failed"

CallInv(r) == FollowsItsSnapshot(r) /\ KnowsItsPlace(r) /\ Explained(r)

\* The inductive invariant.
IInv == TypeOK /\ ChainInv /\ \A r \in Requests : CallInv(r)

-----------------------------------------------------------------------------
(* The operators the chain is built from.                                  *)

\* A set of numbers has a least one.
LEMMA LeastOne ==
    ASSUME NEW T \in SUBSET Nat, T # {}
    PROVE  \E x \in T : \A y \in T : x <= y
  <1>1. PICK x \in T : \A y \in T : <<y, x>> \notin OpToRel(<, Nat)
    BY NatLessThanWellFounded, WFMin
  <1>2. ASSUME NEW y \in T PROVE x <= y
    <2>1. x \in Nat /\ y \in Nat /\ <<y, x>> \notin OpToRel(<, Nat)
      BY <1>1
    <2> QED
      BY <2>1 DEF OpToRel
  <1> QED
    BY <1>1, <1>2

Ascending(f, n) == \A i, j \in 1..n : i < j => f[i] < f[j]

\* One more position, after the ones that are in order.
LEMMA OneMore ==
    ASSUME NEW n \in Nat \ {0}, NEW S \in SUBSET (1..n), n \in S,
           NEW f \in [1..Cardinality(S \ {n}) -> S \ {n}],
           Ascending(f, Cardinality(S \ {n}))
    PROVE  \E places \in [1..Cardinality(S) -> S] : Ascending(places, Cardinality(S))
  <1> DEFINE c == Cardinality(S \ {n})
             g == [i \in 1..(c + 1) |-> IF i <= c THEN f[i] ELSE n]
  <1>1. IsFiniteSet(S) /\ IsFiniteSet(S \ {n})
    <2>1. IsFiniteSet(1..n)
      BY FS_Interval
    <2>2. S \ {n} \subseteq 1..n
      OBVIOUS
    <2> QED
      BY <2>1, <2>2, FS_Subset
  <1>2. c \in Nat /\ Cardinality(S) = c + 1
    BY <1>1, FS_RemoveElement, FS_CardinalityType
  <1>3. \A i \in 1..c : f[i] \in S /\ f[i] \in 1..n /\ f[i] # n
    OBVIOUS
  <1>4. g \in [1..(c + 1) -> S]
    BY <1>2, <1>3
  <1>5. Ascending(g, c + 1)
    <2> SUFFICES ASSUME NEW i \in 1..(c + 1), NEW j \in 1..(c + 1), i < j
                 PROVE  g[i] < g[j]
      BY DEF Ascending
    <2>1. i \in 1..c /\ g[i] = f[i] /\ f[i] \in 1..n /\ f[i] # n
      BY <1>2, <1>3
    <2>2. CASE j \in 1..c
      <3>1. f[i] < f[j]
        <4>1. \A k, l \in 1..c : k < l => f[k] < f[l]
          BY DEF Ascending
        <4> QED
          BY <2>1, <2>2, <4>1
      <3>2. g[j] = f[j]
        BY <1>2, <2>2
      <3> QED
        BY <2>1, <3>1, <3>2
    <2>3. CASE j = c + 1
      BY <1>2, <2>1, <2>3
    <2> QED
      BY <1>2, <2>2, <2>3
  <1> QED
    BY <1>2, <1>4, <1>5

\* Every set of positions can be put in order.
LEMMA OrderExists ==
    ASSUME NEW n \in Nat, NEW S \in SUBSET (1..n)
    PROVE  \E places \in [1..Cardinality(S) -> S] : Ascending(places, Cardinality(S))
  <1> DEFINE Ordered(R) ==
                 \E places \in [1..Cardinality(R) -> R] : Ascending(places, Cardinality(R))
             Bad == {m \in Nat : \E R \in SUBSET (1..m) : ~Ordered(R)}
  <1>1. ASSUME NEW m \in Bad, \A k \in Bad : m <= k PROVE FALSE
    <2>1. PICK R \in SUBSET (1..m) : ~Ordered(R)
      OBVIOUS
    <2>2. CASE m = 0
      <3>1. R = {}
        BY <2>2
      <3>2. Cardinality(R) = 0
        BY <3>1, FS_EmptySet
      <3>3. [i \in 1..0 |-> i] \in [1..0 -> R] /\ Ascending([i \in 1..0 |-> i], 0)
        BY DEF Ascending
      <3> QED
        BY <2>1, <3>2, <3>3
    <2>3. CASE m # 0
      <3>1. m \in Nat \ {0} /\ m - 1 \in Nat
        BY <2>3
      <3>2. m - 1 \notin Bad
        <4>1. ~(m <= m - 1)
          BY <3>1
        <4> HIDE DEF Bad
        <4> QED
          BY <1>1, <4>1
      <3>3. R \ {m} \in SUBSET (1..(m - 1))
        BY <2>1, <3>1
      <3>4. Ordered(R \ {m})
        BY <3>1, <3>2, <3>3
      <3>5. CASE m \in R
        BY <2>1, <3>1, <3>4, <3>5, OneMore
      <3>6. CASE m \notin R
        <4>1. R \ {m} = R
          BY <3>6
        <4> QED
          BY <2>1, <3>4, <4>1
      <3> QED
        BY <3>5, <3>6
    <2> QED
      BY <2>2, <2>3
  <1>2. Bad = {}
    <2>1. Bad \in SUBSET Nat
      OBVIOUS
    <2> QED
      BY <1>1, <2>1, LeastOne
  <1> QED
    BY <1>2

LEMMA InOrderAscends ==
    ASSUME NEW n \in Nat, NEW S \in SUBSET (1..n)
    PROVE  /\ Cardinality(S) \in Nat
           /\ InOrder(S) \in [1..Cardinality(S) -> S]
           /\ Ascending(InOrder(S), Cardinality(S))
  <1>1. Cardinality(S) \in Nat
    <2>1. IsFiniteSet(1..n)
      BY FS_Interval
    <2> QED
      BY <2>1, FS_Subset, FS_CardinalityType
  <1>2. \E places \in [1..Cardinality(S) -> S] : Ascending(places, Cardinality(S))
    BY OrderExists
  <1> QED
    BY <1>1, <1>2 DEF InOrder, Ascending

\* The snapshot of a chain whose ids ascend.
LEMMA SnapshotAscends ==
    ASSUME TypeOK, IdsAscend
    PROVE  /\ Snapshot \in Seq(Ids)
           /\ \A i, j \in DOMAIN Snapshot : i < j => Snapshot[i] < Snapshot[j]
  <1> DEFINE c == Cardinality(Eligible)
             places == InOrder(Eligible)
  <1>1. Len(entries) \in Nat /\ Eligible \in SUBSET (1..Len(entries))
    BY DEF TypeOK, Eligible
  <1>2. c \in Nat /\ places \in [1..c -> Eligible] /\ Ascending(places, c)
    BY <1>1, InOrderAscends
  <1>3. \A i \in 1..c : places[i] \in 1..Len(entries) /\ entries[places[i]] \in Entries
    <2>1. entries \in Seq(Entries)
      BY DEF TypeOK
    <2> HIDE DEF places, c
    <2>2. \A i \in 1..c : places[i] \in Eligible
      BY <1>2
    <2>3. \A i \in 1..c : places[i] \in 1..Len(entries)
      BY <1>1, <2>2
    <2>4. \A k \in 1..Len(entries) : entries[k] \in Entries
      BY <2>1
    <2> QED
      BY <2>3, <2>4
  <1>4. \A i \in 1..c : Snapshot[i] = entries[places[i]].id /\ Snapshot[i] \in Ids
    BY <1>3 DEF Snapshot, Entries
  <1>5. Snapshot \in Seq(Ids) /\ DOMAIN Snapshot = 1..c
    <2>1. Snapshot = [i \in 1..c |-> entries[places[i]].id]
      BY DEF Snapshot
    <2> HIDE DEF places
    <2> QED
      BY <1>2, <1>3, <2>1 DEF Entries
  <1> QED
    BY <1>2, <1>3, <1>4, <1>5 DEF Ascending, IdsAscend

LEMMA RemoveAtShape ==
    ASSUME NEW T, NEW s \in Seq(T), NEW i \in DOMAIN s
    PROVE  /\ RemoveAt(s, i) \in Seq(T)
           /\ Len(RemoveAt(s, i)) = Len(s) - 1
           /\ \A j \in 1..(Len(s) - 1) : RemoveAt(s, i)[j] = IF j < i THEN s[j] ELSE s[j + 1]
  <1> DEFINE front == SubSeq(s, 1, i - 1)
             back == SubSeq(s, i + 1, Len(s))
  <1>1. /\ front \in Seq(T) /\ Len(front) = i - 1
        /\ \A j \in 1..(i - 1) : front[j] = s[j]
    OBVIOUS
  <1>2. /\ back \in Seq(T) /\ Len(back) = Len(s) - i
        /\ \A j \in 1..(Len(s) - i) : back[j] = s[i + j]
    OBVIOUS
  <1> HIDE DEF front, back
  <1>3. RemoveAt(s, i) = front \o back
    BY DEF RemoveAt, front, back
  <1>4. ASSUME NEW j \in 1..(Len(s) - 1)
        PROVE  (front \o back)[j] = IF j < i THEN s[j] ELSE s[j + 1]
    <2>1. i \in 1..Len(s) /\ Len(s) \in Nat
      OBVIOUS
    <2>2. CASE j < i
      <3>1. j \in 1..Len(front) /\ front[j] = s[j]
        BY <1>1, <2>1, <2>2
      <3>2. (front \o back)[j] = front[j]
        BY <1>1, <1>2, <3>1
      <3> QED
        BY <2>2, <3>1, <3>2
    <2>3. CASE ~(j < i)
      <3> DEFINE k == j - i + 1
      <3>1. /\ Len(front) = i - 1 /\ Len(back) = Len(s) - i
            /\ front \in Seq(T) /\ back \in Seq(T)
        BY <1>1, <1>2
      <3>2. k \in 1..(Len(s) - i) /\ j = i - 1 + k /\ j + 1 = i + k /\ k \in Int
        BY <2>1, <2>3
      <3> HIDE DEF k
      <3>3. back[k] = s[i + k]
        BY <1>2, <3>2
      <3>4. (front \o back)[Len(front) + k] = back[k]
        BY <3>1, <3>2
      <3> QED
        BY <2>3, <3>1, <3>2, <3>3, <3>4
    <2> QED
      BY <2>1, <2>2, <2>3
  <1> QED
    BY <1>1, <1>2, <1>3, <1>4

-----------------------------------------------------------------------------
(* The chain.                                                              *)

\* The same clients, whatever has become of their health.
SameClients ==
    /\ entries' \in Seq(Entries) /\ Len(entries') = Len(entries)
    /\ \A i \in DOMAIN entries : entries'[i].id = entries[i].id
    /\ UNCHANGED <<weights, nextID, weightOf>>

LEMMA SameClientsKeepWeights ==
    ASSUME TypeOK, ChainInv, SameClients, CooldownIsEarned'
    PROVE  ChainInv'
  <1>1. DOMAIN entries' = DOMAIN entries
    BY DEF TypeOK, SameClients
  <1>2. IdsAscend'
    BY <1>1 DEF ChainInv, IdsAscend, SameClients
  <1>3. WeightToCome'
    BY DEF ChainInv, WeightToCome, SameClients
  <1>4. WeightsAligned'
    BY <1>1 DEF ChainInv, HealthAndWeightFollowTheClient, WeightsAligned, SameClients
  <1> QED
    BY <1>2, <1>3, <1>4 DEF ChainInv, HealthAndWeightFollowTheClient

\* The health of one client is set, if it is still there.
LEMMA SetCooldownShape ==
    ASSUME TypeOK, NEW r \in Requests, NEW cooldown \in 0..RecoveryAfter,
           SetCooldown(r, cooldown)
    PROVE  /\ entries' \in Seq(Entries) /\ Len(entries') = Len(entries)
           /\ \A i \in DOMAIN entries :
                 /\ entries'[i].id = entries[i].id
                 /\ entries'[i].cooldown =
                       IF entries[i].id = Id(r) THEN cooldown ELSE entries[i].cooldown
  <1>1. /\ entries \in Seq(Entries) /\ DOMAIN entries = 1..Len(entries) /\ Len(entries) \in Nat
        /\ \A i \in 1..Len(entries) : entries[i] \in Entries
    BY DEF TypeOK
  <1>2. entries' = [i \in 1..Len(entries) |->
            IF entries[i].id = Id(r)
            THEN [entries[i] EXCEPT !.cooldown = cooldown] ELSE entries[i]]
    BY <1>1 DEF SetCooldown, Id
  <1>3. \A i \in 1..Len(entries) :
            /\ entries'[i] \in Entries /\ entries'[i].id = entries[i].id
            /\ entries'[i].cooldown =
                  IF entries[i].id = Id(r) THEN cooldown ELSE entries[i].cooldown
    BY <1>1, <1>2 DEF Entries
  <1>4. entries' \in Seq(Entries) /\ Len(entries') = Len(entries)
    <2>1. entries' = [i \in 1..Len(entries) |-> entries'[i]]
      BY <1>2
    <2> QED
      BY <1>1, <1>3, <2>1
  <1> QED
    BY <1>1, <1>3, <1>4

\* A call that hears from its client says so to the chain, or says nothing.
Heard(r) ==
    \/ MarkHealthy(r)
    \/ \E err \in Errors : Record(r, err)
    \/ UNCHANGED <<entries, blamed>>

LEMMA HeardKeepsChain ==
    ASSUME TypeOK, ChainInv, NEW r \in Requests, Id(r) \in Ids, Heard(r),
           UNCHANGED <<weights, nextID, weightOf>>
    PROVE  SameClients /\ blamed' \subseteq Ids /\ ChainInv'
  <1>1. /\ entries \in Seq(Entries) /\ blamed \subseteq Ids
        /\ DOMAIN entries = 1..Len(entries) /\ CooldownIsEarned
    BY DEF TypeOK, ChainInv, HealthAndWeightFollowTheClient
  <1>2. CASE MarkHealthy(r)
    <2>1. SetCooldown(r, 0) /\ blamed' = blamed \ {Id(r)} /\ 0 \in 0..RecoveryAfter
      BY <1>2, ChainAssumption DEF MarkHealthy
    <2>2. SameClients /\ DOMAIN entries' = DOMAIN entries
      BY <1>1, <2>1, SetCooldownShape DEF SameClients
    <2>3. CooldownIsEarned'
      BY <1>1, <2>1, <2>2, SetCooldownShape DEF CooldownIsEarned, Healthy
    <2> QED
      BY <1>1, <2>1, <2>2, <2>3, SameClientsKeepWeights
  <1>3. CASE \E err \in Errors : Record(r, err) /\ err.unhealthy
    <2>1. SetCooldown(r, RecoveryAfter) /\ blamed' = blamed \cup {Id(r)} /\ RecoveryAfter \in 0..RecoveryAfter
      BY <1>3, ChainAssumption DEF Record
    <2>2. SameClients /\ DOMAIN entries' = DOMAIN entries
      BY <1>1, <2>1, SetCooldownShape DEF SameClients
    <2>3. CooldownIsEarned'
      BY <1>1, <2>1, <2>2, SetCooldownShape DEF CooldownIsEarned, Healthy
    <2> QED
      BY <1>1, <2>1, <2>2, <2>3, SameClientsKeepWeights
  <1>4. CASE UNCHANGED <<entries, blamed>>
    <2>1. SameClients /\ CooldownIsEarned'
      BY <1>1, <1>4 DEF SameClients, CooldownIsEarned, Healthy
    <2> QED
      BY <1>1, <1>4, <2>1, SameClientsKeepWeights
  <1> QED
    BY <1>2, <1>3, <1>4 DEF Heard, Record

\* The chain is changed from outside.
LEMMA ManageKeepsChain ==
    ASSUME TypeOK, ChainInv, Manage
    PROVE  /\ entries' \in Seq(Entries) /\ weights' \in Seq(Weights)
           /\ nextID' \in 1..(MaxId + 1) /\ blamed' \subseteq Ids
           /\ UNCHANGED <<call, weightOf>> /\ ChainInv'
  <1>1. /\ entries \in Seq(Entries) /\ blamed \subseteq Ids /\ Len(entries) \in Nat
        /\ DOMAIN entries = 1..Len(entries) /\ CooldownIsEarned /\ IdsAscend
        /\ weights \in Seq(Weights) /\ nextID \in 1..(MaxId + 1) /\ WeightsAligned
        /\ \A i \in 1..Len(entries) : entries[i] \in Entries
    BY DEF TypeOK, ChainInv, HealthAndWeightFollowTheClient
  <1>2. CASE AddClient
    <2> DEFINE e == [id |-> nextID, cooldown |-> 0]
    <2>1. /\ nextID \in Ids /\ e \in Entries /\ 1 \in Weights /\ Len(weights) = Len(entries)
      BY <1>1, <1>2, ChainAssumption DEF AddClient, Ids, Entries, Weights, WeightsAligned
    <2>2. /\ entries' = Append(entries, e) /\ weights' = Append(weights, 1)
          /\ nextID' = nextID + 1 /\ UNCHANGED <<weightOf, call, blamed>>
      BY <1>2 DEF AddClient
    <2> HIDE DEF e
    <2>3. /\ entries' \in Seq(Entries) /\ DOMAIN entries' = 1..(Len(entries) + 1)
          /\ \A i \in 1..Len(entries) : entries'[i] = entries[i]
          /\ entries'[Len(entries) + 1] = e
      BY <1>1, <2>1, <2>2
    <2>4. /\ weights' \in Seq(Weights) /\ Len(weights') = Len(entries')
          /\ \A i \in 1..Len(entries) : weights'[i] = weights[i]
          /\ weights'[Len(entries) + 1] = 1
      BY <1>1, <2>1, <2>2
    <2>5. e.id = nextID /\ Healthy(e)
      BY DEF e, Healthy
    <2>6. IdsAscend'
      BY <1>1, <2>1, <2>2, <2>3, <2>5 DEF IdsAscend, Ids, Entries
    <2>7. WeightToCome' /\ weightOf[nextID] = 1
      BY <1>1, <2>1, <2>2 DEF ChainInv, WeightToCome, Ids
    <2>8. CooldownIsEarned'
      BY <1>1, <2>2, <2>3, <2>5 DEF CooldownIsEarned
    <2>9. WeightsAligned'
      BY <1>1, <2>2, <2>3, <2>4, <2>5, <2>7 DEF WeightsAligned
    <2>10. nextID' \in 1..(MaxId + 1)
      BY <2>1, <2>2, ChainAssumption DEF Ids
    <2>11. blamed' \subseteq Ids /\ UNCHANGED <<call, weightOf>>
      BY <1>1, <2>2
    <2> QED
      BY <2>3, <2>4, <2>6, <2>7, <2>8, <2>9, <2>10, <2>11
      DEF ChainInv, HealthAndWeightFollowTheClient
  <1>3. CASE ResetHealth
    <2>1. /\ entries' = [i \in 1..Len(entries) |-> [entries[i] EXCEPT !.cooldown = 0]]
          /\ blamed' = {} /\ UNCHANGED <<weights, nextID, weightOf, call>>
      BY <1>1, <1>3 DEF ResetHealth
    <2>2. \A i \in 1..Len(entries) :
            entries'[i] \in Entries /\ entries'[i].id = entries[i].id /\ Healthy(entries'[i])
      BY <1>1, <2>1, ChainAssumption DEF Entries, Healthy
    <2>3. SameClients
      BY <1>1, <2>1, <2>2 DEF SameClients
    <2>4. CooldownIsEarned'
      BY <1>1, <2>2, <2>3 DEF CooldownIsEarned, SameClients
    <2> QED
      BY <1>1, <2>1, <2>3, <2>4, SameClientsKeepWeights DEF SameClients
  <1>4. CASE Tick
    <2>1. /\ entries' = [i \in 1..Len(entries) |->
                  IF Healthy(entries[i]) THEN entries[i]
                  ELSE [entries[i] EXCEPT !.cooldown = @ - 1]]
          /\ UNCHANGED <<blamed, weights, nextID, weightOf, call>>
      BY <1>1, <1>4 DEF Tick
    <2>2. ASSUME NEW i \in 1..Len(entries)
          PROVE  /\ entries'[i] \in Entries /\ entries'[i].id = entries[i].id
                 /\ ~Healthy(entries'[i]) => ~Healthy(entries[i])
      <3>1. entries[i] \in Entries
        BY <1>1
      <3>2. CASE Healthy(entries[i])
        BY <2>1, <3>1, <3>2
      <3>3. CASE ~Healthy(entries[i])
        <4>1. entries'[i] = [entries[i] EXCEPT !.cooldown = @ - 1]
          BY <2>1, <3>3
        <4>2. entries[i].cooldown \in 1..RecoveryAfter /\ entries[i].id \in Ids
          BY <3>1, <3>3, ChainAssumption DEF Entries, Healthy
        <4> QED
          BY <3>1, <3>3, <4>1, <4>2, ChainAssumption DEF Entries
      <3> QED
        BY <3>2, <3>3
    <2>3. SameClients
      BY <1>1, <2>1, <2>2 DEF SameClients
    <2>4. CooldownIsEarned'
      BY <1>1, <2>1, <2>2, <2>3 DEF CooldownIsEarned, SameClients
    <2> QED
      BY <1>1, <2>1, <2>3, <2>4, SameClientsKeepWeights DEF SameClients
  <1>5. ASSUME NEW i \in DOMAIN entries, NEW healthy \in BOOLEAN, SetClientHealthy(i, healthy)
        PROVE  SameClients /\ blamed' \subseteq Ids /\ UNCHANGED call /\ ChainInv'
    <2> DEFINE c == IF healthy THEN 0 ELSE RecoveryAfter
    <2>1. c \in 0..RecoveryAfter
      BY ChainAssumption
    <2>2. /\ entries' = [entries EXCEPT ![i] = [entries[i] EXCEPT !.cooldown = c]]
          /\ blamed' = IF healthy THEN blamed \ {entries[i].id} ELSE blamed \cup {entries[i].id}
          /\ UNCHANGED <<weights, nextID, weightOf, call>>
      BY <1>5 DEF SetClientHealthy
    <2>3. entries[i] \in Entries /\ i \in 1..Len(entries)
      BY <1>1
    <2> HIDE DEF c
    <2>4. /\ entries'[i] \in Entries /\ entries'[i].id = entries[i].id
          /\ entries'[i].cooldown = c
          /\ \A j \in 1..Len(entries) : j # i => entries'[j] = entries[j]
      BY <1>1, <2>1, <2>2, <2>3 DEF Entries
    <2>5. entries' \in Seq(Entries) /\ Len(entries') = Len(entries) /\ DOMAIN entries' = 1..Len(entries)
      BY <1>1, <2>2, <2>4
    <2>6. SameClients
      BY <1>1, <2>2, <2>4, <2>5 DEF SameClients
    <2>7. ASSUME NEW j \in 1..Len(entries), j # i PROVE entries[j].id # entries[i].id
      <3>1. entries[j].id \in Int /\ entries[i].id \in Int
        BY <1>1, <2>3, ChainAssumption DEF Entries, Ids
      <3>2. j < i \/ i < j
        BY <2>3, <2>7
      <3> QED
        BY <1>1, <2>3, <3>1, <3>2 DEF IdsAscend
    <2>8. CooldownIsEarned'
      <3> SUFFICES ASSUME NEW j \in 1..Len(entries), ~Healthy(entries'[j])
                   PROVE  entries'[j].id \in blamed'
        BY <2>5 DEF CooldownIsEarned
      <3>1. CASE j = i
        BY <2>2, <2>4, <3>1 DEF c, Healthy
      <3>2. CASE j # i
        BY <1>1, <2>2, <2>4, <2>7, <3>2 DEF CooldownIsEarned
      <3> QED
        BY <3>1, <3>2
    <2>9. blamed' \subseteq Ids
      BY <1>1, <2>2, <2>3 DEF Entries
    <2> QED
      BY <2>2, <2>6, <2>8, <2>9, SameClientsKeepWeights
  <1>6. ASSUME NEW i \in DOMAIN entries, RemoveClient(i)
        PROVE  /\ entries' \in Seq(Entries) /\ weights' \in Seq(Weights) /\ ChainInv'
               /\ UNCHANGED <<nextID, weightOf, call, blamed>>
    <2>1. /\ entries' = RemoveAt(entries, i) /\ weights' = RemoveAt(weights, i)
          /\ UNCHANGED <<nextID, weightOf, call, blamed>>
      BY <1>6 DEF RemoveClient
    <2>2. i \in 1..Len(entries) /\ i \in DOMAIN weights /\ Len(weights) = Len(entries)
      BY <1>1 DEF WeightsAligned
    <2>3. /\ entries' \in Seq(Entries) /\ Len(entries') = Len(entries) - 1
          /\ \A j \in 1..(Len(entries) - 1) :
                entries'[j] = IF j < i THEN entries[j] ELSE entries[j + 1]
      BY <1>1, <2>1, <2>2, RemoveAtShape
    <2>4. /\ weights' \in Seq(Weights) /\ Len(weights') = Len(entries) - 1
          /\ \A j \in 1..(Len(entries) - 1) :
                weights'[j] = IF j < i THEN weights[j] ELSE weights[j + 1]
      BY <1>1, <2>1, <2>2, RemoveAtShape
    <2>5. DOMAIN entries' = 1..(Len(entries) - 1)
      BY <2>3
    <2>6. IdsAscend'
      <3>1. ASSUME NEW j \in 1..(Len(entries) - 1), NEW k \in 1..(Len(entries) - 1), j < k
            PROVE  entries'[j].id < entries'[k].id
        <4> DEFINE before == IF j < i THEN j ELSE j + 1
                   after == IF k < i THEN k ELSE k + 1
        <4>1. before \in 1..Len(entries) /\ after \in 1..Len(entries) /\ before < after
          BY <1>1, <2>2, <3>1
        <4>2. entries'[j] = entries[before] /\ entries'[k] = entries[after]
          BY <2>3
        <4> HIDE DEF before, after
        <4> QED
          BY <1>1, <4>1, <4>2 DEF IdsAscend
      <3>2. \A j \in 1..(Len(entries) - 1) : entries'[j].id < nextID'
        <4> SUFFICES ASSUME NEW j \in 1..(Len(entries) - 1) PROVE entries'[j].id < nextID'
          OBVIOUS
        <4>1. j \in 1..Len(entries) /\ j + 1 \in 1..Len(entries)
          BY <1>1
        <4>2. entries'[j] = entries[j] \/ entries'[j] = entries[j + 1]
          BY <2>3
        <4> QED
          BY <1>1, <2>1, <4>1, <4>2 DEF IdsAscend
      <3> QED
        BY <2>5, <3>1, <3>2 DEF IdsAscend
    <2>7. CooldownIsEarned'
      BY <1>1, <2>1, <2>2, <2>3, <2>5 DEF CooldownIsEarned
    <2>8. WeightsAligned'
      <3>1. ASSUME NEW j \in 1..(Len(entries) - 1)
            PROVE  weights'[j] = weightOf[entries'[j].id]
        <4> DEFINE before == IF j < i THEN j ELSE j + 1
        <4>1. before \in 1..Len(entries)
          BY <1>1, <2>2
        <4>2. entries'[j] = entries[before] /\ weights'[j] = weights[before]
          BY <2>3, <2>4
        <4> HIDE DEF before
        <4> QED
          BY <1>1, <4>1, <4>2 DEF WeightsAligned
      <3> QED
        BY <2>1, <2>3, <2>4, <2>5, <3>1 DEF WeightsAligned
    <2>9. WeightToCome'
      BY <2>1 DEF ChainInv, WeightToCome
    <2> QED
      BY <2>1, <2>3, <2>4, <2>6, <2>7, <2>8, <2>9 DEF ChainInv, HealthAndWeightFollowTheClient
  <1>7. CASE \E i \in DOMAIN entries : RemoveClient(i)
    BY <1>1, <1>6, <1>7
  <1>8. CASE \E i \in DOMAIN entries, healthy \in BOOLEAN : SetClientHealthy(i, healthy)
    BY <1>1, <1>5, <1>8 DEF SameClients
  <1> QED
    BY <1>2, <1>3, <1>4, <1>7, <1>8 DEF Manage

-----------------------------------------------------------------------------
(* A call.                                                                 *)

\* Only the call r moves.
OnlyCall(r) ==
    \A q \in Requests : q # r =>
        /\ pc'[q] = pc[q] /\ candidates'[q] = candidates[q] /\ at'[q] = at[q]
        /\ tried'[q] = tried[q] /\ fallbacks'[q] = fallbacks[q] /\ result'[q] = result[q]

CallTypes ==
    /\ pc \in [Requests -> {"start", "trying", "firstChunk", "forwarding", "done"}]
    /\ candidates \in [Requests -> Seq(Ids)]
    /\ at \in [Requests -> Nat]
    /\ tried \in [Requests -> Seq(Attempts)]
    /\ fallbacks \in [Requests -> Nat]
    /\ result \in [Requests -> Results]

\* The call of r, after a step of r, and the others as they were.
LEMMA CallsKept ==
    ASSUME \A q \in Requests : CallInv(q), NEW r \in Requests, OnlyCall(r), CallInv(r)'
    PROVE  (\A q \in Requests : CallInv(q))'
  <1>1. ASSUME NEW q \in Requests, q # r PROVE CallInv(q)'
    BY <1>1 DEF CallInv, OnlyCall, FollowsItsSnapshot, KnowsItsPlace, Explained
  <1> QED
    BY <1>1

\* The client that is being asked.
LEMMA AskedClient ==
    ASSUME TypeOK, NEW r \in Requests, CallInv(r), pc[r] \in {"trying", "firstChunk", "forwarding"}
    PROVE  Id(r) \in Ids /\ Id(r) = candidates[r][at[r]] /\ at[r] \in 1..Len(candidates[r])
  <1>1. candidates[r] \in Seq(Ids) /\ at[r] \in 1..Len(candidates[r])
    BY DEF TypeOK, CallInv, KnowsItsPlace
  <1> QED
    BY <1>1 DEF Id

LEMMA StartKeepsCalls ==
    ASSUME IInv, NEW r \in Requests, Start(r)
    PROVE  CallTypes' /\ (\A q \in Requests : CallInv(q))'
  <1>1. /\ CallTypes /\ CallInv(r) /\ pc[r] = "start" /\ Snapshot \in Seq(Ids)
        /\ \A i, j \in DOMAIN Snapshot : i < j => Snapshot[i] < Snapshot[j]
    BY SnapshotAscends DEF IInv, ChainInv, TypeOK, CallTypes, Start
  <1>2. tried[r] = <<>> /\ fallbacks[r] = 0
    BY <1>1 DEF CallInv, KnowsItsPlace
  <1>3. /\ candidates' = [candidates EXCEPT ![r] = Snapshot]
        /\ UNCHANGED <<tried, fallbacks>>
    BY DEF Start
  <1>4. CASE Snapshot = <<>>
    <2>1. pc' = [pc EXCEPT ![r] = "done"] /\ result' = [result EXCEPT ![r] = "noClients"] /\ at' = at
      BY <1>4 DEF Start, Return, Goto
    <2> QED
      BY <1>1, <1>2, <1>3, <2>1, CallsKept
      DEF CallTypes, CallInv, FollowsItsSnapshot, KnowsItsPlace, Explained, OnlyCall, Results, IInv
  <1>5. CASE Snapshot # <<>>
    <2>1. pc' = [pc EXCEPT ![r] = "trying"] /\ at' = [at EXCEPT ![r] = 1] /\ result' = result
      BY <1>5 DEF Start, Goto
    <2>2. 1 \in 1..Len(Snapshot)
      BY <1>1, <1>5
    <2> QED
      BY <1>1, <1>2, <1>3, <2>1, <2>2, CallsKept
      DEF CallTypes, CallInv, FollowsItsSnapshot, KnowsItsPlace, Explained, OnlyCall, Results, IInv
  <1> QED
    BY <1>4, <1>5

\* An attempt is over: what it adds to the history.
LEMMA TriedShape ==
    ASSUME TypeOK, NEW r \in Requests, CallInv(r), pc[r] \in {"trying", "firstChunk"},
           NEW outcome \in {"ok", "failed", "refused"}, Tried(r, outcome)
    PROVE  /\ tried' \in [Requests -> Seq(Attempts)]
           /\ \A q \in Requests : q # r => tried'[q] = tried[q]
           /\ Len(tried'[r]) = at[r] /\ DOMAIN tried'[r] = 1..at[r]
           /\ \A i \in 1..at[r] : tried'[r][i].id = candidates[r][i]
           /\ \A i \in 1..at[r] : i < at[r] => tried'[r][i].outcome = "failed"
           /\ tried'[r][at[r]].outcome = outcome
  <1> DEFINE attempt == [id |-> Id(r), outcome |-> outcome]
  <1>1. /\ tried \in [Requests -> Seq(Attempts)] /\ tried[r] \in Seq(Attempts) /\ at[r] \in Nat \ {0}
        /\ Len(tried[r]) = at[r] - 1
        /\ \A i \in 1..(at[r] - 1) : tried[r][i].id = candidates[r][i] /\ tried[r][i].outcome = "failed"
    BY DEF TypeOK, CallInv, KnowsItsPlace, FollowsItsSnapshot
  <1>2. attempt \in Attempts /\ attempt.id = candidates[r][at[r]] /\ attempt.outcome = outcome
    BY AskedClient DEF Attempts
  <1>3. tried' = [tried EXCEPT ![r] = Append(tried[r], attempt)]
    BY <1>1 DEF Tried
  <1> HIDE DEF attempt
  <1>4. /\ Append(tried[r], attempt) \in Seq(Attempts) /\ Len(Append(tried[r], attempt)) = at[r]
        /\ \A i \in 1..(at[r] - 1) : Append(tried[r], attempt)[i] = tried[r][i]
        /\ Append(tried[r], attempt)[at[r]] = attempt
    BY <1>1, <1>2
  <1>5. tried'[r] = Append(tried[r], attempt)
    BY <1>1, <1>3
  <1>6. ASSUME NEW i \in 1..at[r]
        PROVE  /\ tried'[r][i].id = candidates[r][i]
               /\ i < at[r] => tried'[r][i].outcome = "failed"
    <2>1. CASE i = at[r]
      BY <1>1, <1>2, <1>4, <1>5, <2>1
    <2>2. CASE i # at[r]
      BY <1>1, <1>4, <1>5, <2>2
    <2> QED
      BY <2>1, <2>2
  <1> QED
    BY <1>1, <1>2, <1>3, <1>4, <1>5, <1>6

\* A client has answered, well or badly, and the call goes on or returns.
Answered(r) ==
    \E outcome \in {"ok", "failed", "refused"} :
        /\ Tried(r, outcome)
        /\ UNCHANGED candidates
        /\ \/ outcome = "ok" /\ Return(r, "ok") /\ UNCHANGED <<at, fallbacks>>
           \/ outcome = "ok" /\ Goto(r, "forwarding") /\ UNCHANGED <<at, fallbacks, result>>
           \/ outcome = "failed" /\ FallBack(r)
           \/ outcome = "refused" /\ Return(r, "error") /\ UNCHANGED <<at, fallbacks>>

LEMMA AnsweredKeepsCalls ==
    ASSUME IInv, NEW r \in Requests, pc[r] \in {"trying", "firstChunk"}, Answered(r)
    PROVE  CallTypes' /\ (\A q \in Requests : CallInv(q))'
  <1>1. /\ TypeOK /\ CallTypes /\ CallInv(r) /\ fallbacks[r] = at[r] - 1 /\ at[r] \in Nat \ {0}
        /\ at[r] \in 1..Len(candidates[r]) /\ Len(candidates[r]) \in Nat
    BY DEF IInv, TypeOK, CallTypes, CallInv, KnowsItsPlace
  <1>2. PICK outcome \in {"ok", "failed", "refused"} :
        /\ Tried(r, outcome)
        /\ UNCHANGED candidates
        /\ \/ outcome = "ok" /\ Return(r, "ok") /\ UNCHANGED <<at, fallbacks>>
           \/ outcome = "ok" /\ Goto(r, "forwarding") /\ UNCHANGED <<at, fallbacks, result>>
           \/ outcome = "failed" /\ FallBack(r)
           \/ outcome = "refused" /\ Return(r, "error") /\ UNCHANGED <<at, fallbacks>>
    BY DEF Answered
  <1>3. /\ tried' \in [Requests -> Seq(Attempts)]
        /\ \A q \in Requests : q # r => tried'[q] = tried[q]
        /\ Len(tried'[r]) = at[r] /\ DOMAIN tried'[r] = 1..at[r]
        /\ \A i \in 1..at[r] : tried'[r][i].id = candidates[r][i]
        /\ \A i \in 1..at[r] : i < at[r] => tried'[r][i].outcome = "failed"
        /\ tried'[r][at[r]].outcome = outcome
    BY <1>1, <1>2, TriedShape
  <1>4. FollowsItsSnapshot(r)'
    BY <1>1, <1>2, <1>3 DEF CallInv, FollowsItsSnapshot
  <1>5. CASE outcome = "ok" /\ Return(r, "ok") /\ UNCHANGED <<at, fallbacks>>
    <2>1. /\ pc' = [pc EXCEPT ![r] = "done"] /\ result' = [result EXCEPT ![r] = "ok"]
          /\ UNCHANGED <<at, fallbacks, candidates>>
      BY <1>2, <1>5 DEF Return, Goto
    <2>2. KnowsItsPlace(r)' /\ Explained(r)'
      BY <1>1, <1>3, <1>5, <2>1 DEF CallTypes, KnowsItsPlace, Explained
    <2> QED
      BY <1>1, <1>3, <1>4, <2>1, <2>2, CallsKept DEF CallTypes, CallInv, OnlyCall, Results, IInv
  <1>6. CASE outcome = "ok" /\ Goto(r, "forwarding") /\ UNCHANGED <<at, fallbacks, result>>
    <2>1. pc' = [pc EXCEPT ![r] = "forwarding"] /\ UNCHANGED <<at, fallbacks, result, candidates>>
      BY <1>2, <1>6 DEF Goto
    <2>2. KnowsItsPlace(r)' /\ Explained(r)'
      BY <1>1, <1>3, <1>6, <2>1 DEF CallTypes, KnowsItsPlace, Explained
    <2> QED
      BY <1>1, <1>3, <1>4, <2>1, <2>2, CallsKept DEF CallTypes, CallInv, OnlyCall, IInv
  <1>7. CASE outcome = "failed" /\ FallBack(r) /\ at[r] < Len(candidates[r])
    <2>1. /\ pc' = [pc EXCEPT ![r] = "trying"] /\ at' = [at EXCEPT ![r] = @ + 1]
          /\ fallbacks' = [fallbacks EXCEPT ![r] = @ + 1] /\ UNCHANGED <<result, candidates>>
      BY <1>2, <1>7 DEF FallBack, Goto
    <2>2. /\ pc'[r] = "trying" /\ at'[r] = at[r] + 1 /\ fallbacks'[r] = at[r]
          /\ candidates'[r] = candidates[r]
      BY <1>1, <2>1 DEF CallTypes
    <2>3. \A i \in 1..at[r] : tried'[r][i].outcome = "failed"
      BY <1>1, <1>3, <1>7
    <2>4. KnowsItsPlace(r)' /\ Explained(r)'
      BY <1>1, <1>3, <1>7, <2>2, <2>3 DEF KnowsItsPlace, Explained
    <2>5. CallTypes'
      BY <1>1, <1>3, <2>1 DEF CallTypes
    <2>6. OnlyCall(r)
      BY <1>1, <1>3, <2>1 DEF CallTypes, OnlyCall
    <2> QED
      BY <1>4, <2>4, <2>5, <2>6, CallsKept DEF CallInv, IInv
  <1>8. CASE outcome = "failed" /\ FallBack(r) /\ ~(at[r] < Len(candidates[r]))
    <2>1. /\ pc' = [pc EXCEPT ![r] = "done"] /\ result' = [result EXCEPT ![r] = "allFailed"]
          /\ UNCHANGED <<at, fallbacks, candidates>>
      BY <1>2, <1>8 DEF FallBack, Return, Goto
    <2>2. KnowsItsPlace(r)' /\ Explained(r)'
      BY <1>1, <1>3, <1>8, <2>1 DEF CallTypes, KnowsItsPlace, Explained
    <2> QED
      BY <1>1, <1>3, <1>4, <2>1, <2>2, CallsKept DEF CallTypes, CallInv, OnlyCall, Results, IInv
  <1>9. CASE outcome = "refused" /\ Return(r, "error") /\ UNCHANGED <<at, fallbacks>>
    <2>1. /\ pc' = [pc EXCEPT ![r] = "done"] /\ result' = [result EXCEPT ![r] = "error"]
          /\ UNCHANGED <<at, fallbacks, candidates>>
      BY <1>2, <1>9 DEF Return, Goto
    <2>2. KnowsItsPlace(r)' /\ Explained(r)'
      BY <1>1, <1>3, <1>9, <2>1 DEF CallTypes, KnowsItsPlace, Explained
    <2> QED
      BY <1>1, <1>3, <1>4, <2>1, <2>2, CallsKept DEF CallTypes, CallInv, OnlyCall, Results, IInv
  <1> QED
    BY <1>2, <1>5, <1>6, <1>7, <1>8, <1>9

-----------------------------------------------------------------------------
(* The invariant.                                                          *)

\* A step of a call, as the chain and as the history of the calls see it.
LEMMA WorkShape ==
    ASSUME NEW r \in Requests, Work(r) \/ CancelFirst(r)
    PROVE  \/ Start(r)
           \/ /\ pc[r] \in {"trying", "firstChunk", "forwarding"}
              /\ Heard(r) /\ UNCHANGED <<weights, nextID, weightOf, candidates>>
              /\ \/ pc[r] # "forwarding" /\ Answered(r)
                 \/ Open(r)
                 \/ CancelFirst(r)
                 \/ EndForward(r)
  <1>1. CASE Start(r)
    BY <1>1
  <1>2. CASE Succeed(r)
    BY <1>2 DEF Succeed, Heard, Answered
  <1>3. CASE Open(r)
    BY <1>3 DEF Open, Heard, chain
  <1>4. CASE FirstChunk(r)
    BY <1>4 DEF FirstChunk, Heard, Answered
  <1>5. CASE EmptyStream(r)
    BY <1>5 DEF EmptyStream, Heard, Answered
  <1>6. CASE EndForward(r)
    BY <1>6 DEF EndForward, Heard
  <1>7. ASSUME NEW err \in Errors, Fail(r, err) \/ FirstError(r, err)
        PROVE  /\ pc[r] \in {"trying", "firstChunk"}
               /\ Heard(r) /\ UNCHANGED <<weights, nextID, weightOf, candidates>> /\ Answered(r)
    <2>1. /\ pc[r] \in {"trying", "firstChunk"} /\ Record(r, err)
          /\ Tried(r, IF err.fallback THEN "failed" ELSE "refused")
          /\ IF err.fallback THEN FallBack(r)
             ELSE Return(r, "error") /\ UNCHANGED <<at, fallbacks>>
          /\ UNCHANGED <<weights, nextID, weightOf, candidates>>
      BY <1>7 DEF Fail, FirstError
    <2> QED
      BY <2>1 DEF Heard, Answered
  <1>8. CASE CancelFirst(r)
    BY <1>8 DEF CancelFirst, Heard, chain
  <1> QED
    BY <1>1, <1>2, <1>3, <1>4, <1>5, <1>6, <1>7, <1>8 DEF Work

LEMMA InitIInv == Init => IInv
  <1> SUFFICES ASSUME Init PROVE IInv
    OBVIOUS
  <1> DEFINE n == Len(InitialWeights)
  <1>1. n \in Nat /\ n <= MaxId /\ MaxId \in Nat /\ RecoveryAfter \in Nat
    BY ChainAssumption
  <1>2. /\ weights \in Seq(Weights) /\ Len(weights) = n
        /\ \A i \in 1..n : weights[i] \in Weights
    <2>1. weights = ByWeight(InitialWeights)
      BY DEF Init
    <2>2. ByWeight(InitialWeights) = [i \in 1..n |-> ByWeight(InitialWeights)[i]]
      BY DEF ByWeight
    <2>3. \A i \in 1..n : weights[i] \in Weights
      BY <2>1 DEF Weights
    <2> HIDE DEF n
    <2> QED
      BY <1>1, <2>1, <2>2, <2>3
  <1>3. /\ entries = [i \in 1..n |-> [id |-> i, cooldown |-> 0]]
        /\ nextID = n + 1
        /\ weightOf = [id \in Ids |-> IF id <= n THEN weights[id] ELSE 1]
    BY <1>2 DEF Init
  <1>4. /\ entries \in Seq(Entries) /\ Len(entries) = n /\ DOMAIN entries = 1..n
        /\ \A i \in 1..n : entries[i].id = i /\ entries[i].cooldown = 0
    <2>1. \A i \in 1..n : [id |-> i, cooldown |-> 0] \in Entries
      BY <1>1 DEF Entries, Ids
    <2> QED
      BY <1>1, <1>3, <2>1
  <1>5. weightOf \in [Ids -> Weights]
    <2>1. \A id \in Ids : id <= n => id \in 1..n
      BY <1>1 DEF Ids
    <2> QED
      BY <1>2, <1>3, <2>1 DEF Weights
  <1>6. TypeOK
    <2>1. nextID \in 1..(MaxId + 1)
      BY <1>1, <1>3
    <2> QED
      BY <1>2, <1>4, <1>5, <2>1 DEF Init, TypeOK, Results
  <1>7. ChainInv
    <2>1. IdsAscend
      BY <1>1, <1>3, <1>4 DEF IdsAscend
    <2>2. WeightToCome
      BY <1>1, <1>3 DEF WeightToCome, Ids
    <2>3. CooldownIsEarned
      BY <1>4 DEF CooldownIsEarned, Healthy
    <2>4. WeightsAligned
      BY <1>1, <1>2, <1>3, <1>4 DEF WeightsAligned, Ids
    <2> QED
      BY <2>1, <2>2, <2>3, <2>4 DEF ChainInv, HealthAndWeightFollowTheClient
  <1>8. ASSUME NEW r \in Requests PROVE CallInv(r)
    BY DEF Init, CallInv, FollowsItsSnapshot, KnowsItsPlace, Explained
  <1> QED
    BY <1>6, <1>7, <1>8 DEF IInv

LEMMA NextIInv == IInv /\ [Next]_vars => IInv'
  <1> SUFFICES ASSUME IInv, [Next]_vars PROVE IInv'
    OBVIOUS
  <1>0. TypeOK /\ ChainInv /\ CallTypes
    BY DEF IInv, TypeOK, CallTypes
  <1>1. CASE Manage
    <2>1. CallTypes' /\ (\A r \in Requests : CallInv(r))'
      BY <1>0, <1>1, ManageKeepsChain
      DEF IInv, call, CallTypes, CallInv, FollowsItsSnapshot, KnowsItsPlace, Explained
    <2> QED
      BY <1>0, <1>1, <2>1, ManageKeepsChain DEF IInv, TypeOK, CallTypes
  <1>2. ASSUME NEW r \in Requests, Work(r) \/ CancelFirst(r) PROVE IInv'
    <2>1. CallInv(r)
      BY DEF IInv
    <2>2. CASE Start(r)
      <3>1. CallTypes' /\ (\A q \in Requests : CallInv(q))' /\ UNCHANGED <<chain, blamed>>
        BY <2>2, StartKeepsCalls DEF Start
      <3>2. UNCHANGED <<entries, weights, nextID, weightOf, blamed>>
        BY <3>1 DEF chain
      <3>3. ChainInv'
        BY <1>0, <3>2 DEF ChainInv, IdsAscend, WeightToCome, HealthAndWeightFollowTheClient,
                          CooldownIsEarned, WeightsAligned, Healthy
      <3> QED
        BY <1>0, <3>1, <3>2, <3>3 DEF IInv, TypeOK, CallTypes
    <2>3. CASE ~Start(r)
      <3>1. /\ pc[r] \in {"trying", "firstChunk", "forwarding"}
            /\ Heard(r) /\ UNCHANGED <<weights, nextID, weightOf, candidates>>
            /\ \/ pc[r] # "forwarding" /\ Answered(r)
               \/ Open(r)
               \/ CancelFirst(r)
               \/ EndForward(r)
        BY <1>2, <2>3, WorkShape
      <3>2. SameClients /\ blamed' \subseteq Ids /\ ChainInv'
        BY <1>0, <2>1, <3>1, AskedClient, HeardKeepsChain
      <3>3. CallTypes' /\ (\A q \in Requests : CallInv(q))'
        <4>1. CASE pc[r] # "forwarding" /\ Answered(r)
          BY <3>1, <4>1, AnsweredKeepsCalls
        <4>2. CASE Open(r)
          <5>1. /\ pc[r] = "trying" /\ pc' = [pc EXCEPT ![r] = "firstChunk"]
                /\ UNCHANGED <<candidates, at, tried, fallbacks, result>>
            BY <4>2 DEF Open, Goto
          <5> QED
            BY <1>0, <2>1, <5>1, CallsKept
            DEF CallTypes, CallInv, FollowsItsSnapshot, KnowsItsPlace, Explained, OnlyCall, IInv
        <4>3. CASE CancelFirst(r)
          <5>1. /\ pc[r] = "firstChunk" /\ pc' = [pc EXCEPT ![r] = "done"]
                /\ result' = [result EXCEPT ![r] = "canceled"]
                /\ UNCHANGED <<candidates, at, tried, fallbacks>>
            BY <4>3 DEF CancelFirst, Return, Goto
          <5>2. CallTypes' /\ OnlyCall(r) /\ FollowsItsSnapshot(r)'
            BY <1>0, <2>1, <5>1 DEF CallTypes, OnlyCall, Results, CallInv, FollowsItsSnapshot
          <5>3. KnowsItsPlace(r)' /\ Explained(r)'
            BY <1>0, <2>1, <5>1 DEF CallTypes, CallInv, KnowsItsPlace, Explained
          <5> QED
            BY <5>2, <5>3, CallsKept DEF CallInv, IInv
        <4>4. CASE EndForward(r)
          <5>1. /\ pc[r] = "forwarding" /\ pc' = [pc EXCEPT ![r] = "done"]
                /\ result' = [result EXCEPT ![r] = "ok"]
                /\ UNCHANGED <<candidates, at, tried, fallbacks>>
            BY <4>4 DEF EndForward, Return, Goto
          <5>2. CallTypes' /\ OnlyCall(r) /\ FollowsItsSnapshot(r)'
            BY <1>0, <2>1, <5>1 DEF CallTypes, OnlyCall, Results, CallInv, FollowsItsSnapshot
          <5>3. KnowsItsPlace(r)' /\ Explained(r)'
            BY <1>0, <2>1, <5>1 DEF CallTypes, CallInv, KnowsItsPlace, Explained
          <5> QED
            BY <5>2, <5>3, CallsKept DEF CallInv, IInv
        <4> QED
          BY <3>1, <4>1, <4>2, <4>3, <4>4
      <3> QED
        BY <1>0, <3>1, <3>2, <3>3 DEF IInv, TypeOK, CallTypes, SameClients
    <2> QED
      BY <2>2, <2>3
  <1>3. CASE UNCHANGED vars
    BY <1>3 DEF IInv, TypeOK, ChainInv, IdsAscend, WeightToCome, HealthAndWeightFollowTheClient,
                CooldownIsEarned, WeightsAligned, Healthy, CallInv, FollowsItsSnapshot,
                KnowsItsPlace, Explained, vars, chain, call
  <1> QED
    BY <1>1, <1>2, <1>3 DEF Next

LEMMA ChainInvariant == Spec => []IInv
  <1>1. Spec => Init /\ [][Next]_vars
    BY PTL DEF Spec, SafeSpec
  <1> QED
    BY <1>1, InitIInv, NextIInv, PTL

-----------------------------------------------------------------------------
(* The theorems.                                                           *)

\* Cooldown by id and weight by position both follow the client, through every
\* AddClient, RemoveClient and late answer: FallbackChain keeps health under an id
\* that is never given out again, WeightedFallbackChain moves the weights along.
THEOREM ClientsKeepWhatIsTheirs == Spec => []HealthAndWeightFollowTheClient
  <1>1. IInv => HealthAndWeightFollowTheClient
    BY DEF IInv, ChainInv
  <1> QED
    BY <1>1, ChainInvariant, PTL

\* executeWithFallback and Stream walk the snapshot, whatever becomes of the chain
\* they took it from.
LEMMA NobodyAskedTwice == Spec => []TriedOnceInOrder
  <1>1. IInv => TriedOnceInOrder
    <2> SUFFICES ASSUME IInv, NEW r \in Requests,
                        NEW i \in DOMAIN tried[r], NEW j \in DOMAIN tried[r], i < j
                 PROVE  tried[r][i].id < tried[r][j].id
      BY DEF TriedOnceInOrder
    <2>1. /\ FollowsItsSnapshot(r) /\ candidates[r] \in Seq(Ids) /\ tried[r] \in Seq(Attempts)
      BY DEF IInv, CallInv, TypeOK
    <2> QED
      BY <2>1 DEF FollowsItsSnapshot
  <1> QED
    BY <1>1, ChainInvariant, PTL

\* What executeWithFallback and Stream return, and how often they called
\* onFallback, is what their attempts say.
LEMMA AnswersAreExplained == Spec => []AnswerIsExplained
  <1>1. IInv => AnswerIsExplained
    <2> SUFFICES ASSUME IInv, NEW r \in Requests, pc[r] = "done", result[r] # "noClients"
                 PROVE  LET n == Len(tried[r]) IN
                        /\ \A i \in 1..(n - 1) : tried[r][i].outcome = "failed"
                        /\ fallbacks[r] = (IF result[r] = "canceled" THEN n ELSE n - 1)
                        /\ result[r] = "ok" => tried[r][n].outcome = "ok"
                        /\ result[r] = "error" => tried[r][n].outcome = "refused"
                        /\ result[r] = "allFailed" =>
                             n = Len(candidates[r]) /\ tried[r][n].outcome = "failed"
      BY DEF AnswerIsExplained
    <2>1. FollowsItsSnapshot(r) /\ Explained(r) /\ tried[r] \in Seq(Attempts)
      BY DEF IInv, CallInv, TypeOK
    <2> QED
      BY <2>1 DEF FollowsItsSnapshot, Explained
  <1> QED
    BY <1>1, ChainInvariant, PTL

\* A call asks the clients of its snapshot in their order, each once, and returns what the
\* last of its attempts says, or that all of them failed if all of the snapshot did.
THEOREM CallsAlwaysFollowTheirChain == Spec => []CallsFollowTheirChain
  BY NobodyAskedTwice, AnswersAreExplained, PTL DEF CallsFollowTheirChain
=============================================================================
