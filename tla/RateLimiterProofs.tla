-------------------------- MODULE RateLimiterProofs --------------------------
(***************************************************************************)
(* Two sets of books.  Those of the rate limiter balance, for any number   *)
(* of calls, any estimate, usage and bucket, and a Reset between any two   *)
(* steps, as long as no debt is larger than an int.  Those of the cost     *)
(* tracker hold each call once, under its model, at the price its caller   *)
(* was told, for any number of calls, models, prices and resets.           *)
(***************************************************************************)
EXTENDS RateLimiter, CostTracking, FiniteSetTheorems, WellFoundedInduction, SequenceTheorems, TLAPS

-----------------------------------------------------------------------------
(* Sums over finite sets.  Sets of subsets stand in for the predicates of  *)
(* an induction.                                                           *)

LEMMA LeastOne ==
    ASSUME NEW T \in SUBSET Nat, T # {}
    PROVE  \E x \in T : \A y \in T : x <= y
  <1>1. \E x \in T : \A y \in T : <<y, x>> \notin OpToRel(<, Nat)
    BY NatLessThanWellFounded, WFMin
  <1>2. PICK x \in T : \A y \in T : <<y, x>> \notin OpToRel(<, Nat)
    BY <1>1
  <1>3. ASSUME NEW y \in T PROVE x <= y
    <2>1. x \in Nat /\ y \in Nat /\ <<y, x>> \notin OpToRel(<, Nat)
      BY <1>2
    <2> QED
      BY <2>1 DEF OpToRel
  <1> QED
    BY <1>2, <1>3

Pick(D) == CHOOSE x \in D : TRUE
IsPartialSums(s, f, S) ==
    s = [D \in SUBSET S |-> IF D = {} THEN 0 ELSE f[Pick(D)] + s[D \ {Pick(D)}]]

LEMMA PartialSumsExist ==
    ASSUME NEW S, IsFiniteSet(S), NEW f \in [S -> Int]
    PROVE  \E s : IsPartialSums(s, f, S)
  <1> DEFINE Small(n) == {D \in SUBSET S : Cardinality(D) <= n}
             Sums(s, n) == s = [D \in Small(n) |-> IF D = {} THEN 0 ELSE f[Pick(D)] + s[D \ {Pick(D)}]]
             T == {n \in Nat : ~ \E s : Sums(s, n)}
  <1>1. T = {}
    <2> SUFFICES ASSUME T # {} PROVE FALSE
      OBVIOUS
    <2>1. PICK n \in T : \A m \in T : n <= m
      <3> HIDE DEF T
      <3>1. T \in SUBSET Nat
        BY DEF T
      <3> QED
        BY <3>1, LeastOne
    <2>2. n \in Nat /\ ~ \E s : Sums(s, n)
      BY <2>1
    <2>3. \A D \in SUBSET S : IsFiniteSet(D) /\ Cardinality(D) \in Nat /\ (Cardinality(D) = 0 <=> D = {})
      BY FS_Subset, FS_CardinalityType, FS_EmptySet
    <2>4. \A D \in SUBSET S : D # {} => Pick(D) \in D /\ D \ {Pick(D)} \in SUBSET S
                                        /\ Cardinality(D \ {Pick(D)}) = Cardinality(D) - 1
      <3> SUFFICES ASSUME NEW D \in SUBSET S, D # {}
                   PROVE Pick(D) \in D /\ Cardinality(D \ {Pick(D)}) = Cardinality(D) - 1
        OBVIOUS
      <3>1. Pick(D) \in D
        BY DEF Pick
      <3> QED
        BY <2>3, <3>1, FS_RemoveElement
    <2>5. CASE n = 0
      <3> DEFINE z == [D \in Small(0) |-> 0]
      <3>1. \A D \in Small(0) : D = {}
        BY <2>3
      <3>2. Sums(z, 0)
        BY <3>1
      <3> QED
        BY <2>2, <2>5, <3>2
    <2>6. CASE n # 0
      <3>1. n - 1 \in Nat /\ n - 1 \notin T
        <4> HIDE DEF T
        <4> QED
          BY <2>1, <2>2, <2>6
      <3>2. PICK s : Sums(s, n - 1)
        BY <3>1
      <3> DEFINE t == [D \in Small(n) |-> IF D = {} THEN 0 ELSE f[Pick(D)] + s[D \ {Pick(D)}]]
      <3>3. \A D \in Small(n) : D # {} => D \ {Pick(D)} \in Small(n - 1) /\ D \ {Pick(D)} \in Small(n)
        BY <2>2, <2>3, <2>4
      <3>4. \A D \in Small(n - 1) : D \in Small(n)
        BY <2>2, <2>3
      <3>5. \A D \in Small(n - 1) : t[D] = s[D]
        BY <3>2, <3>4
      <3>6. \A D \in Small(n) : t[D] = IF D = {} THEN 0 ELSE f[Pick(D)] + t[D \ {Pick(D)}]
        BY <3>3, <3>5
      <3>7. Sums(t, n)
        BY <3>6
      <3> QED
        BY <2>2, <3>7
    <2> QED
      BY <2>5, <2>6
  <1>2. Cardinality(S) \in Nat
    BY FS_CardinalityType
  <1>3. PICK s : Sums(s, Cardinality(S))
    BY <1>1, <1>2
  <1>4. Small(Cardinality(S)) = SUBSET S
    BY FS_Subset
  <1> QED
    BY <1>3, <1>4 DEF IsPartialSums

LEMMA SumIsPartialSum ==
    ASSUME NEW S, IsFiniteSet(S), NEW f \in [S -> Int]
    PROVE  \E s : IsPartialSums(s, f, S) /\ SumFunction(f) = s[S]
  <1> DEFINE iter == CHOOSE s : IsPartialSums(s, f, S)
  <1>1. IsPartialSums(iter, f, S)
    BY PartialSumsExist, Zenon
  <1>2. DOMAIN f = S
    OBVIOUS
  <1>3. SumFunction(f) = iter[S]
    BY <1>2, Zenon DEF SumFunction, SumFunctionOnSet, FoldFunctionOnSet, MapThenFoldSet, IsPartialSums, Pick
  <1> QED
    BY <1>1, <1>3
LEMMA SubsetInduction ==
    ASSUME NEW S, IsFiniteSet(S), NEW P, {} \in P,
           \A D \in SUBSET S : D # {} /\ (\A x \in D : D \ {x} \in P) => D \in P
    PROVE  S \in P
  <1> DEFINE T == {n \in Nat : \E D \in SUBSET S : D \notin P /\ Cardinality(D) = n}
  <1> SUFFICES ASSUME S \notin P PROVE FALSE
    OBVIOUS
  <1>1. \A D \in SUBSET S : IsFiniteSet(D) /\ Cardinality(D) \in Nat
    BY FS_Subset, FS_CardinalityType
  <1>2. T # {} /\ T \in SUBSET Nat
    BY <1>1
  <1>3. PICK n \in T : \A m \in T : n <= m
    <2> HIDE DEF T
    <2> QED
      BY <1>2, LeastOne
  <1>4. PICK D \in SUBSET S : D \notin P /\ Cardinality(D) = n
    BY <1>3
  <1>5. PICK x \in D : D \ {x} \notin P
    BY <1>4
  <1>6. D \ {x} \in SUBSET S /\ D \ {x} \notin P
    BY <1>4, <1>5
  <1>7. Cardinality(D \ {x}) = n - 1
    BY <1>1, <1>4, <1>5, FS_RemoveElement
  <1>8. n - 1 \in T
    BY <1>1, <1>6, <1>7
  <1>9. n \in Nat
    BY <1>3
  <1> HIDE DEF T
  <1> QED
    BY <1>3, <1>8, <1>9

LEMMA SumUpdate ==
    ASSUME NEW S, IsFiniteSet(S), NEW f \in [S -> Int], NEW g \in [S -> Int], NEW w \in S,
           \A r \in S : r # w => g[r] = f[r]
    PROVE  SumFunction(f) \in Int /\ SumFunction(g) = SumFunction(f) + g[w] - f[w]
  <1>1. PICK s : IsPartialSums(s, f, S) /\ SumFunction(f) = s[S]
    BY SumIsPartialSum
  <1>2. PICK t : IsPartialSums(t, g, S) /\ SumFunction(g) = t[S]
    BY SumIsPartialSum
  <1> DEFINE P == {D \in SUBSET S : s[D] \in Int /\ t[D] = s[D] + (IF w \in D THEN g[w] - f[w] ELSE 0)}
  <1>3. {} \in P
    BY <1>1, <1>2 DEF IsPartialSums
  <1>4. ASSUME NEW D \in SUBSET S, D # {}, \A x \in D : D \ {x} \in P PROVE D \in P
    <2>1. Pick(D) \in D
      BY <1>4 DEF Pick
    <2>2. s[D] = f[Pick(D)] + s[D \ {Pick(D)}] /\ t[D] = g[Pick(D)] + t[D \ {Pick(D)}]
      BY <1>1, <1>2, <1>4 DEF IsPartialSums
    <2>3. D \ {Pick(D)} \in P
      BY <1>4, <2>1
    <2>4. Pick(D) \in S
      BY <2>1
    <2> QED
      BY <2>1, <2>2, <2>3, <2>4
  <1>5. S \in P
    <2> HIDE DEF P
    <2> QED
      BY <1>3, <1>4, SubsetInduction, Zenon
  <1> QED
    BY <1>1, <1>2, <1>5
LEMMA SumOfZeros ==
    ASSUME NEW S, IsFiniteSet(S), NEW f \in [S -> Int], \A r \in S : f[r] = 0
    PROVE  SumFunction(f) = 0
  <1>1. PICK s : IsPartialSums(s, f, S) /\ SumFunction(f) = s[S]
    BY SumIsPartialSum
  <1> DEFINE P == {D \in SUBSET S : s[D] = 0}
  <1>2. {} \in P
    BY <1>1 DEF IsPartialSums
  <1>3. ASSUME NEW D \in SUBSET S, D # {}, \A x \in D : D \ {x} \in P PROVE D \in P
    <2>1. Pick(D) \in D
      BY <1>3 DEF Pick
    <2>2. s[D] = f[Pick(D)] + s[D \ {Pick(D)}]
      BY <1>1, <1>3 DEF IsPartialSums
    <2> QED
      BY <1>3, <2>1, <2>2
  <1>4. S \in P
    <2> HIDE DEF P
    <2> QED
      BY <1>2, <1>3, SubsetInduction, Zenon
  <1> QED
    BY <1>1, <1>4

LEMMA SumIsBounded ==
    ASSUME NEW S, IsFiniteSet(S), NEW f \in [S -> Int], NEW most \in Nat,
           \A r \in S : f[r] <= most
    PROVE  SumFunction(f) <= Cardinality(S) * most
  <1>1. PICK s : IsPartialSums(s, f, S) /\ SumFunction(f) = s[S]
    BY SumIsPartialSum
  <1> DEFINE P == {D \in SUBSET S : s[D] \in Int /\ s[D] <= Cardinality(D) * most}
  <1>2. {} \in P
    BY <1>1, FS_EmptySet DEF IsPartialSums
  <1>3. ASSUME NEW D \in SUBSET S, D # {}, \A x \in D : D \ {x} \in P PROVE D \in P
    <2>1. Pick(D) \in D
      BY <1>3 DEF Pick
    <2>2. s[D] = f[Pick(D)] + s[D \ {Pick(D)}]
      BY <1>1, <1>3 DEF IsPartialSums
    <2>3. D \ {Pick(D)} \in P /\ f[Pick(D)] \in Int /\ f[Pick(D)] <= most
      BY <1>3, <2>1
    <2>4. IsFiniteSet(D) /\ Cardinality(D) \in Nat /\ Cardinality(D \ {Pick(D)}) = Cardinality(D) - 1
      BY <2>1, FS_Subset, FS_CardinalityType, FS_RemoveElement
    <2>5. (Cardinality(D) - 1) * most + most = Cardinality(D) * most
      BY <2>4
    <2> QED
      BY <2>2, <2>3, <2>4, <2>5
  <1>4. S \in P
    <2> HIDE DEF P
    <2> QED
      BY <1>2, <1>3, SubsetInduction, Zenon
  <1> QED
    BY <1>1, <1>4

LEMMA SumIsInt ==
    ASSUME NEW S, IsFiniteSet(S), NEW f \in [S -> Int]
    PROVE  SumFunction(f) \in Int
  <1>1. CASE S = {}
    <2>1. \A r \in S : f[r] = 0
      BY <1>1
    <2> QED
      BY <2>1, SumOfZeros
  <1>2. CASE S # {}
    BY <1>2, SumUpdate
  <1> QED
    BY <1>1, <1>2

-----------------------------------------------------------------------------
(* The invariant.                                                          *)

Steps == {"enter", "settle", "settleWait", "request", "credit", "tokens", "wait", "release",
          "provider", "report", "done", "refused"}

\* The variables have their types.
TypeOK ==
    /\ blocking \in BOOLEAN /\ lateReport \in BOOLEAN
    /\ requestLevel \in Int /\ tokenLevel \in Int
    /\ tokenCredit \in Nat /\ tokenDebt \in Nat /\ generation \in Nat
    /\ charged \in Int /\ used \in Int /\ lost \in Nat
    /\ pc \in [Requests -> Steps]
    /\ gen \in [Requests -> Nat] /\ recordGen \in [Requests -> Nat]
    /\ installments \in [Requests -> Nat] /\ due \in [Requests -> Nat]
    /\ reserved \in [Requests -> Nat] /\ reservedRequest \in [Requests -> BOOLEAN]
    /\ consumedCredit \in [Requests -> Nat] /\ deferred \in [Requests -> Nat]
    /\ actual \in [Requests -> Nat]

\* A call holds a reservation only while it waits for it or gives it back, and
\* credit only from the step that takes it; what it holds and what it defers is the
\* estimate.  Nobody works for a generation that is to come, and only a report over
\* a Reset is recorded under another generation than that of the admission.
CallsAreConsistent ==
    \A r \in Requests :
        /\ gen[r] <= generation
        /\ pc[r] \notin {"wait", "release"} => reserved[r] = 0
        /\ pc[r] \notin {"tokens", "wait", "release"} /\ ~(pc[r] = "request" /\ ~blocking)
             => consumedCredit[r] = 0
        /\ consumedCredit[r] <= Estimate
        /\ pc[r] = "wait" => deferred[r] = Estimate - consumedCredit[r] - reserved[r]
        /\ pc[r] = "report" /\ ~lateReport => recordGen[r] = gen[r]
        /\ actual[r] \in Actuals \/ actual[r] = 0

\* A call adds at most its estimate to the debt when it is admitted, and at most
\* what it used when it reports.
Share == [r \in Requests |->
            IF pc[r] = "done" THEN Estimate + actual[r]
            ELSE IF pc[r] \in {"provider", "report"} THEN Estimate ELSE 0]

DebtIsShared == tokenDebt <= SumFunction(Share)

\* The books, with what canceled reservations lost.
LedgerHolds ==
    /\ lateReport => generation > 0
    /\ generation = 0 => Books = used + Pending + Unsettled + lost
    /\ ~lateReport => Books >= used + Pending + Unsettled + lost

IInv == TypeOK /\ CallsAreConsistent /\ DebtIsShared /\ LedgerHolds

\* Debts fit an int, whatever the calls use.
DebtFits ==
    \E most \in Nat :
        /\ \A n \in Actuals : n <= most
        /\ Cardinality(Requests) * (Estimate + most) <= MaxInt

LEMMA SumsAreInts ==
    ASSUME TypeOK
    PROVE  /\ Held \in [Requests -> Int] /\ Owed \in [Requests -> Int] /\ Share \in [Requests -> Int]
           /\ Pending \in Int /\ Unsettled \in Int /\ SumFunction(Share) \in Int
  <1>1. Estimate \in Nat /\ \A r \in Requests : actual[r] \in Nat
    BY LimiterAssumption DEF TypeOK
  <1>2. Held \in [Requests -> Int]
    BY DEF TypeOK, Held
  <1>3. Owed \in [Requests -> Int]
    BY <1>1 DEF Owed
  <1>4. Share \in [Requests -> Int]
    BY <1>1 DEF Share
  <1> QED
    BY <1>2, <1>3, <1>4, LimiterAssumption, SumIsInt DEF Pending, Unsettled

\* When one call moves, the sums follow it.
LEMMA SumsFollow ==
    ASSUME TypeOK, TypeOK', NEW r \in Requests, generation' = generation,
           \A q \in Requests \ {r} :
              /\ pc'[q] = pc[q] /\ gen'[q] = gen[q] /\ reserved'[q] = reserved[q]
              /\ consumedCredit'[q] = consumedCredit[q] /\ actual'[q] = actual[q]
    PROVE  /\ Pending' = Pending + Held'[r] - Held[r]
           /\ Unsettled' = Unsettled + Owed'[r] - Owed[r]
           /\ SumFunction(Share)' = SumFunction(Share) + Share'[r] - Share[r]
  <1>1. \A q \in Requests : q # r => Held'[q] = Held[q] /\ Owed'[q] = Owed[q] /\ Share'[q] = Share[q]
    BY DEF Held, Owed, Share, Stale
  <1>2. Estimate \in Nat /\ \A q \in Requests : actual'[q] \in Nat
    BY LimiterAssumption DEF TypeOK
  <1>3. Held' \in [Requests -> Int]
    BY DEF TypeOK, Held
  <1>4. Owed' \in [Requests -> Int]
    BY <1>2 DEF Owed
  <1>5. Share' \in [Requests -> Int]
    BY <1>2 DEF Share
  <1>6. IsFiniteSet(Requests)
    BY LimiterAssumption
  <1>7. Pending' = Pending + Held'[r] - Held[r]
    BY <1>1, <1>3, <1>6, SumsAreInts, SumUpdate DEF Pending
  <1>8. Unsettled' = Unsettled + Owed'[r] - Owed[r]
    BY <1>1, <1>4, <1>6, SumsAreInts, SumUpdate DEF Unsettled
  <1>9. SumFunction(Share)' = SumFunction(Share) + Share'[r] - Share[r]
    BY <1>1, <1>5, <1>6, SumsAreInts, SumUpdate
  <1> QED
    BY <1>7, <1>8, <1>9

\* What the calls may add to the debt fits an int.
LEMMA SharesFit ==
    ASSUME DebtFits, NEW f \in [Requests -> Int],
           \A r \in Requests : \E n \in Actuals \cup {0} : f[r] <= Estimate + n
    PROVE  SumFunction(f) <= MaxInt
  <1>1. PICK most \in Nat :
          (\A n \in Actuals : n <= most) /\ Cardinality(Requests) * (Estimate + most) <= MaxInt
    BY DEF DebtFits
  <1> DEFINE each == Estimate + most
  <1>2. each \in Nat /\ Estimate \in Nat /\ MaxInt \in Nat /\ Actuals \subseteq Nat
    BY <1>1, LimiterAssumption
  <1>3. ASSUME NEW r \in Requests PROVE f[r] <= each
    <2>1. PICK n \in Actuals \cup {0} : f[r] <= Estimate + n
      OBVIOUS
    <2>2. n \in Nat /\ n <= most
      BY <1>1, <1>2
    <2> QED
      BY <1>2, <2>1, <2>2
  <1>4. Cardinality(Requests) * each <= MaxInt
    BY <1>1
  <1> HIDE DEF each
  <1>5. SumFunction(f) <= Cardinality(Requests) * each
    BY <1>2, <1>3, LimiterAssumption, SumIsBounded
  <1>6. Cardinality(Requests) * each \in Int /\ SumFunction(f) \in Int
    BY <1>2, LimiterAssumption, FS_CardinalityType, SumIsInt
  <1> QED
    BY <1>2, <1>4, <1>5, <1>6

\* What a call adds to the debt when it is admitted, or reports, is added in full.
LEMMA NothingSaturates ==
    ASSUME DebtFits, TypeOK, CallsAreConsistent, DebtIsShared, NEW r \in Requests,
           NEW to \in {"provider", "done"}, pc' = [pc EXCEPT ![r] = to], actual' = actual,
           NEW more \in Nat, more <= Share'[r] - Share[r]
    PROVE  SaturatingAdd(tokenDebt, more) = tokenDebt + more
  <1>1. Estimate \in Nat /\ MaxInt \in Nat /\ IsFiniteSet(Requests)
    BY LimiterAssumption
  <1>2. \A q \in Requests : actual[q] \in Nat /\ actual[q] \in Actuals \cup {0}
    BY DEF TypeOK, CallsAreConsistent
  <1>3. \A q \in Requests : q # r => Share'[q] = Share[q]
    BY DEF Share, TypeOK
  <1>4. Share' \in [Requests -> Int]
    BY <1>1, <1>2 DEF Share
  <1>5. \A q \in Requests : Share'[q] <= Estimate + actual[q]
    BY <1>1, <1>2 DEF Share
  <1>6. SumFunction(Share') <= MaxInt
    BY <1>2, <1>4, <1>5, SharesFit
  <1>7. SumFunction(Share') = SumFunction(Share) + Share'[r] - Share[r]
    BY <1>1, <1>3, <1>4, SumsAreInts, SumUpdate
  <1>8. SumFunction(Share) \in Int /\ Share[r] \in Int /\ Share'[r] \in Int /\ tokenDebt \in Nat
    BY <1>4, SumsAreInts DEF TypeOK
  <1> QED
    BY <1>1, <1>6, <1>7, <1>8 DEF SaturatingAdd, DebtIsShared

LEMMA InitIInv == Init => IInv
  <1> SUFFICES ASSUME Init PROVE IInv
    OBVIOUS
  <1>1. TypeOK
    <2>1. blocking \in BOOLEAN /\ lateReport \in BOOLEAN
      BY Zenon DEF Init
    <2>2. reservedRequest \in [Requests -> BOOLEAN]
      BY DEF Init
    <2> QED
      BY <2>1, <2>2, LimiterAssumption DEF Init, TypeOK, Steps
  <1>2. CallsAreConsistent
    BY LimiterAssumption DEF Init, CallsAreConsistent
  <1>3. Pending = 0 /\ Unsettled = 0 /\ SumFunction(Share) = 0
    <2>1. \A r \in Requests : Held[r] = 0 /\ Owed[r] = 0 /\ Share[r] = 0
      BY DEF Init, Held, Owed, Share
    <2> QED
      BY <1>1, <2>1, SumsAreInts, SumOfZeros, LimiterAssumption DEF Pending, Unsettled
  <1>4. DebtIsShared
    BY <1>3 DEF Init, DebtIsShared
  <1>5. LedgerHolds
    <2>1. lateReport = FALSE
      BY Zenon DEF Init
    <2> QED
      BY <1>3, <2>1 DEF Init, LedgerHolds, Books
  <1> QED
    BY <1>1, <1>2, <1>4, <1>5 DEF IInv

-----------------------------------------------------------------------------
(* The steps of a call.                                                    *)

\* Of what the books are about, only this call changes.
OnlyMoves(r) ==
    /\ generation' = generation
    /\ \A q \in Requests \ {r} :
          /\ pc'[q] = pc[q] /\ gen'[q] = gen[q] /\ reserved'[q] = reserved[q]
          /\ consumedCredit'[q] = consumedCredit[q] /\ actual'[q] = actual[q]

\* The books stay in balance when what is entered in them is what the call has now,
\* and did not have before.
LEMMA MoveKeeps ==
    ASSUME IInv, TypeOK', CallsAreConsistent', NEW r \in Requests, OnlyMoves(r),
           lateReport => lateReport', lateReport' => generation > 0,
           tokenDebt' <= tokenDebt + Share'[r] - Share[r],
           generation = 0 =>
             Books' - Books = used' - used + lost' - lost + Held'[r] - Held[r] + Owed'[r] - Owed[r],
           ~lateReport' =>
             Books' - Books >= used' - used + lost' - lost + Held'[r] - Held[r] + Owed'[r] - Owed[r]
    PROVE  IInv'
  <1>1. TypeOK /\ DebtIsShared /\ LedgerHolds
    BY DEF IInv
  <1>2. /\ Pending' = Pending + Held'[r] - Held[r]
        /\ Unsettled' = Unsettled + Owed'[r] - Owed[r]
        /\ SumFunction(Share)' = SumFunction(Share) + Share'[r] - Share[r]
    BY <1>1, SumsFollow DEF OnlyMoves
  <1>3. /\ Pending \in Int /\ Unsettled \in Int /\ SumFunction(Share) \in Int
        /\ Held[r] \in Int /\ Owed[r] \in Int /\ Share[r] \in Int
    BY <1>1, SumsAreInts
  <1>4. Held'[r] \in Int /\ Owed'[r] \in Int /\ Share'[r] \in Int
    <2>1. /\ reserved'[r] \in Nat /\ consumedCredit'[r] \in Nat /\ actual'[r] \in Nat
          /\ Estimate \in Nat
      BY LimiterAssumption DEF TypeOK
    <2> QED
      BY <2>1 DEF Held, Owed, Share
  <1>5. /\ tokenDebt \in Nat /\ used \in Int /\ lost \in Nat /\ Books \in Int
        /\ tokenDebt' \in Nat /\ used' \in Int /\ lost' \in Nat /\ Books' \in Int
    BY <1>1 DEF TypeOK, Books
  <1>6. DebtIsShared'
    BY <1>1, <1>2, <1>3, <1>4, <1>5 DEF DebtIsShared
  <1>7. LedgerHolds'
    BY <1>1, <1>2, <1>3, <1>4, <1>5 DEF LedgerHolds, OnlyMoves
  <1> QED
    BY <1>6, <1>7 DEF IInv

\* A call that waits, or gives up, holds what it held.
LEMMA WaitKeeps ==
    ASSUME IInv, NEW r \in Requests,
           Enter(r) \/ SettleEnds(r) \/ SettleAgain(r) \/ GiveUp(r)
    PROVE  IInv'
  <1>0. TypeOK /\ CallsAreConsistent /\ LedgerHolds
    BY DEF IInv
  <1>1. /\ UNCHANGED <<limiter, due, reserved, reservedRequest, consumedCredit, deferred,
                       actual, recordGen, ledger>>
    BY DEF Enter, SettleEnds, SettleAgain, GiveUp
  <1>2. PICK to \in Steps :
          /\ pc' = [pc EXCEPT ![r] = to]
          /\ \/ /\ pc[r] \in {"enter", "settle", "settleWait"}
                /\ to \in {"settle", "request", "credit", "refused", "settleWait"}
                /\ to = "request" => blocking
             \/ pc[r] = "wait" /\ to = "release"
    <2>1. CASE Enter(r)
      BY <2>1 DEF Enter, Goto, Steps
    <2>2. CASE SettleEnds(r)
      BY <2>2 DEF SettleEnds, Goto, Steps
    <2>3. CASE SettleAgain(r)
      BY <2>3 DEF SettleAgain, Goto, Steps
    <2>4. CASE GiveUp(r)
      BY <2>4 DEF GiveUp, Goto, Steps
    <2> QED
      BY <2>1, <2>2, <2>3, <2>4
  <1>3. /\ gen' = gen \/ (pc[r] = "enter" /\ gen' = [gen EXCEPT ![r] = generation])
        /\ installments' = installments \/ installments' = [installments EXCEPT ![r] = 0]
    BY Zenon DEF Enter, SettleEnds, SettleAgain, GiveUp
  <1>4. TypeOK'
    BY <1>0, <1>1, <1>2, <1>3 DEF TypeOK, limiter, ledger
  <1>5. /\ pc'[r] = to /\ (gen'[r] = gen[r] \/ (pc[r] = "enter" /\ gen'[r] = generation))
        /\ \A q \in Requests \ {r} : pc'[q] = pc[q] /\ gen'[q] = gen[q]
    <2>1. pc \in [Requests -> Steps] /\ gen \in [Requests -> Nat]
      BY <1>0 DEF TypeOK
    <2>2. pc'[r] = to /\ \A q \in Requests \ {r} : pc'[q] = pc[q]
      BY <1>2, <2>1
    <2>3. /\ gen'[r] = gen[r] \/ (pc[r] = "enter" /\ gen'[r] = generation)
          /\ \A q \in Requests \ {r} : gen'[q] = gen[q]
      <3>1. CASE gen' = gen
        BY <3>1
      <3>2. CASE pc[r] = "enter" /\ gen' = [gen EXCEPT ![r] = generation]
        BY <2>1, <3>2
      <3> QED
        BY <1>3, <3>1, <3>2, Zenon
    <2> QED
      BY <2>2, <2>3
  <1>6. CallsAreConsistent'
    BY <1>0, <1>1, <1>2, <1>5 DEF CallsAreConsistent, TypeOK, limiter, ledger
  <1>7. OnlyMoves(r)
    BY <1>1, <1>5 DEF OnlyMoves, limiter
  <1>8. /\ Held'[r] = Held[r] /\ Owed'[r] = Owed[r] /\ Share'[r] = Share[r]
    BY <1>0, <1>1, <1>2, <1>5 DEF Held, Owed, Share, Stale, CallsAreConsistent, limiter, TypeOK
  <1>9. /\ Books' = Books /\ Books \in Int /\ used' = used /\ lost' = lost /\ tokenDebt' = tokenDebt
        /\ lateReport' = lateReport /\ used \in Int /\ lost \in Nat /\ tokenDebt \in Nat
    BY <1>0, <1>1 DEF Books, limiter, ledger, TypeOK
  <1>10. Held[r] \in Int /\ Owed[r] \in Int /\ Share[r] \in Int
    BY <1>0, SumsAreInts
  <1> QED
    BY <1>0, <1>4, <1>6, <1>7, <1>8, <1>9, <1>10, MoveKeeps DEF LedgerHolds
LEMMA Constants ==
    /\ Estimate \in Nat \ {0} /\ TokenBurst \in Nat \ {0} /\ RequestBurst \in Nat \ {0}
    /\ MaxInstallments \in Nat \ {0} /\ MaxInt \in Nat /\ Actuals \subseteq Nat
    /\ IsFiniteSet(Requests)
  BY LimiterAssumption

\* A debt is paid with credit and with tokens of the bucket, one for one.
LEMMA InstallmentKeeps ==
    ASSUME IInv, NEW r \in Requests, SettleInstallment(r)
    PROVE  IInv'
  <1> DEFINE c == Least(tokenDebt, tokenCredit)
             n == Least(tokenDebt - c, TokenBurst)
             wait == IF n = 0 THEN due[r] ELSE Most(due[r], Delay(tokenLevel - n))
  <1>0. TypeOK /\ CallsAreConsistent /\ LedgerHolds
    BY DEF IInv
  <1>1. /\ UNCHANGED <<blocking, requestLevel, generation, pc, gen, reserved, reservedRequest,
                       consumedCredit, deferred, actual, recordGen, used, lost, lateReport>>
        /\ tokenCredit' = tokenCredit - c /\ tokenDebt' = tokenDebt - c - n
        /\ tokenLevel' = tokenLevel - n /\ charged' = charged + n
        /\ due' = [due EXCEPT ![r] = wait]
        /\ installments' = [installments EXCEPT ![r] = installments[r] + 1]
    BY DEF SettleInstallment
  <1>2. /\ c \in Nat /\ n \in Nat /\ c <= tokenCredit /\ c + n <= tokenDebt
    BY <1>0, Constants DEF TypeOK, Least
  <1>3. wait \in Nat
    BY <1>0, <1>2 DEF TypeOK, Most, Delay
  <1> HIDE DEF c, n, wait
  <1>4. TypeOK'
    <2>1. /\ tokenCredit' \in Nat /\ tokenDebt' \in Nat /\ tokenLevel' \in Int /\ charged' \in Int
      BY <1>0, <1>1, <1>2 DEF TypeOK
    <2>2. due' \in [Requests -> Nat] /\ installments' \in [Requests -> Nat]
      BY <1>0, <1>1, <1>3 DEF TypeOK
    <2> QED
      BY <1>0, <1>1, <2>1, <2>2 DEF TypeOK
  <1>5. CallsAreConsistent'
    BY <1>0, <1>1 DEF CallsAreConsistent
  <1>6. OnlyMoves(r)
    BY <1>1 DEF OnlyMoves
  <1>7. /\ Held'[r] = Held[r] /\ Owed'[r] = Owed[r] /\ Share'[r] = Share[r]
    BY <1>1 DEF Held, Owed, Share, Stale
  <1>8. Books' = Books
    BY <1>0, <1>1, <1>2 DEF Books, TypeOK
  <1>9. /\ Held[r] \in Int /\ Owed[r] \in Int /\ Share[r] \in Int /\ Books \in Int
        /\ used \in Int /\ lost \in Int /\ tokenDebt \in Int /\ tokenDebt' <= tokenDebt
    BY <1>0, <1>1, <1>2, SumsAreInts DEF TypeOK, Books
  <1> QED
    BY <1>0, <1>1, <1>4, <1>5, <1>6, <1>7, <1>8, <1>9, MoveKeeps DEF LedgerHolds

LEMMA ReserveRequestKeeps ==
    ASSUME IInv, NEW r \in Requests, ReserveRequest(r)
    PROVE  IInv'
  <1>0. TypeOK /\ CallsAreConsistent /\ LedgerHolds
    BY DEF IInv
  <1>1. /\ UNCHANGED <<blocking, tokenLevel, tokenCredit, tokenDebt, generation, gen,
                       installments, reserved, consumedCredit, deferred, actual, recordGen, ledger>>
        /\ reservedRequest' = [reservedRequest EXCEPT ![r] = TRUE]
        /\ pc[r] = "request"
    BY DEF ReserveRequest
  <1>2. PICK to \in {"credit", "release", "tokens"} :
           pc' = [pc EXCEPT ![r] = to] /\ (to = "credit" <=> blocking)
    BY DEF ReserveRequest, Goto
  <1>3. requestLevel' \in Int /\ due' \in [Requests -> Nat]
    <2>1. Most(due[r], Delay(requestLevel - 1)) \in Nat /\ requestLevel - 1 \in Int
      BY <1>0 DEF TypeOK, Most, Delay
    <2>2. \/ requestLevel' = requestLevel /\ due' = due
          \/ /\ requestLevel' = requestLevel - 1
             /\ due' = [due EXCEPT ![r] = Most(due[r], Delay(requestLevel - 1))]
      BY Zenon DEF ReserveRequest
    <2> QED
      BY <1>0, <2>1, <2>2 DEF TypeOK
  <1>4. TypeOK'
    <2>1. pc' \in [Requests -> Steps]
      BY <1>0, <1>2 DEF TypeOK, Steps
    <2>2. reservedRequest' \in [Requests -> BOOLEAN]
      BY <1>0, <1>1 DEF TypeOK
    <2> QED
      BY <1>0, <1>1, <1>3, <2>1, <2>2 DEF TypeOK, ledger
  <1>5. pc'[r] = to /\ \A q \in Requests \ {r} : pc'[q] = pc[q]
    BY <1>0, <1>2 DEF TypeOK
  <1>6. CallsAreConsistent'
    BY <1>0, <1>1, <1>2, <1>5 DEF CallsAreConsistent, ledger
  <1>7. OnlyMoves(r)
    BY <1>1, <1>5 DEF OnlyMoves
  <1>8. /\ Held'[r] = Held[r] /\ Owed'[r] = Owed[r] /\ Share'[r] = Share[r]
    BY <1>1, <1>2, <1>5 DEF Held, Owed, Share, Stale
  <1>9. /\ Books' = Books /\ used' = used /\ lost' = lost /\ lateReport' = lateReport
        /\ Held[r] \in Int /\ Owed[r] \in Int /\ Share[r] \in Int /\ Books \in Int
        /\ used \in Int /\ lost \in Int /\ tokenDebt \in Int /\ tokenDebt' = tokenDebt
    BY <1>0, <1>1, SumsAreInts DEF TypeOK, Books, ledger
  <1> QED
    BY <1>0, <1>4, <1>6, <1>7, <1>8, <1>9, MoveKeeps DEF LedgerHolds

\* The credit taken is the call's now; a call that a Reset has overtaken takes it
\* too, and holds nothing.
LEMMA ConsumeCreditKeeps ==
    ASSUME IInv, NEW r \in Requests, ConsumeCredit(r)
    PROVE  IInv'
  <1> DEFINE c == Least(Estimate, tokenCredit)
  <1>0. TypeOK /\ CallsAreConsistent /\ LedgerHolds
    BY DEF IInv
  <1>1. /\ UNCHANGED <<blocking, requestLevel, tokenLevel, tokenDebt, generation, gen,
                       installments, due, reserved, reservedRequest, deferred, actual,
                       recordGen, charged, used, lost, lateReport>>
        /\ pc[r] = "credit" /\ tokenCredit' = tokenCredit - c
        /\ consumedCredit' = [consumedCredit EXCEPT ![r] = c]
    BY DEF ConsumeCredit, ledger
  <1>2. PICK to \in {"tokens", "request"} :
           pc' = [pc EXCEPT ![r] = to] /\ (to = "tokens" <=> blocking)
    BY DEF ConsumeCredit, Goto
  <1>3. c \in Nat /\ c <= Estimate /\ c <= tokenCredit
    BY <1>0, Constants DEF TypeOK, Least
  <1> HIDE DEF c
  <1>4. TypeOK'
    <2>1. pc' \in [Requests -> Steps]
      BY <1>0, <1>2 DEF TypeOK, Steps
    <2>2. tokenCredit' \in Nat /\ consumedCredit' \in [Requests -> Nat]
      BY <1>0, <1>1, <1>3 DEF TypeOK
    <2> QED
      BY <1>0, <1>1, <2>1, <2>2 DEF TypeOK
  <1>5. /\ pc'[r] = to /\ consumedCredit'[r] = c
        /\ \A q \in Requests \ {r} : pc'[q] = pc[q] /\ consumedCredit'[q] = consumedCredit[q]
    BY <1>0, <1>1, <1>2 DEF TypeOK
  <1>6. CallsAreConsistent'
    BY <1>0, <1>1, <1>2, <1>3, <1>5 DEF CallsAreConsistent
  <1>7. OnlyMoves(r)
    BY <1>1, <1>5 DEF OnlyMoves
  <1>8. Owed'[r] = Owed[r] /\ Share'[r] = Share[r]
    BY <1>1, <1>2, <1>5 DEF Owed, Share, Stale
  <1>9. Held'[r] - Held[r] = IF gen[r] = generation THEN c ELSE 0
    BY <1>0, <1>1, <1>3, <1>5 DEF Held, Stale, CallsAreConsistent, TypeOK
  <1>10. Books' = Books + c
    BY <1>0, <1>1, <1>3 DEF Books, TypeOK
  <1>11. generation = 0 => gen[r] = generation
    BY <1>0 DEF CallsAreConsistent, TypeOK
  <1>12. /\ Held[r] \in Int /\ Held'[r] \in Int /\ Owed[r] \in Int /\ Share[r] \in Int
         /\ Books \in Int /\ used \in Int /\ lost \in Int /\ tokenDebt \in Int
    BY <1>0, <1>1, <1>5, <1>3, SumsAreInts DEF TypeOK, Books, Held
  <1> QED
    BY <1>0, <1>1, <1>3, <1>4, <1>6, <1>7, <1>8, <1>9, <1>10, <1>11, <1>12, MoveKeeps
       DEF LedgerHolds

LEMMA ReserveTokensKeeps ==
    ASSUME IInv, NEW r \in Requests, ReserveTokens(r)
    PROVE  IInv'
  <1> DEFINE left == Estimate - consumedCredit[r]
             n == Least(left, TokenBurst)
             wait == IF n = 0 THEN due[r] ELSE Most(due[r], Delay(tokenLevel - n))
  <1>0. TypeOK /\ CallsAreConsistent /\ LedgerHolds
    BY DEF IInv
  <1>1. /\ UNCHANGED <<blocking, requestLevel, tokenCredit, tokenDebt, generation, gen,
                       installments, reservedRequest, consumedCredit, actual, recordGen,
                       used, lost, lateReport>>
        /\ pc[r] = "tokens"
        /\ reserved' = [reserved EXCEPT ![r] = n] /\ deferred' = [deferred EXCEPT ![r] = left - n]
        /\ IF Stale(r)
           THEN UNCHANGED <<tokenLevel, due, charged>>
           ELSE /\ tokenLevel' = tokenLevel - n /\ charged' = charged + n
                /\ due' = [due EXCEPT ![r] = wait]
    BY DEF ReserveTokens
  <1>2. PICK to \in {"wait", "release"} : pc' = [pc EXCEPT ![r] = to]
    BY DEF ReserveTokens, Goto
  <1>3. /\ left \in Nat /\ n \in Nat /\ left - n \in Nat
        /\ left = Estimate - consumedCredit[r]
    BY <1>0, Constants DEF TypeOK, Least, CallsAreConsistent
  <1>4. wait \in Nat
    BY <1>0, <1>3 DEF TypeOK, Most, Delay
  <1> HIDE DEF left, n, wait
  <1>5. TypeOK'
    <2>1. pc' \in [Requests -> Steps]
      BY <1>0, <1>2 DEF TypeOK, Steps
    <2>2. reserved' \in [Requests -> Nat] /\ deferred' \in [Requests -> Nat]
      BY <1>0, <1>1, <1>3 DEF TypeOK
    <2>3. tokenLevel' \in Int /\ charged' \in Int /\ due' \in [Requests -> Nat]
      BY <1>0, <1>1, <1>3, <1>4 DEF TypeOK
    <2> QED
      BY <1>0, <1>1, <2>1, <2>2, <2>3 DEF TypeOK
  <1>6. /\ pc'[r] = to /\ reserved'[r] = n /\ deferred'[r] = left - n
        /\ \A q \in Requests \ {r} :
             pc'[q] = pc[q] /\ reserved'[q] = reserved[q] /\ deferred'[q] = deferred[q]
    BY <1>0, <1>1, <1>2 DEF TypeOK
  <1>7. CallsAreConsistent'
    <2>1. deferred'[r] = Estimate - consumedCredit'[r] - reserved'[r]
      BY <1>0, <1>1, <1>3, <1>6, Constants DEF TypeOK
    <2> QED
      BY <1>0, <1>1, <1>2, <1>6, <2>1 DEF CallsAreConsistent
  <1>8. OnlyMoves(r)
    BY <1>1, <1>6 DEF OnlyMoves
  <1>9. Owed'[r] = Owed[r] /\ Share'[r] = Share[r]
    BY <1>1, <1>2, <1>6 DEF Owed, Share, Stale
  <1>10. Held'[r] - Held[r] = IF gen[r] = generation THEN n ELSE 0
    BY <1>0, <1>1, <1>3, <1>6 DEF Held, Stale, CallsAreConsistent, TypeOK
  <1>11. Books' - Books = IF gen[r] = generation THEN n ELSE 0
    BY <1>0, <1>1, <1>3 DEF Books, TypeOK, Stale
  <1>12. /\ Held[r] \in Int /\ Owed[r] \in Int /\ Share[r] \in Int /\ Books \in Int
         /\ used \in Int /\ lost \in Int /\ tokenDebt \in Int
    BY <1>0, SumsAreInts DEF TypeOK, Books
  <1>13. Books' \in Int /\ Held'[r] \in Int
    BY <1>5 DEF TypeOK, Books, Held
  <1>14. Books' - Books = used' - used + lost' - lost + Held'[r] - Held[r] + Owed'[r] - Owed[r]
    <2>1. Books' - Books = Held'[r] - Held[r]
      BY <1>10, <1>11
    <2> QED
      BY <1>1, <1>9, <1>12, <1>13, <2>1
  <1> QED
    BY <1>0, <1>1, <1>5, <1>7, <1>8, <1>9, <1>12, <1>13, <1>14, MoveKeeps DEF LedgerHolds
\* A canceled reservation gives tokens back; what the library does not give back is
\* lost, and the credit is there again.
LEMMA ReleaseKeeps ==
    ASSUME IInv, NEW r \in Requests, Release(r)
    PROVE  IInv'
  <1>0. TypeOK /\ CallsAreConsistent /\ LedgerHolds
    BY DEF IInv
  <1>1. /\ UNCHANGED <<blocking, tokenDebt, generation, gen, installments, due, deferred,
                       actual, recordGen, used, lateReport>>
        /\ pc[r] = "release" /\ pc' = [pc EXCEPT ![r] = "refused"]
        /\ reserved' = [reserved EXCEPT ![r] = 0]
        /\ reservedRequest' = [reservedRequest EXCEPT ![r] = FALSE]
        /\ consumedCredit' = [consumedCredit EXCEPT ![r] = 0]
    BY DEF Release, Goto
  <1>2. PICK back \in 0..reserved[r] :
          IF Stale(r)
          THEN UNCHANGED <<tokenLevel, tokenCredit, charged, lost>>
          ELSE /\ tokenLevel' = Least(TokenBurst, tokenLevel + back)
               /\ charged' = charged - back /\ lost' = lost + reserved[r] - back
               /\ tokenCredit' = tokenCredit + consumedCredit[r]
    <2>1. CASE Stale(r)
      <3>1. 0 \in 0..reserved[r]
        BY <1>0 DEF TypeOK
      <3> QED
        BY <2>1, <3>1 DEF Release
    <2>2. CASE ~Stale(r)
      BY <2>2 DEF Release
    <2> QED
      BY <2>1, <2>2
  <1>3. requestLevel' \in Int
    <2>1. \A slot \in {0, 1} : Least(RequestBurst, requestLevel + slot) \in Int
      BY <1>0, Constants DEF TypeOK, Least
    <2> QED
      BY <1>0, <2>1 DEF Release, TypeOK
  <1>4. reserved[r] \in Nat /\ consumedCredit[r] \in Nat /\ back \in Nat /\ back <= reserved[r]
    BY <1>0 DEF TypeOK
  <1>5. TypeOK'
    <2>1. /\ tokenLevel' \in Int /\ charged' \in Int /\ lost' \in Nat /\ tokenCredit' \in Nat
      BY <1>0, <1>2, <1>4, Constants DEF TypeOK, Least
    <2>2. pc' \in [Requests -> Steps]
      BY <1>0, <1>1 DEF TypeOK, Steps
    <2>3. /\ reserved' \in [Requests -> Nat] /\ consumedCredit' \in [Requests -> Nat]
          /\ reservedRequest' \in [Requests -> BOOLEAN]
      BY <1>0, <1>1 DEF TypeOK
    <2> QED
      BY <1>0, <1>1, <1>3, <2>1, <2>2, <2>3 DEF TypeOK
  <1>6. /\ pc'[r] = "refused" /\ reserved'[r] = 0 /\ consumedCredit'[r] = 0
        /\ \A q \in Requests \ {r} :
             pc'[q] = pc[q] /\ reserved'[q] = reserved[q] /\ consumedCredit'[q] = consumedCredit[q]
    BY <1>0, <1>1 DEF TypeOK
  <1>7. CallsAreConsistent'
    BY <1>0, <1>1, <1>6, Constants DEF CallsAreConsistent
  <1>8. OnlyMoves(r)
    BY <1>1, <1>6 DEF OnlyMoves
  <1>9. Owed'[r] = Owed[r] /\ Share'[r] = Share[r]
    BY <1>1, <1>6 DEF Owed, Share, Stale
  <1>10. /\ Stale(r) => Held'[r] = Held[r]
         /\ ~Stale(r) => Held'[r] = Held[r] - (reserved[r] + consumedCredit[r])
    BY <1>1, <1>4, <1>6 DEF Held, Stale
  <1>11. /\ Stale(r) => Books' = Books
         /\ ~Stale(r) => Books' = Books - back - consumedCredit[r]
    BY <1>0, <1>1, <1>2, <1>4 DEF Books, TypeOK
  <1>12. /\ Stale(r) => lost' = lost
         /\ ~Stale(r) => lost' = lost + reserved[r] - back
    BY <1>2
  <1>13. /\ Held[r] \in Int /\ Owed[r] \in Int /\ Share[r] \in Int /\ Books \in Int
         /\ used \in Int /\ lost \in Int /\ tokenDebt \in Int
    BY <1>0, SumsAreInts DEF TypeOK, Books
  <1>14. Books' \in Int /\ Held'[r] \in Int /\ lost' \in Int
    BY <1>5 DEF TypeOK, Books, Held
  <1>15. Books' - Books = used' - used + lost' - lost + Held'[r] - Held[r] + Owed'[r] - Owed[r]
    <2>1. CASE Stale(r)
      BY <1>1, <1>4, <1>9, <1>10, <1>11, <1>12, <1>13, <1>14, <2>1
    <2>2. CASE ~Stale(r)
      BY <1>1, <1>4, <1>9, <1>10, <1>11, <1>12, <1>13, <1>14, <2>2
    <2> QED
      BY <2>1, <2>2
  <1> QED
    BY <1>0, <1>1, <1>5, <1>7, <1>8, <1>9, <1>13, <1>14, <1>15, MoveKeeps DEF LedgerHolds

\* An admitted call has used its estimate; the part it did not reserve is owed.
LEMMA AdmitKeeps ==
    ASSUME DebtFits, IInv, NEW r \in Requests, Admit(r)
    PROVE  IInv'
  <1>0. TypeOK /\ CallsAreConsistent /\ DebtIsShared /\ LedgerHolds
    BY DEF IInv
  <1>1. /\ UNCHANGED <<blocking, requestLevel, tokenLevel, tokenCredit, generation, gen,
                       installments, due, reservedRequest, deferred, actual, recordGen,
                       charged, lost, lateReport>>
        /\ pc[r] = "wait" /\ pc' = [pc EXCEPT ![r] = "provider"]
        /\ reserved' = [reserved EXCEPT ![r] = 0]
        /\ consumedCredit' = [consumedCredit EXCEPT ![r] = 0]
        /\ IF Stale(r)
           THEN UNCHANGED <<tokenDebt, used>>
           ELSE /\ tokenDebt' = SaturatingAdd(tokenDebt, deferred[r])
                /\ used' = used + Estimate
    BY DEF Admit, Goto
  <1>2. /\ pc'[r] = "provider" /\ reserved'[r] = 0 /\ consumedCredit'[r] = 0
        /\ \A q \in Requests \ {r} :
             pc'[q] = pc[q] /\ reserved'[q] = reserved[q] /\ consumedCredit'[q] = consumedCredit[q]
    BY <1>0, <1>1 DEF TypeOK
  <1>3. /\ reserved[r] \in Nat /\ consumedCredit[r] \in Nat /\ deferred[r] \in Nat
        /\ deferred[r] = Estimate - consumedCredit[r] - reserved[r] /\ Estimate \in Nat
        /\ deferred[r] <= Estimate
    BY <1>0, <1>1, Constants DEF TypeOK, CallsAreConsistent
  <1>4. OnlyMoves(r)
    BY <1>1, <1>2 DEF OnlyMoves
  <1>5. Owed'[r] = Owed[r] /\ Share'[r] = Share[r] + Estimate /\ Share[r] = 0
    BY <1>1, <1>2, Constants DEF Owed, Share, Stale
  <1>6. ~Stale(r) => tokenDebt' = tokenDebt + deferred[r]
    <2>1. deferred[r] <= Share'[r] - Share[r] /\ actual' = actual
      BY <1>1, <1>3, <1>5
    <2>2. SaturatingAdd(tokenDebt, deferred[r]) = tokenDebt + deferred[r]
      BY <1>0, <1>1, <1>3, <2>1, NothingSaturates
    <2> QED
      BY <1>1, <2>2
  <1>7. TypeOK'
    <2>1. pc' \in [Requests -> Steps]
      BY <1>0, <1>1 DEF TypeOK, Steps
    <2>2. reserved' \in [Requests -> Nat] /\ consumedCredit' \in [Requests -> Nat]
      BY <1>0, <1>1 DEF TypeOK
    <2>3. tokenDebt' \in Nat /\ used' \in Int
      BY <1>0, <1>1, <1>3, <1>6 DEF TypeOK
    <2> QED
      BY <1>0, <1>1, <2>1, <2>2, <2>3 DEF TypeOK
  <1>8. CallsAreConsistent'
    BY <1>0, <1>1, <1>2, <1>3 DEF CallsAreConsistent
  <1>9. Held'[r] - Held[r] = IF Stale(r) THEN 0 ELSE -(reserved[r] + consumedCredit[r])
    BY <1>1, <1>2, <1>3 DEF Held, Stale
  <1>10. /\ Held[r] \in Int /\ Owed[r] \in Int /\ Share[r] \in Int /\ Books \in Int
         /\ used \in Int /\ lost \in Int /\ tokenDebt \in Int
    BY <1>0, SumsAreInts DEF TypeOK, Books
  <1>11. Books' \in Int /\ Held'[r] \in Int
    BY <1>7 DEF TypeOK, Books, Held
  <1>12. Books' - Books = used' - used + lost' - lost + Held'[r] - Held[r] + Owed'[r] - Owed[r]
    <2>1. CASE Stale(r)
      BY <1>0, <1>1, <1>5, <1>9, <1>10, <1>11, <2>1 DEF Books, TypeOK
    <2>2. CASE ~Stale(r)
      BY <1>0, <1>1, <1>3, <1>5, <1>6, <1>9, <1>10, <1>11, <2>2 DEF Books, TypeOK
    <2> QED
      BY <2>1, <2>2
  <1>13. tokenDebt' <= tokenDebt + Share'[r] - Share[r]
    BY <1>0, <1>1, <1>3, <1>5, <1>6 DEF TypeOK
  <1> QED
    BY <1>0, <1>1, <1>4, <1>7, <1>8, <1>10, <1>11, <1>12, <1>13, MoveKeeps DEF LedgerHolds
\* An answer replaces the estimate by what the call used, in the books as in what
\* its report has to settle.
LEMMA AnswerKeeps ==
    ASSUME IInv, NEW r \in Requests, Answer(r)
    PROVE  IInv'
  <1>0. TypeOK /\ CallsAreConsistent /\ LedgerHolds
    BY DEF IInv
  <1>1. /\ UNCHANGED <<limiter, gen, installments, due, reserved, reservedRequest,
                       consumedCredit, deferred, charged, lost>>
        /\ pc[r] = "provider" /\ recordGen' = [recordGen EXCEPT ![r] = generation]
    BY DEF Answer
  <1>2. PICK n \in Actuals :
          /\ actual' = [actual EXCEPT ![r] = n]
          /\ pc' = [pc EXCEPT ![r] = IF n = 0 THEN "done" ELSE "report"]
          /\ used' = IF Stale(r) \/ n = 0 THEN used ELSE used + n - Estimate
    BY DEF Answer, Goto
  <1>3. n \in Nat /\ Estimate \in Nat
    BY Constants
  <1>4. /\ pc'[r] = (IF n = 0 THEN "done" ELSE "report") /\ actual'[r] = n
        /\ recordGen'[r] = generation
        /\ \A q \in Requests \ {r} :
             pc'[q] = pc[q] /\ actual'[q] = actual[q] /\ recordGen'[q] = recordGen[q]
    BY <1>0, <1>1, <1>2 DEF TypeOK
  <1>5. lateReport' \in BOOLEAN /\ (lateReport => lateReport')
    BY <1>0, Zenon DEF Answer, TypeOK
  <1>6. /\ lateReport' => lateReport \/ (Stale(r) /\ actual'[r] > 0)
        /\ Stale(r) /\ actual'[r] > 0 => lateReport'
    BY Zenon DEF Answer
  <1>7. TypeOK'
    <2>1. pc' \in [Requests -> Steps]
      BY <1>0, <1>2 DEF TypeOK, Steps
    <2>2. actual' \in [Requests -> Nat] /\ recordGen' \in [Requests -> Nat] /\ used' \in Int
      BY <1>0, <1>1, <1>2, <1>3 DEF TypeOK
    <2> QED
      BY <1>0, <1>1, <1>5, <2>1, <2>2 DEF TypeOK, limiter
  <1>8. CallsAreConsistent'
    <2>1. pc'[r] = "report" /\ ~lateReport' => recordGen'[r] = gen'[r]
      BY <1>1, <1>3, <1>4, <1>6 DEF Stale
    <2>2. ~lateReport' => ~lateReport
      BY <1>5
    <2> QED
      BY <1>0, <1>1, <1>2, <1>4, <2>1, <2>2 DEF CallsAreConsistent, limiter
  <1>9. OnlyMoves(r)
    BY <1>1, <1>4 DEF OnlyMoves, limiter
  <1>10. Held'[r] = Held[r] /\ Share'[r] = Share[r]
    BY <1>1, <1>3, <1>4 DEF Held, Share, Stale, limiter
  <1>11. Owed'[r] - Owed[r] = used - used'
    BY <1>0, <1>1, <1>2, <1>3, <1>4 DEF Owed, Stale, limiter, TypeOK
  <1>12. lateReport' => generation > 0
    BY <1>0, <1>6 DEF LedgerHolds, Stale, CallsAreConsistent, TypeOK
  <1>13. /\ Held[r] \in Int /\ Owed[r] \in Int /\ Share[r] \in Int /\ Books \in Int
         /\ used \in Int /\ lost \in Int /\ tokenDebt \in Int
    BY <1>0, SumsAreInts DEF TypeOK, Books
  <1>14. used' \in Int /\ Owed'[r] \in Int
    BY <1>3, <1>4, <1>7 DEF TypeOK, Owed
  <1>15. Books' = Books /\ lost' = lost /\ tokenDebt' = tokenDebt
    BY <1>1 DEF Books, limiter
  <1>16. Books' - Books = used' - used + lost' - lost + Held'[r] - Held[r] + Owed'[r] - Owed[r]
    BY <1>10, <1>11, <1>13, <1>14, <1>15
  <1> QED
    BY <1>5, <1>7, <1>8, <1>9, <1>10, <1>12, <1>13, <1>14, <1>15, <1>16, MoveKeeps

\* An underestimate is charged, now or as debt, unless a Reset came before it; and
\* then the report had nothing to settle either.
LEMMA RecordMoreKeeps ==
    ASSUME DebtFits, IInv, NEW r \in Requests, RecordMore(r)
    PROVE  IInv'
  <1> DEFINE extra == actual[r] - Estimate
             now == Least(extra, MaxInstallments * TokenBurst)
  <1>0. TypeOK /\ CallsAreConsistent /\ DebtIsShared /\ LedgerHolds
    BY DEF IInv
  <1>1. /\ UNCHANGED <<blocking, requestLevel, tokenCredit, generation, gen, installments, due,
                       reserved, reservedRequest, consumedCredit, deferred, actual, recordGen,
                       used, lost, lateReport>>
        /\ pc[r] = "report" /\ actual[r] > Estimate /\ pc' = [pc EXCEPT ![r] = "done"]
        /\ IF RecordedBefore(r)
           THEN UNCHANGED <<tokenLevel, charged, tokenDebt>>
           ELSE /\ tokenLevel' = tokenLevel - now /\ charged' = charged + now
                /\ tokenDebt' = SaturatingAdd(tokenDebt, extra - now)
    BY DEF RecordMore, Goto
  <1>2. /\ extra \in Nat /\ now \in Nat /\ extra - now \in Nat /\ Estimate \in Nat
        /\ actual[r] \in Nat /\ extra = actual[r] - Estimate
    <2>1. MaxInstallments * TokenBurst \in Nat
      BY Constants
    <2> QED
      BY <1>0, <1>1, <2>1, Constants DEF TypeOK, Least
  <1> HIDE DEF extra, now
  <1>3. pc'[r] = "done" /\ \A q \in Requests \ {r} : pc'[q] = pc[q]
    BY <1>0, <1>1 DEF TypeOK
  <1>4. OnlyMoves(r)
    BY <1>1, <1>3 DEF OnlyMoves
  <1>5. Held'[r] = Held[r] /\ Share'[r] = Share[r] + actual[r]
    BY <1>1, <1>2, <1>3 DEF Held, Share, Stale
  <1>6. Owed'[r] = 0 /\ Owed[r] = IF Stale(r) THEN 0 ELSE -extra
    BY <1>1, <1>2, <1>3 DEF Owed
  <1>7. /\ Held[r] \in Int /\ Share[r] \in Int /\ Books \in Int
        /\ used \in Int /\ lost \in Int /\ tokenDebt \in Nat
    BY <1>0, SumsAreInts DEF TypeOK, Books
  <1>8. ~RecordedBefore(r) => tokenDebt' = tokenDebt + (extra - now)
    <2>1. extra - now <= Share'[r] - Share[r] /\ actual' = actual
      BY <1>1, <1>2, <1>5, <1>7
    <2>2. SaturatingAdd(tokenDebt, extra - now) = tokenDebt + (extra - now)
      BY <1>0, <1>1, <1>2, <2>1, NothingSaturates
    <2> QED
      BY <1>1, <2>2
  <1>9. TypeOK'
    <2>1. pc' \in [Requests -> Steps]
      BY <1>0, <1>1 DEF TypeOK, Steps
    <2>2. tokenDebt' \in Nat /\ tokenLevel' \in Int /\ charged' \in Int
      BY <1>0, <1>1, <1>2, <1>8 DEF TypeOK
    <2> QED
      BY <1>0, <1>1, <2>1, <2>2 DEF TypeOK
  <1>10. CallsAreConsistent'
    BY <1>0, <1>1, <1>3 DEF CallsAreConsistent
  <1>11. ~lateReport => (RecordedBefore(r) <=> Stale(r))
    BY <1>0, <1>1 DEF CallsAreConsistent, RecordedBefore, Stale
  <1>12. tokenDebt' <= tokenDebt + Share'[r] - Share[r]
    BY <1>1, <1>2, <1>5, <1>7, <1>8
  <1>13. Books' = IF RecordedBefore(r) THEN Books ELSE Books + extra
    BY <1>0, <1>1, <1>2, <1>8 DEF Books, TypeOK
  <1>14. ~lateReport =>
           Books' - Books = used' - used + lost' - lost + Held'[r] - Held[r] + Owed'[r] - Owed[r]
    <2>1. CASE RecordedBefore(r)
      BY <1>1, <1>5, <1>6, <1>7, <1>11, <1>13, <2>1
    <2>2. CASE ~RecordedBefore(r)
      BY <1>1, <1>2, <1>5, <1>6, <1>7, <1>11, <1>13, <2>2
    <2> QED
      BY <2>1, <2>2
  <1>15. generation = 0 => ~lateReport
    BY <1>0 DEF LedgerHolds
  <1>16. lateReport' = lateReport /\ (lateReport => generation > 0)
    BY <1>0, <1>1 DEF LedgerHolds
  <1>17. /\ Books' \in Int /\ used' \in Int /\ lost' \in Int /\ Held'[r] \in Int /\ Owed'[r] \in Int
         /\ Owed[r] \in Int
    BY <1>0, <1>1, <1>2, <1>5, <1>6, <1>7, <1>13, <1>9 DEF TypeOK, Books
  <1> QED
    BY <1>4, <1>7, <1>9, <1>10, <1>12, <1>14, <1>15, <1>16, <1>17, MoveKeeps

\* An overestimate cancels debt, becomes credit, or is lost.
LEMMA RefundKeeps ==
    ASSUME IInv, NEW r \in Requests, Refund(r)
    PROVE  IInv'
  <1> DEFINE refund == Estimate - actual[r]
             canceled == Least(refund, tokenDebt)
             available == Most(0, TokenBurst - tokenLevel - tokenCredit)
             credited == Least(refund - canceled, available)
  <1>0. TypeOK /\ CallsAreConsistent /\ LedgerHolds
    BY DEF IInv
  <1>1. /\ UNCHANGED <<blocking, requestLevel, tokenLevel, generation, gen, installments, due,
                       reserved, reservedRequest, consumedCredit, deferred, actual, recordGen,
                       charged, used, lateReport>>
        /\ pc[r] = "report" /\ actual[r] <= Estimate /\ pc' = [pc EXCEPT ![r] = "done"]
        /\ IF RecordedBefore(r)
           THEN UNCHANGED <<tokenDebt, tokenCredit, lost>>
           ELSE /\ tokenDebt' = tokenDebt - canceled
                /\ tokenCredit' = tokenCredit + credited
                /\ lost' = lost + refund - canceled - credited
    BY DEF Refund, Goto
  <1>2. /\ refund \in Nat /\ canceled \in Nat /\ credited \in Nat /\ canceled <= tokenDebt
        /\ canceled + credited <= refund /\ refund = Estimate - actual[r]
        /\ Estimate \in Nat /\ actual[r] \in Nat
    <2>1. refund \in Nat /\ Estimate \in Nat /\ actual[r] \in Nat
      BY <1>0, <1>1, Constants DEF TypeOK
    <2>2. available \in Nat
      BY <1>0, Constants DEF TypeOK, Most
    <2> HIDE DEF refund, available
    <2>3. canceled \in Nat /\ canceled <= tokenDebt /\ canceled <= refund
      BY <1>0, <2>1 DEF TypeOK, Least
    <2> HIDE DEF canceled
    <2>4. credited \in Nat /\ canceled + credited <= refund
      BY <2>1, <2>2, <2>3 DEF Least
    <2> QED
      BY <2>1, <2>3, <2>4 DEF refund
  <1> HIDE DEF refund, canceled, available, credited
  <1>3. pc'[r] = "done" /\ \A q \in Requests \ {r} : pc'[q] = pc[q]
    BY <1>0, <1>1 DEF TypeOK
  <1>4. OnlyMoves(r)
    BY <1>1, <1>3 DEF OnlyMoves
  <1>5. Held'[r] = Held[r] /\ Share'[r] = Share[r] + actual[r]
    BY <1>1, <1>2, <1>3 DEF Held, Share, Stale
  <1>6. Owed'[r] = 0 /\ Owed[r] = IF Stale(r) THEN 0 ELSE refund
    BY <1>1, <1>2, <1>3 DEF Owed
  <1>7. /\ Held[r] \in Int /\ Share[r] \in Int /\ Books \in Int
        /\ used \in Int /\ lost \in Int /\ tokenDebt \in Nat
    BY <1>0, SumsAreInts DEF TypeOK, Books
  <1>8. TypeOK'
    <2>1. pc' \in [Requests -> Steps]
      BY <1>0, <1>1 DEF TypeOK, Steps
    <2>2. tokenDebt' \in Nat /\ tokenCredit' \in Nat /\ lost' \in Nat
      BY <1>0, <1>1, <1>2 DEF TypeOK
    <2> QED
      BY <1>0, <1>1, <2>1, <2>2 DEF TypeOK
  <1>9. CallsAreConsistent'
    BY <1>0, <1>1, <1>3 DEF CallsAreConsistent
  <1>10. ~lateReport => (RecordedBefore(r) <=> Stale(r))
    BY <1>0, <1>1 DEF CallsAreConsistent, RecordedBefore, Stale
  <1>11. tokenDebt' <= tokenDebt + Share'[r] - Share[r]
    BY <1>1, <1>2, <1>5, <1>7
  <1>12. /\ RecordedBefore(r) => Books' = Books /\ lost' = lost
         /\ ~RecordedBefore(r) => /\ Books' = Books - canceled - credited
                                  /\ lost' = lost + refund - canceled - credited
    BY <1>0, <1>1, <1>2 DEF Books, TypeOK
  <1>13. ~lateReport =>
           Books' - Books = used' - used + lost' - lost + Held'[r] - Held[r] + Owed'[r] - Owed[r]
    <2>1. CASE RecordedBefore(r)
      BY <1>1, <1>5, <1>6, <1>7, <1>10, <1>12, <2>1
    <2>2. CASE ~RecordedBefore(r)
      BY <1>1, <1>2, <1>5, <1>6, <1>7, <1>10, <1>12, <2>2
    <2> QED
      BY <2>1, <2>2
  <1>14. generation = 0 => ~lateReport
    BY <1>0 DEF LedgerHolds
  <1>15. lateReport' = lateReport /\ (lateReport => generation > 0)
    BY <1>0, <1>1 DEF LedgerHolds
  <1>16. /\ Books' \in Int /\ used' \in Int /\ lost' \in Int /\ Held'[r] \in Int /\ Owed'[r] \in Int
         /\ Owed[r] \in Int
    BY <1>1, <1>2, <1>5, <1>6, <1>7, <1>8 DEF TypeOK, Books
  <1> QED
    BY <1>4, <1>7, <1>8, <1>9, <1>11, <1>13, <1>14, <1>15, <1>16, MoveKeeps

-----------------------------------------------------------------------------
(* The steps of nobody's call.                                             *)

\* A Reset opens new books, in which no call holds anything.
LEMMA ResetKeeps == ASSUME IInv, Reset PROVE IInv'
  <1>0. TypeOK /\ CallsAreConsistent /\ DebtIsShared /\ LedgerHolds
    BY DEF IInv
  <1>1. TypeOK'
    BY <1>0, Constants DEF Reset, TypeOK, call
  <1>2. CallsAreConsistent'
    BY <1>0 DEF Reset, CallsAreConsistent, call, TypeOK
  <1>3. \A r \in Requests : Held'[r] = 0 /\ Owed'[r] = 0
    BY <1>0 DEF Reset, CallsAreConsistent, call, TypeOK, Held, Owed, Stale
  <1>4. Held' \in [Requests -> Int] /\ Owed' \in [Requests -> Int]
    BY <1>3 DEF Held, Owed
  <1>5. Pending' = 0 /\ Unsettled' = 0
    BY <1>3, <1>4, Constants, SumOfZeros DEF Pending, Unsettled
  <1>6. Share' = Share
    BY DEF Reset, Share, call
  <1>7. DebtIsShared'
    BY <1>0, <1>6, SumsAreInts DEF Reset, DebtIsShared, TypeOK
  <1>8. LedgerHolds'
    BY <1>0, <1>5 DEF Reset, LedgerHolds, Books, TypeOK
  <1> QED
    BY <1>1, <1>2, <1>7, <1>8 DEF IInv

LEMMA TickKeeps == ASSUME IInv, Tick \/ UNCHANGED vars PROVE IInv'
  <1>0. TypeOK /\ CallsAreConsistent /\ DebtIsShared /\ LedgerHolds
    BY DEF IInv
  <1>1. UNCHANGED <<blocking, tokenCredit, tokenDebt, generation, pc, gen, installments, reserved,
                    reservedRequest, consumedCredit, deferred, actual, recordGen, charged, used,
                    lost, lateReport>>
    BY DEF Tick, vars, limiter, call, ledger
  <1>2. tokenLevel' \in Int /\ requestLevel' \in Int /\ due' \in [Requests -> Nat]
    <2>1. CASE Tick
      <3>1. \A r \in Requests : Most(0, due[r] - 1) \in Nat
        BY <1>0 DEF TypeOK, Most
      <3>2. Least(TokenBurst, tokenLevel + 1) \in Int /\ Least(RequestBurst, requestLevel + 1) \in Int
        BY <1>0, Constants DEF TypeOK, Least
      <3> QED
        BY <2>1, <3>1, <3>2 DEF Tick
    <2>2. CASE UNCHANGED vars
      BY <1>0, <2>2 DEF vars, limiter, call, TypeOK
    <2> QED
      BY <2>1, <2>2
  <1>3. TypeOK' /\ CallsAreConsistent'
    <2>1. TypeOK'
      BY <1>0, <1>1, <1>2 DEF TypeOK
    <2>2. CallsAreConsistent'
      BY <1>0, <1>1 DEF CallsAreConsistent
    <2> QED
      BY <2>1, <2>2
  <1>4. Held' = Held /\ Owed' = Owed /\ Share' = Share
    BY <1>1 DEF Held, Owed, Share, Stale
  <1>5. DebtIsShared' /\ LedgerHolds'
    BY <1>0, <1>1, <1>4 DEF DebtIsShared, LedgerHolds, Books, Pending, Unsettled
  <1> QED
    BY <1>3, <1>5 DEF IInv

LEMMA NextIInv == ASSUME DebtFits, IInv, [Next]_vars PROVE IInv'
  <1>1. CASE Tick \/ UNCHANGED vars
    BY <1>1, TickKeeps
  <1>2. CASE Reset
    BY <1>2, ResetKeeps
  <1>3. ASSUME NEW r \in Requests, Work(r) \/ GiveUp(r) PROVE IInv'
    BY <1>3, WaitKeeps, InstallmentKeeps, ReserveRequestKeeps, ConsumeCreditKeeps,
       ReserveTokensKeeps, ReleaseKeeps, AdmitKeeps, AnswerKeeps, RecordMoreKeeps, RefundKeeps
       DEF Work
  <1> QED
    BY <1>1, <1>2, <1>3 DEF Next

-----------------------------------------------------------------------------
(* The theorems.                                                           *)

LEMMA Invariance == DebtFits => (SafeSpec => []IInv)
  <1> SUFFICES ASSUME DebtFits PROVE SafeSpec => []IInv
    OBVIOUS
  <1>1. IInv /\ [Next]_vars => IInv'
    BY NextIInv
  <1> QED
    BY <1>1, InitIInv, PTL DEF SafeSpec

\* Every token taken from the bucket, owed or refunded is accounted for: by an
\* admitted call that used it, a waiting one that holds it, a report that is to settle
\* it, or a canceled reservation that lost it (WaitN, settleTokenDebt, recordTokens).
THEOREM DebtsAddUp == DebtFits => (SafeSpec => []LedgerBalances)
  <1>1. IInv => LedgerBalances
    BY DEF IInv, LedgerHolds, LedgerBalances
  <1> QED
    BY <1>1, Invariance, PTL

\* A Reset between any two steps of waits and settlements lets nothing through that
\* is not charged, as long as no usage is reported over one.
THEOREM NothingIsFree == DebtFits => (SafeSpec => []NeverUndercharged)
  <1>1. IInv => NeverUndercharged
    <2> SUFFICES ASSUME IInv, ~lateReport PROVE Books >= used + Pending + Unsettled
      BY DEF NeverUndercharged
    <2>1. TypeOK /\ Books >= used + Pending + Unsettled + lost
      BY DEF IInv, LedgerHolds
    <2>2. Books \in Int /\ used \in Int /\ lost \in Nat /\ Pending \in Int /\ Unsettled \in Int
      BY <2>1, SumsAreInts DEF TypeOK, Books
    <2> QED
      BY <2>1, <2>2
  <1> QED
    BY <1>1, Invariance, PTL

-----------------------------------------------------------------------------
(* Prices.                                                                 *)

NatRates == [input : Nat, output : Nat, read : Nat, write : Nat]
CardOK(card) ==
    card.base \in NatRates /\ card.tiers \in Seq([min : Nat, rates : NatRates])
UsageOK(u) ==
    /\ u.prompt \in Int /\ u.completion \in Int /\ u.read \in Int /\ u.creation \in Int
    /\ u.charge \in Seq(Int)

LEMMA ProductIsNat ==
    ASSUME NEW a \in Nat, NEW b \in Nat
    PROVE  a * b \in Nat
  OBVIOUS

LEMMA ClampIsNat ==
    ASSUME NEW x \in Int
    PROVE  Max({x, 0}) \in Nat
  <1> DEFINE S == {x, 0}
  <1>1. \E m \in S : \A y \in S : m >= y
    <2>1. CASE x >= 0
      BY <2>1
    <2>2. CASE ~(x >= 0)
      BY <2>2
    <2> QED
      BY <2>1, <2>2
  <1>2. Max(S) \in S /\ \A y \in S : Max(S) >= y
    <2> HIDE DEF S
    <2> QED
      BY <1>1 DEF Max
  <1> QED
    BY <1>2

LEMMA NonNegativeIsNat ==
    ASSUME NEW u, UsageOK(u)
    PROVE  LET v == NonNegative(u) IN
           /\ v.prompt \in Nat /\ v.completion \in Nat /\ v.read \in Nat /\ v.creation \in Nat
           /\ v.charge \in Seq(Nat) /\ UsageOK(v)
           /\ u.charge # <<>> => v.charge[1] \in Nat
  <1> DEFINE v == NonNegative(u)
             charge == [i \in DOMAIN u.charge |-> Max({u.charge[i], 0})]
  <1>1. /\ v.prompt \in Nat /\ v.completion \in Nat /\ v.read \in Nat /\ v.creation \in Nat
        /\ v.charge = charge
    BY ClampIsNat DEF NonNegative, UsageOK
  <1>2. u.charge \in Seq(Int)
    BY DEF UsageOK
  <1>3. charge \in Seq(Nat) /\ (u.charge # <<>> => charge[1] \in Nat)
    <2>1. \A i \in DOMAIN u.charge : u.charge[i] \in Int
      BY <1>2
    <2>2. Len(u.charge) \in Nat /\ DOMAIN u.charge = 1..Len(u.charge)
      BY <1>2, LenProperties
    <2>3. charge \in [1..Len(u.charge) -> Nat]
      BY <2>1, <2>2, ClampIsNat
    <2>4. u.charge # <<>> => 1 \in DOMAIN u.charge
      BY <1>2, <2>2
    <2> HIDE DEF charge
    <2> QED
      BY <2>2, <2>3, <2>4
  <1>4. charge \in Seq(Int)
    <2> HIDE DEF charge
    <2> QED
      BY <1>3
  <1> HIDE DEF charge
  <1> QED
    BY <1>1, <1>3, <1>4 DEF UsageOK

\* The highest tier reached exists, and its rates are a card's.
LEMMA EffectiveIsRates ==
    ASSUME NEW card, CardOK(card), NEW u, TotalInputTokens(u) \in Int
    PROVE  Effective(card, u) \in NatRates
  <1> DEFINE N == TotalInputTokens(u)
             Tiers == [min : Nat, rates : NatRates]
             reached == {tier \in Range(card.tiers) : N >= tier.min}
  <1>1. reached \in SUBSET Tiers
    <2>1. Range(card.tiers) \in SUBSET Tiers
      <3> HIDE DEF Tiers
      <3>1. card.tiers \in Seq(Tiers)
        BY DEF CardOK, Tiers
      <3> QED
        BY <3>1 DEF Range
    <2> QED
      BY <2>1
  <1>2. CASE reached = {}
    BY <1>2 DEF Effective, CardOK
  <1>3. CASE reached # {}
    <2> DEFINE T == {N - tier.min : tier \in reached}
               best == CHOOSE tier \in reached : \A other \in reached : other.min <= tier.min
    <2>1. T \in SUBSET Nat /\ T # {}
      BY <1>1, <1>3
    <2>2. PICK x \in T : \A y \in T : x <= y
      <3> HIDE DEF T
      <3> QED
        BY <2>1, LeastOne
    <2>3. PICK tier \in reached : x = N - tier.min
      BY <2>2
    <2>4. ASSUME NEW other \in reached PROVE other.min <= tier.min
      <3>1. N - other.min \in T
        OBVIOUS
      <3>2. N - tier.min <= N - other.min
        BY <2>2, <2>3, <3>1
      <3>3. other.min \in Nat /\ tier.min \in Nat
        BY <1>1, <2>3
      <3> QED
        BY <3>2, <3>3
    <2>5. best \in reached
      <3> HIDE DEF reached
      <3> QED
        BY <2>3, <2>4
    <2>6. Effective(card, u) = best.rates
      BY <1>3 DEF Effective
    <2>7. best \in Tiers
      BY <1>1, <2>5
    <2> HIDE DEF best
    <2> QED
      BY <2>6, <2>7
  <1> QED
    BY <1>2, <1>3

LEMMA CostIsNat ==
    ASSUME NEW card, CardOK(card), NEW u, UsageOK(u)
    PROVE  Cost(card, u) \in Nat
  <1> DEFINE v == NonNegative(u)
             rates == Effective(card, v)
  <1>1. v.prompt \in Nat /\ v.completion \in Nat /\ v.read \in Nat /\ v.creation \in Nat
    BY NonNegativeIsNat
  <1>2. TotalInputTokens(v) \in Int
    <2> HIDE DEF v
    <2> QED
      BY <1>1 DEF TotalInputTokens
  <1>3. rates \in NatRates
    BY <1>2, EffectiveIsRates
  <1>4. Cost(card, u) = v.prompt * rates.input + v.completion * rates.output
                          + v.read * CacheReadRate(rates) + v.creation * CacheWriteRate(rates)
    BY DEF Cost
  <1> HIDE DEF v, rates
  <1>5. rates.input \in Nat /\ rates.output \in Nat /\ CacheReadRate(rates) \in Nat /\ CacheWriteRate(rates) \in Nat
    BY <1>3 DEF NatRates, CacheReadRate, CacheWriteRate
  <1>6. /\ v.prompt * rates.input \in Nat /\ v.completion * rates.output \in Nat
        /\ v.read * CacheReadRate(rates) \in Nat /\ v.creation * CacheWriteRate(rates) \in Nat
    BY <1>1, <1>5, ProductIsNat
  <1> QED
    BY <1>4, <1>6

\* The cards that are built in, derived and set.
LEMMA PlainCard ==
    ASSUME NEW rates, rates \in NatRates
    PROVE  CardOK(Card(rates, <<>>))
  BY DEF CardOK, Card

LEMMA BuiltInCards ==
    /\ \A model \in {OwnModel, Other} : CardOK(DefaultPricing[model])
    /\ DefaultPricing[OwnModel].tiers = <<>> /\ DOMAIN DefaultPricing = {OwnModel, Other}
    /\ DOMAIN PublishedModePricing = {<<Other, "fast">>} /\ CardOK(PublishedModePricing[<<Other, "fast">>])
    /\ CardOK(Card(Rates(40, 40, 0, 0), <<>>)) /\ CardOK(Card(Rates(20, 40, 0, 0), <<>>))
  <1>1. \A i, o, r, w \in Nat : Rates(i, o, r, w) \in NatRates
    BY DEF Rates, NatRates
  <1>2. OwnModel # Other
    BY DEF OwnModel, Other
  <1>3. DefaultPricing[OwnModel] = Card(Rates(80, 160, 0, 0), <<>>)
    BY DEF DefaultPricing
  <1>4. DefaultPricing[Other] =
            Card(Rates(40, 80, 0, 50), <<Tier(5, Rates(160, 200, 0, 0)), Tier(3, Rates(80, 120, 0, 0))>>)
    BY <1>2 DEF DefaultPricing
  <1>5. CardOK(DefaultPricing[Other])
    <2> DEFINE Tiers == [min : Nat, rates : NatRates]
               first == Tier(5, Rates(160, 200, 0, 0))
               second == Tier(3, Rates(80, 120, 0, 0))
    <2>1. first \in Tiers /\ second \in Tiers
      BY <1>1 DEF Tier
    <2>2. <<first, second>> \in Seq(Tiers)
      <3> HIDE DEF Tiers, first, second
      <3> QED
        BY <2>1
    <2> HIDE DEF first, second
    <2>3. DefaultPricing[Other] = Card(Rates(40, 80, 0, 50), <<first, second>>)
      BY <1>4 DEF first, second
    <2> QED
      BY <1>1, <2>2, <2>3 DEF Card, CardOK
  <1>6. CardOK(DefaultPricing[OwnModel]) /\ DefaultPricing[OwnModel].tiers = <<>>
    BY <1>1, <1>3, PlainCard DEF Card
  <1>7. PublishedModePricing[<<Other, "fast">>] = Card(Rates(80, 160, 8, 0), <<>>)
    BY DEF PublishedModePricing
  <1>8. DOMAIN PublishedModePricing = {<<Other, "fast">>} /\ DOMAIN DefaultPricing = {OwnModel, Other}
    BY DEF PublishedModePricing, DefaultPricing
  <1> QED
    BY <1>1, <1>5, <1>6, <1>7, <1>8, PlainCard

LEMMA DiscountedIsRates ==
    ASSUME NEW rates \in NatRates
    PROVE  Discounted(rates) \in NatRates
  <1>1. rates.input \in Nat /\ rates.output \in Nat /\ rates.read \in Nat /\ rates.write \in Nat
    BY DEF NatRates
  <1>2. \A n \in Nat : n \div 2 \in Nat /\ n \div 10 \in Nat /\ (5 * n) \div 4 \in Nat
    OBVIOUS
  <1>3. rates.input \div 2 \in Nat /\ rates.output \div 2 \in Nat /\ rates.read \div 2 \in Nat /\ rates.write \div 2 \in Nat
    BY <1>1, <1>2
  <1>4. (rates.input \div 2) \div 10 \in Nat /\ (5 * (rates.input \div 2)) \div 4 \in Nat
    BY <1>2, <1>3
  <1> QED
    BY <1>3, <1>4 DEF Discounted, NatRates, Rates

LEMMA DerivedIsCard ==
    ASSUME NEW card, CardOK(card)
    PROVE  CardOK(DeriveAnthropicBatchPricing(card))
  <1> DEFINE tiers == [i \in DOMAIN card.tiers |-> Tier(card.tiers[i].min, Discounted(card.tiers[i].rates))]
             Tiers == [min : Nat, rates : NatRates]
  <1>1. card.tiers \in Seq(Tiers) /\ card.base \in NatRates
    BY DEF CardOK
  <1>2. Len(card.tiers) \in Nat /\ DOMAIN card.tiers = 1..Len(card.tiers)
    <2> HIDE DEF Tiers
    <2> QED
      BY <1>1, LenProperties
  <1>3. ASSUME NEW i \in DOMAIN card.tiers
        PROVE  Tier(card.tiers[i].min, Discounted(card.tiers[i].rates)) \in Tiers
    <2>1. card.tiers[i] \in Tiers
      <3> HIDE DEF Tiers
      <3> QED
        BY <1>1, <1>2
    <2>2. card.tiers[i].min \in Nat /\ Discounted(card.tiers[i].rates) \in NatRates
      BY <2>1, DiscountedIsRates
    <2> QED
      BY <2>2 DEF Tier
  <1>4. tiers \in [1..Len(card.tiers) -> Tiers]
    <2> HIDE DEF Tiers
    <2> QED
      BY <1>2, <1>3
  <1>5. tiers \in Seq(Tiers)
    <2> HIDE DEF Tiers, tiers
    <2> QED
      BY <1>2, <1>4
  <1>6. DeriveAnthropicBatchPricing(card) = Card(Discounted(card.base), tiers)
    BY DEF DeriveAnthropicBatchPricing
  <1> HIDE DEF tiers
  <1> QED
    BY <1>1, <1>5, <1>6, DiscountedIsRates DEF CardOK, Card

CardsOK ==
    /\ \A model \in DOMAIN pricing : CardOK(pricing[model])
    /\ \A key \in DOMAIN modePricing : CardOK(modePricing[key])

LEMMA ResolvedAreCards ==
    ASSUME CardsOK, NEW model, NEW mode \in Modes, NEW card \in ResolveModePricing(model, mode)
    PROVE  CardOK(card)
  <1> DEFINE standard == {pricing[m] : m \in {model} \cap DOMAIN pricing}
  <1>1. \A c \in standard : CardOK(c)
    BY DEF CardsOK
  <1>2. \A key \in DOMAIN PublishedModePricing : CardOK(PublishedModePricing[key])
    BY BuiltInCards
  <1>3. CASE mode = ""
    <2>1. ResolveModePricing(model, mode) = standard
      BY <1>3 DEF ResolveModePricing
    <2> HIDE DEF standard
    <2> QED
      BY <1>1, <2>1
  <1>4. CASE mode # "" /\ <<model, mode>> \in DOMAIN PublishedModePricing
    <2> DEFINE key == <<model, mode>>
    <2>1. key \in DOMAIN PublishedModePricing
      BY <1>4
    <2>2. mode = "fast"
      BY <2>1, BuiltInCards
    <2>3. ResolveModePricing(model, mode) = {PublishedModePricing[key]}
      BY <1>4, <2>2 DEF ResolveModePricing
    <2> HIDE DEF key
    <2> QED
      BY <1>2, <2>1, <2>3
  <1>5. CASE mode # "" /\ <<model, mode>> \notin DOMAIN PublishedModePricing
    <2>1. \/ card \in {DeriveAnthropicBatchPricing(c) : c \in {c \in standard : c.base.input # 0}}
          \/ card \in {}
      <3> HIDE DEF standard
      <3>1. CASE mode = "batch" /\ model[1] = "anthropic"
        BY <1>5, <3>1 DEF ResolveModePricing, standard
      <3>2. CASE ~(mode = "batch" /\ model[1] = "anthropic")
        BY <1>5, <3>2 DEF ResolveModePricing
      <3> QED
        BY <3>1, <3>2
    <2> HIDE DEF standard
    <2> QED
      BY <1>1, <2>1, DerivedIsCard
  <1> QED
    BY <1>3, <1>4, <1>5

LEMMA CostForIsNat ==
    ASSUME CardsOK, NEW model, NEW u, UsageOK(u), NEW mode \in Modes
    PROVE  CostFor(model, u, mode).cost \in Nat /\ CostFor(model, u, mode).known \in BOOLEAN
  <1> DEFINE registered == {modePricing[k] : k \in {<<model, mode>>} \cap DOMAIN modePricing}
             resolved == ResolveModePricing(model, mode)
             price(cards, known) == [cost |-> Cost(CHOOSE card \in cards : TRUE, u), known |-> known]
  <1>1. \A card \in registered : CardOK(card)
    BY DEF CardsOK
  <1>2. \A card \in resolved : CardOK(card)
    BY ResolvedAreCards
  <1>3. ASSUME NEW cards, cards # {}, \A card \in cards : CardOK(card), NEW known \in BOOLEAN
        PROVE  price(cards, known).cost \in Nat /\ price(cards, known).known \in BOOLEAN
    <2>1. (CHOOSE card \in cards : TRUE) \in cards
      BY <1>3
    <2>2. CardOK(CHOOSE card \in cards : TRUE)
      BY <1>3, <2>1
    <2> QED
      BY <2>2, CostIsNat
  <1>4. CASE u.charge # <<>>
    <2>1. CostFor(model, u, mode) = [cost |-> NonNegative(u).charge[1], known |-> TRUE]
      BY <1>4 DEF CostFor
    <2> QED
      BY <1>4, <2>1, NonNegativeIsNat
  <1>5. CASE u.charge = <<>> /\ mode # "" /\ registered # {}
    <2>1. CostFor(model, u, mode) = price(registered, TRUE)
      BY <1>5 DEF CostFor
    <2> HIDE DEF registered, price
    <2> QED
      BY <1>1, <1>3, <1>5, <2>1
  <1>6. CASE u.charge = <<>> /\ (mode = "" \/ registered = {}) /\ resolved # {}
    <2>1. CostFor(model, u, mode) = price(resolved, TRUE)
      BY <1>6 DEF CostFor
    <2> HIDE DEF resolved, price
    <2> QED
      BY <1>2, <1>3, <1>6, <2>1
  <1>7. CASE u.charge = <<>> /\ (mode = "" \/ registered = {}) /\ resolved = {}
    <2>1. CostFor(model, u, mode) = IF model \in DOMAIN pricing THEN price({pricing[model]}, FALSE)
                                    ELSE [cost |-> 0, known |-> FALSE]
      BY <1>7 DEF CostFor
    <2>2. CASE model \in DOMAIN pricing
      <3>1. \A card \in {pricing[model]} : CardOK(card)
        BY <2>2 DEF CardsOK
      <3>2. CostFor(model, u, mode) = price({pricing[model]}, FALSE)
        BY <2>1, <2>2
      <3> HIDE DEF price
      <3> QED
        BY <1>3, <3>1, <3>2
    <2>3. CASE model \notin DOMAIN pricing
      BY <2>1, <2>3
    <2> QED
      BY <2>2, <2>3
  <1> QED
    BY <1>4, <1>5, <1>6, <1>7

-----------------------------------------------------------------------------
(* The books.                                                              *)

Ledger == [prompt : Int, completion : Int, read : Int, creation : Int, requests : Int, unpriced : Int, cost : Int]

BillOK(bill) ==
    \/ bill.phase \in {"idle", "forgotten"}
    \/ /\ bill = [phase |-> "streaming", used |-> bill.used, said |-> bill.said]
       /\ bill.used \subseteq Usages /\ bill.said \in Provenances
    \/ /\ bill.phase \in {"billed", "skipped"}
       /\ bill.model \in Models /\ bill.cost \in Nat /\ bill.known \in BOOLEAN /\ bill.input \in Int

Bills == billing = [c \in Calls |-> billing[c]] /\ \A c \in Calls : BillOK(billing[c])

Account(model) == ValueAt(books, model, NoUsage)
Doubtful(model) == {c \in Billed(model) : ~billing[c].known}

\* What is kept of a model is what its calls were told, also where nothing is kept.
Booked(model) ==
    /\ Account(model) \in Ledger
    /\ Account(model).requests = Cardinality(Billed(model))
    /\ Account(model).cost = CostsOf(model)
    /\ Account(model).unpriced = Cardinality(Doubtful(model))
    /\ Account(model).prompt + Account(model).read + Account(model).creation = InputOf(model)

ModesAddUp ==
    /\ modeCost \in [Modes -> Int]
    /\ SumFunction(modeCost) = SumFunction([model \in Models |-> Account(model).cost])

CostInv ==
    /\ CardsOK /\ Bills
    /\ DOMAIN books \subseteq Models /\ \A model \in Models : Booked(model)
    /\ \A c \in Calls : billing[c].phase = "billed" => billing[c].model \in DOMAIN books
    /\ ModesAddUp

LEMMA BilledSets ==
    ASSUME NEW model
    PROVE  /\ IsFiniteSet(Billed(model)) /\ IsFiniteSet(Doubtful(model))
           /\ Cardinality(Billed(model)) \in Nat /\ Cardinality(Doubtful(model)) \in Nat
  <1>1. Billed(model) \in SUBSET Calls /\ Doubtful(model) \in SUBSET Calls
    BY DEF Billed, Doubtful
  <1> QED
    BY <1>1, CostAssumption, FS_Subset, FS_CardinalityType

LEMMA FiniteKinds == IsFiniteSet(Models) /\ IsFiniteSet(Modes)
  <1> DEFINE all == {<<"anthropic", "m1">>, <<"anthropic", "m2">>, <<"openai", "m1">>, <<"openai", "m2">>}
  <1>1. Models \subseteq all
    <2>1. /\ ServedIdentity(<<"", "">>, "") = <<"anthropic", "m1">>
          /\ ServedIdentity(<<"", "">>, "m2") = <<"anthropic", "m2">>
          /\ ServedIdentity(<<"openai", "">>, "") = <<"openai", "m1">>
          /\ ServedIdentity(<<"openai", "">>, "m2") = <<"openai", "m2">>
      BY DEF ServedIdentity, OwnModel
    <2>2. \A said \in Provenances, option \in {"", "m2"} : ServedIdentity(said, option) \in all
      BY <2>1 DEF Provenances
    <2> HIDE DEF all
    <2> QED
      BY <2>2 DEF Models, ServedAs
  <1>2. IsFiniteSet({}) /\ \A S, x : IsFiniteSet(S) => IsFiniteSet(S \cup {x})
    BY FS_EmptySet, FS_AddElement
  <1>3. IsFiniteSet({} \cup {<<"anthropic", "m1">>} \cup {<<"anthropic", "m2">>} \cup {<<"openai", "m1">>}
                       \cup {<<"openai", "m2">>})
    BY <1>2
  <1>4. all = {} \cup {<<"anthropic", "m1">>} \cup {<<"anthropic", "m2">>} \cup {<<"openai", "m1">>}
                       \cup {<<"openai", "m2">>}
    OBVIOUS
  <1>5. IsFiniteSet(Models)
    BY <1>1, <1>3, <1>4, FS_Subset
  <1>6. IsFiniteSet({} \cup {""} \cup {"batch"} \cup {"fast"})
    BY <1>2
  <1>7. Modes = {} \cup {""} \cup {"batch"} \cup {"fast"}
    BY DEF Modes
  <1> QED
    BY <1>5, <1>6, <1>7

LEMMA UsagesOK == \A u \in Usages : UsageOK(u)
  <1>1. UsageOK(Tokens(1, 1, 0, 0))
    BY DEF UsageOK, Tokens
  <1>2. UsageOK(Tokens(1, 0, 2, 1))
    BY DEF UsageOK, Tokens
  <1>3. UsageOK(Tokens(-2, 1, 0, 4))
    BY DEF UsageOK, Tokens
  <1>4. UsageOK([Tokens(1, 0, 0, 0) EXCEPT !.charge = <<7>>])
    BY DEF UsageOK, Tokens
  <1>5. UsageOK([Tokens(4, 0, 0, 0) EXCEPT !.charge = <<-7>>])
    BY DEF UsageOK, Tokens
  <1> QED
    BY <1>1, <1>2, <1>3, <1>4, <1>5 DEF Usages

\* Accounts are sums over the calls billed: where those are as they were, so are the sums.
LEMMA SameBilling ==
    ASSUME NEW model, Billed(model)' = Billed(model),
           \A c \in Billed(model) : billing'[c] = billing[c]
    PROVE  /\ CostsOf(model)' = CostsOf(model) /\ InputOf(model)' = InputOf(model)
           /\ Doubtful(model)' = Doubtful(model)
  <1>1. [c \in Calls |-> IF c \in Billed(model)' THEN billing'[c].cost ELSE 0]
            = [c \in Calls |-> IF c \in Billed(model) THEN billing[c].cost ELSE 0]
    OBVIOUS
  <1>2. [c \in Calls |-> IF c \in Billed(model)' THEN billing'[c].input ELSE 0]
            = [c \in Calls |-> IF c \in Billed(model) THEN billing[c].input ELSE 0]
    OBVIOUS
  <1>3. CostsOf(model)' = CostsOf(model)
    BY <1>1, Zenon DEF CostsOf
  <1>4. InputOf(model)' = InputOf(model)
    BY <1>2, Zenon DEF InputOf
  <1>5. {c \in Billed(model)' : ~billing'[c].known} = {c \in Billed(model) : ~billing[c].known}
    OBVIOUS
  <1>6. Doubtful(model)' = Doubtful(model)
    BY <1>5, Zenon DEF Doubtful
  <1> QED
    BY <1>3, <1>4, <1>6

\* A call more.
LEMMA OneMoreBilled ==
    ASSUME Bills, Bills', NEW model, NEW c \in Calls, c \notin Billed(model), Billed(model)' = Billed(model) \cup {c},
           \A d \in Billed(model) : billing'[d] = billing[d]
    PROVE  /\ Cardinality(Billed(model)') = Cardinality(Billed(model)) + 1
           /\ CostsOf(model)' = CostsOf(model) + billing'[c].cost
           /\ InputOf(model)' = InputOf(model) + billing'[c].input
           /\ Cardinality(Doubtful(model)') = Cardinality(Doubtful(model)) + IF billing'[c].known THEN 0 ELSE 1
  <1>1. Cardinality(Billed(model)') = Cardinality(Billed(model)) + 1
    BY BilledSets, FS_AddElement
  <1> DEFINE f == [d \in Calls |-> IF d \in Billed(model) THEN billing[d].cost ELSE 0]
             g == [d \in Calls |-> IF d \in Billed(model)' THEN billing'[d].cost ELSE 0]
             h == [d \in Calls |-> IF d \in Billed(model) THEN billing[d].input ELSE 0]
             k == [d \in Calls |-> IF d \in Billed(model)' THEN billing'[d].input ELSE 0]
  <1>2. /\ \A d \in Billed(model) : d \in Calls /\ billing[d].cost \in Int /\ billing[d].input \in Int
        /\ \A d \in Billed(model)' : d \in Calls /\ billing'[d].cost \in Int /\ billing'[d].input \in Int
    BY DEF Billed, Bills, BillOK
  <1>3. f \in [Calls -> Int] /\ g \in [Calls -> Int] /\ h \in [Calls -> Int] /\ k \in [Calls -> Int]
    BY <1>2
  <1>4. /\ \A d \in Calls : d # c => g[d] = f[d] /\ k[d] = h[d]
        /\ f[c] = 0 /\ h[c] = 0 /\ g[c] = billing'[c].cost /\ k[c] = billing'[c].input
    OBVIOUS
  <1>5. CostsOf(model) = SumFunction(f) /\ CostsOf(model)' = SumFunction(g)
    BY Zenon DEF CostsOf
  <1>6. InputOf(model) = SumFunction(h) /\ InputOf(model)' = SumFunction(k)
    BY Zenon DEF InputOf
  <1>7. c \in Billed(model)'
    OBVIOUS
  <1>8. billing'[c].cost \in Int /\ billing'[c].input \in Int
    BY <1>2, <1>7
  <1> HIDE DEF f, g, h, k
  <1>9. CostsOf(model)' = CostsOf(model) + billing'[c].cost
    <2>1. SumFunction(f) \in Int /\ SumFunction(g) = SumFunction(f) + g[c] - f[c]
      BY <1>3, <1>4, CostAssumption, SumUpdate
    <2> QED
      BY <2>1, <1>4, <1>5, <1>8
  <1>10. InputOf(model)' = InputOf(model) + billing'[c].input
    <2>1. SumFunction(h) \in Int /\ SumFunction(k) = SumFunction(h) + k[c] - h[c]
      BY <1>3, <1>4, CostAssumption, SumUpdate
    <2> QED
      BY <2>1, <1>4, <1>6, <1>8
  <1>11. Cardinality(Doubtful(model)') = Cardinality(Doubtful(model)) + IF billing'[c].known THEN 0 ELSE 1
    <2>1. CASE billing'[c].known
      <3>1. {d \in Billed(model)' : ~billing'[d].known} = {d \in Billed(model) : ~billing[d].known}
        BY <2>1
      <3>2. Doubtful(model)' = Doubtful(model)
        BY <3>1, Zenon DEF Doubtful
      <3> QED
        BY <2>1, <3>2, BilledSets
    <2>2. CASE ~billing'[c].known
      <3>1. {d \in Billed(model)' : ~billing'[d].known} = {d \in Billed(model) : ~billing[d].known} \cup {c}
        BY <2>2
      <3>2. Doubtful(model)' = Doubtful(model) \cup {c}
        BY <3>1, Zenon DEF Doubtful
      <3>3. c \notin Doubtful(model)
        BY DEF Doubtful
      <3> QED
        BY <2>2, <3>2, <3>3, BilledSets, FS_AddElement
    <2> QED
      BY <2>1, <2>2
  <1> QED
    BY <1>1, <1>9, <1>10, <1>11

\* A call is entered, or left out whole.
LEMMA RecordKeeps ==
    ASSUME CostInv, NEW c \in Calls, billing[c].phase # "billed",
           NEW model \in Models, NEW said, UsageOK(said), NEW mode \in Modes,
           RecordMode(c, model, said, mode), UNCHANGED <<pricing, modePricing>>
    PROVE  CostInv'
  <1> DEFINE u == NonNegative(said)
             price == CostFor(model, u, mode)
             old == ValueAt(books, model, NoUsage)
             new == [prompt |-> old.prompt + u.prompt, completion |-> old.completion + u.completion,
                     read |-> old.read + u.read, creation |-> old.creation + u.creation,
                     requests |-> old.requests + 1, unpriced |-> old.unpriced + IF price.known THEN 0 ELSE 1,
                     cost |-> old.cost + price.cost]
             skipped == \E field \in {"prompt", "completion", "read", "creation"} :
                            WouldOverflow(old[field], u[field])
             bill == [phase |-> IF skipped THEN "skipped" ELSE "billed", model |-> model, mode |-> mode,
                      cost |-> price.cost, known |-> price.known, input |-> TotalInputTokens(u)]
  <1>1. /\ u.prompt \in Nat /\ u.completion \in Nat /\ u.read \in Nat /\ u.creation \in Nat /\ UsageOK(u)
        /\ TotalInputTokens(u) = u.prompt + u.read + u.creation
    BY NonNegativeIsNat DEF TotalInputTokens
  <1>2. price.cost \in Nat /\ price.known \in BOOLEAN
    <2> HIDE DEF u
    <2> QED
      BY <1>1, CostForIsNat DEF CostInv
  <1>3. /\ books' = Put(books, model, IF skipped THEN old ELSE new)
        /\ modeCost' = IF skipped THEN modeCost ELSE [modeCost EXCEPT ![mode] = @ + price.cost]
        /\ billing' = [billing EXCEPT ![c] = bill]
    BY DEF RecordMode
  <1>4. /\ bill.phase = (IF skipped THEN "skipped" ELSE "billed") /\ bill.model = model
        /\ bill.cost = price.cost /\ bill.known = price.known /\ bill.input = u.prompt + u.read + u.creation
        /\ BillOK(bill)
    BY <1>1, <1>2 DEF BillOK
  <1>5. /\ old \in Ledger /\ old = Account(model)
        /\ skipped \in BOOLEAN
    BY DEF CostInv, Booked, Account
  <1>6. /\ new \in Ledger
        /\ new.requests = old.requests + 1 /\ new.cost = old.cost + price.cost
        /\ new.unpriced = old.unpriced + IF price.known THEN 0 ELSE 1
        /\ new.prompt + new.read + new.creation = old.prompt + old.read + old.creation + bill.input
    <2>1. /\ old.prompt \in Int /\ old.completion \in Int /\ old.read \in Int /\ old.creation \in Int
          /\ old.requests \in Int /\ old.unpriced \in Int /\ old.cost \in Int
      BY <1>5 DEF Ledger
    <2> HIDE DEF u, price, old, bill
    <2>2. new \in Ledger
      BY <1>1, <1>2, <2>1 DEF Ledger
    <2> QED
      BY <1>1, <1>2, <1>4, <2>1, <2>2
  <1> HIDE DEF u, price, old, new, skipped, bill
  <1>7. /\ DOMAIN books' = DOMAIN books \cup {model}
        /\ \A m \in Models : Account(m)' = IF m = model THEN (IF skipped THEN old ELSE new) ELSE Account(m)
    BY <1>3 DEF Put, Account, ValueAt
  <1>8. /\ billing = [d \in Calls |-> billing[d]] /\ \A d \in Calls : BillOK(billing[d])
    BY DEF CostInv, Bills
  <1>9. /\ billing' = [d \in Calls |-> billing'[d]]
        /\ \A d \in Calls : billing'[d] = IF d = c THEN bill ELSE billing[d]
    BY <1>3, <1>8
  <1>10. Bills'
    BY <1>4, <1>8, <1>9 DEF Bills
  <1>11. CardsOK' /\ DOMAIN books' \subseteq Models
    BY <1>7 DEF CostInv, CardsOK
  <1>12. \A d \in Calls : billing'[d].phase = "billed" => billing'[d].model \in DOMAIN books'
    BY <1>4, <1>7, <1>9 DEF CostInv
  <1>13. \A m \in Models : c \notin Billed(m)
    BY DEF Billed
  <1>14. CASE skipped
    <2>1. \A m \in Models : Account(m)' = Account(m)
      BY <1>5, <1>7, <1>14
    <2>2. ASSUME NEW m \in Models
          PROVE  Billed(m)' = Billed(m) /\ \A d \in Billed(m) : billing'[d] = billing[d]
      BY <1>4, <1>9, <1>13, <1>14 DEF Billed
    <2>3. \A m \in Models : Booked(m)'
      <3> TAKE m \in Models
      <3>1. Account(m)' = Account(m) /\ Booked(m)
        BY <2>1 DEF CostInv
      <3>2. /\ CostsOf(m)' = CostsOf(m) /\ InputOf(m)' = InputOf(m)
            /\ Doubtful(m)' = Doubtful(m) /\ Billed(m)' = Billed(m)
        BY <2>2, SameBilling
      <3> QED
        BY <3>1, <3>2 DEF Booked
    <2>4. ModesAddUp'
      <3>1. [m \in Models |-> Account(m)'.cost] = [m \in Models |-> Account(m).cost]
        BY <2>1
      <3>2. modeCost' = modeCost
        BY <1>3, <1>14
      <3> QED
        BY <3>1, <3>2 DEF CostInv, ModesAddUp
    <2> QED
      BY <1>10, <1>11, <1>12, <2>3, <2>4 DEF CostInv
  <1>15. CASE ~skipped
    <2>1. ASSUME NEW m \in Models, m # model PROVE Booked(m)'
      <3>1. Account(m)' = Account(m) /\ Booked(m)
        BY <1>7, <2>1 DEF CostInv
      <3>2. Billed(m)' = Billed(m) /\ \A d \in Billed(m) : billing'[d] = billing[d]
        BY <1>4, <1>9, <1>13, <2>1 DEF Billed
      <3>3. /\ CostsOf(m)' = CostsOf(m) /\ InputOf(m)' = InputOf(m)
            /\ Doubtful(m)' = Doubtful(m) /\ Billed(m)' = Billed(m)
        BY <3>2, SameBilling
      <3> QED
        BY <3>1, <3>3 DEF Booked
    <2>2. Booked(model)'
      <3>1. Account(model)' = new /\ old = Account(model) /\ Booked(model)
        BY <1>5, <1>7, <1>15 DEF CostInv
      <3>2. Billed(model)' = Billed(model) \cup {c} /\ \A d \in Billed(model) : billing'[d] = billing[d]
        BY <1>4, <1>9, <1>13, <1>15 DEF Billed
      <3>3. Bills /\ c \notin Billed(model)
        BY <1>13 DEF CostInv
      <3>4. /\ Cardinality(Billed(model)') = Cardinality(Billed(model)) + 1
            /\ CostsOf(model)' = CostsOf(model) + billing'[c].cost
            /\ InputOf(model)' = InputOf(model) + billing'[c].input
            /\ Cardinality(Doubtful(model)') = Cardinality(Doubtful(model)) + IF billing'[c].known THEN 0 ELSE 1
        BY <1>10, <3>2, <3>3, OneMoreBilled
      <3>5. billing'[c] = bill
        BY <1>9
      <3>6. /\ old.requests = Cardinality(Billed(model)) /\ old.cost = CostsOf(model)
            /\ old.unpriced = Cardinality(Doubtful(model))
            /\ old.prompt + old.read + old.creation = InputOf(model)
        BY <3>1 DEF Booked
      <3>7. /\ new.requests = Cardinality(Billed(model)') /\ new.cost = CostsOf(model)'
            /\ new.prompt + new.read + new.creation = InputOf(model)'
        BY <1>4, <1>6, <3>4, <3>5, <3>6
      <3>8. new.unpriced = Cardinality(Doubtful(model)')
        <4>1. billing'[c].known = price.known
          BY <1>4, <3>5
        <4> QED
          BY <1>6, <3>4, <3>6, <4>1
      <3> QED
        BY <1>6, <3>1, <3>7, <3>8 DEF Booked
    <2>3. ModesAddUp'
      <3> DEFINE f == [m \in Models |-> Account(m).cost]
                 g == [m \in Models |-> Account(m)'.cost]
      <3>1. \A m \in Models : Account(m).cost \in Int /\ Account(m)'.cost \in Int
        BY <2>1, <2>2 DEF CostInv, Booked, Ledger
      <3>2. f \in [Models -> Int] /\ g \in [Models -> Int]
        BY <3>1
      <3>3. f[model] = old.cost /\ g[model] = old.cost + price.cost /\ \A m \in Models : m # model => g[m] = f[m]
        BY <1>5, <1>6, <1>7, <1>15
      <3>4. old.cost \in Int
        BY <1>5 DEF Ledger
      <3>5. SumFunction(modeCost) = SumFunction(f) /\ modeCost \in [Modes -> Int]
        BY DEF CostInv, ModesAddUp
      <3>6. modeCost' = [modeCost EXCEPT ![mode] = @ + price.cost]
        BY <1>3, <1>15
      <3>7. modeCost' \in [Modes -> Int] /\ modeCost'[mode] = modeCost[mode] + price.cost
        BY <1>2, <3>5, <3>6
      <3>8. \A n \in Modes : n # mode => modeCost'[n] = modeCost[n]
        BY <3>5, <3>6
      <3> HIDE DEF f, g
      <3>9. SumFunction(f) \in Int /\ SumFunction(g) = SumFunction(f) + g[model] - f[model]
        BY <3>2, <3>3, FiniteKinds, SumUpdate
      <3>10. SumFunction(modeCost) \in Int
             /\ SumFunction(modeCost') = SumFunction(modeCost) + modeCost'[mode] - modeCost[mode]
        BY <3>5, <3>7, <3>8, FiniteKinds, SumUpdate
      <3>11. SumFunction(modeCost') = SumFunction(g)
        <4>1. modeCost[mode] \in Int
          BY <3>5
        <4> QED
          BY <1>2, <3>3, <3>4, <3>5, <3>7, <3>9, <3>10, <4>1
      <3> QED
        BY <3>7, <3>11 DEF ModesAddUp, g
    <2>4. \A m \in Models : Booked(m)'
      BY <2>1, <2>2
    <2> QED
      BY <1>10, <1>11, <1>12, <2>3, <2>4 DEF CostInv
  <1> QED
    BY <1>5, <1>14, <1>15

\* Where no account and no billed call changes.
LEMMA BooksUntouched ==
    ASSUME CostInv, CardsOK', Bills', UNCHANGED <<books, modeCost>>,
           \A c \in Calls : billing'[c] = billing[c] \/
                (billing[c].phase # "billed" /\ billing'[c].phase # "billed")
    PROVE  CostInv'
  <1>1. ASSUME NEW m \in Models PROVE Booked(m)'
    <2>1. Billed(m)' = Billed(m) /\ \A c \in Billed(m) : billing'[c] = billing[c]
      BY DEF Billed
    <2>2. /\ CostsOf(m)' = CostsOf(m) /\ InputOf(m)' = InputOf(m)
          /\ Doubtful(m)' = Doubtful(m) /\ Billed(m)' = Billed(m)
      BY <2>1, SameBilling
    <2>3. Account(m)' = Account(m) /\ Booked(m)
      BY DEF Account, CostInv
    <2> QED
      BY <2>2, <2>3 DEF Booked
  <1>2. ModesAddUp'
    <2>1. \A m \in Models : Account(m)' = Account(m)
      BY DEF Account
    <2>2. [m \in Models |-> Account(m)'.cost] = [m \in Models |-> Account(m).cost]
      BY <2>1
    <2> QED
      BY <2>2 DEF CostInv, ModesAddUp
  <1>3. \A c \in Calls : billing'[c].phase = "billed" => billing'[c].model \in DOMAIN books'
    BY DEF CostInv
  <1> QED
    BY <1>1, <1>2, <1>3 DEF CostInv

\* Nothing billed and nothing booked.
NothingBilled ==
    /\ CardsOK /\ Bills /\ books = <<>> /\ modeCost = [mode \in Modes |-> 0]
    /\ \A c \in Calls : billing[c].phase # "billed"

LEMMA EmptyBooks == NothingBilled => CostInv
  <1> SUFFICES ASSUME CardsOK, Bills, books = <<>>, modeCost = [mode \in Modes |-> 0],
                      \A c \in Calls : billing[c].phase # "billed"
               PROVE  CostInv
    BY DEF NothingBilled
  <1>1. DOMAIN books = {} /\ \A m \in Models : Account(m) = NoUsage
    BY DEF Account, ValueAt
  <1>2. ASSUME NEW m \in Models PROVE Booked(m)
    <2>1. Billed(m) = {} /\ Doubtful(m) = {}
      BY DEF Billed, Doubtful
    <2> DEFINE f == [c \in Calls |-> IF c \in Billed(m) THEN billing[c].cost ELSE 0]
               h == [c \in Calls |-> IF c \in Billed(m) THEN billing[c].input ELSE 0]
    <2>2. f \in [Calls -> Int] /\ h \in [Calls -> Int] /\ \A c \in Calls : f[c] = 0 /\ h[c] = 0
      BY <2>1
    <2>3. CostsOf(m) = SumFunction(f) /\ InputOf(m) = SumFunction(h)
      BY Zenon DEF CostsOf, InputOf
    <2> HIDE DEF f, h
    <2>4. SumFunction(f) = 0 /\ SumFunction(h) = 0
      BY <2>2, CostAssumption, SumOfZeros
    <2>5. Cardinality(Billed(m)) = 0 /\ Cardinality(Doubtful(m)) = 0
      BY <2>1, FS_EmptySet
    <2> QED
      BY <1>1, <2>3, <2>4, <2>5 DEF Booked, NoUsage, Ledger
  <1>3. ModesAddUp
    <2> DEFINE f == [m \in Models |-> Account(m).cost]
    <2>1. f \in [Models -> Int] /\ \A m \in Models : f[m] = 0
      BY <1>1 DEF NoUsage
    <2>2. modeCost \in [Modes -> Int] /\ \A mode \in Modes : modeCost[mode] = 0
      OBVIOUS
    <2> HIDE DEF f
    <2>3. SumFunction(f) = 0
      BY <2>1, FiniteKinds, SumOfZeros
    <2>4. SumFunction(modeCost) = 0
      BY <2>2, FiniteKinds, SumOfZeros
    <2> QED
      BY <2>2, <2>3, <2>4 DEF ModesAddUp, f
  <1> QED
    BY <1>1, <1>2, <1>3 DEF CostInv

LEMMA CostInvInit == CostInit => CostInv
  <1> SUFFICES ASSUME CostInit PROVE CostInv
    OBVIOUS
  <1>1. CardsOK
    BY BuiltInCards DEF CostInit, CardsOK
  <1>2. Bills /\ \A c \in Calls : billing[c].phase # "billed"
    BY DEF CostInit, Bills, BillOK, Idle
  <1> QED
    BY <1>1, <1>2, EmptyBooks DEF CostInit, NothingBilled

LEMMA StreamStepKeeps ==
    ASSUME CostInv, NEW c \in Calls, Stream(c) \/ ChunkWithUsage(c)
    PROVE  CostInv'
  <1>1. /\ UNCHANGED <<pricing, modePricing, books, modeCost>> /\ billing = [d \in Calls |-> billing[d]]
        /\ \A d \in Calls : BillOK(billing[d])
    BY DEF CostInv, Bills, Stream, ChunkWithUsage
  <1>2. PICK bill : /\ billing' = [billing EXCEPT ![c] = bill]
                    /\ BillOK(bill) /\ bill.phase = "streaming" /\ billing[c].phase # "billed"
    <2>1. CASE Stream(c)
      <3> DEFINE bill == [phase |-> "streaming", used |-> {}, said |-> <<"", "">>]
      <3>1. billing' = [billing EXCEPT ![c] = bill]
        BY <2>1, Zenon DEF Stream
      <3>3. billing[c].phase = "idle"
        <4>1. billing[c] = Idle
          BY <2>1, Zenon DEF Stream
        <4> QED
          BY <4>1 DEF Idle
      <3>2. BillOK(bill) /\ bill.phase = "streaming"
        BY DEF BillOK, Provenances
      <3> HIDE DEF bill
      <3> QED
        BY <3>1, <3>2, <3>3
    <2>2. CASE ChunkWithUsage(c)
      <3>0. billing[c].phase = "streaming"
        BY <2>2 DEF ChunkWithUsage
      <3>1. PICK u \in Usages, said \in Provenances :
               billing' = [billing EXCEPT ![c] =
                   [phase |-> "streaming", used |-> {u}, said |-> IF said = <<"", "">> THEN @.said ELSE said]]
        BY <2>2 DEF ChunkWithUsage
      <3> DEFINE s == IF said = <<"", "">> THEN billing[c].said ELSE said
                 bill == [phase |-> "streaming", used |-> {u}, said |-> s]
      <3>2. billing[c].said \in Provenances
        BY <1>1, <3>0 DEF BillOK
      <3>3. s \in Provenances
        BY <3>2
      <3>4. billing' = [billing EXCEPT ![c] = bill]
        BY <3>1
      <3> HIDE DEF s
      <3>5. bill.phase = "streaming" /\ BillOK(bill)
        BY <3>3 DEF BillOK
      <3> HIDE DEF bill
      <3> QED
        BY <3>0, <3>4, <3>5
    <2> QED
      BY <2>1, <2>2
  <1>3. /\ billing' = [d \in Calls |-> billing'[d]]
        /\ \A d \in Calls : billing'[d] = IF d = c THEN bill ELSE billing[d]
    BY <1>1, <1>2
  <1>4. Bills'
    BY <1>1, <1>2, <1>3 DEF Bills
  <1>5. CardsOK'
    BY <1>1 DEF CostInv, CardsOK
  <1> QED
    BY <1>1, <1>2, <1>3, <1>4, <1>5, BooksUntouched

LEMMA ServedIsModel == \A said \in Provenances : ServedAs(said) \subseteq Models
  BY DEF Models

LEMMA StreamEndsKeeps ==
    ASSUME CostInv, NEW c \in Calls, StreamEnds(c)
    PROVE  CostInv'
  <1>1. /\ UNCHANGED <<pricing, modePricing>> /\ billing[c].phase = "streaming"
        /\ BillOK(billing[c])
    BY DEF CostInv, Bills, StreamEnds
  <1>2. CASE billing[c].used = {}
    <2>1. /\ billing' = [billing EXCEPT ![c] = [phase |-> "forgotten"]] /\ UNCHANGED <<books, modeCost>>
      BY <1>2 DEF StreamEnds
    <2>2. billing = [d \in Calls |-> billing[d]] /\ \A d \in Calls : BillOK(billing[d])
      BY DEF CostInv, Bills
    <2>3. /\ billing' = [d \in Calls |-> billing'[d]]
          /\ \A d \in Calls : billing'[d] = IF d = c THEN [phase |-> "forgotten"] ELSE billing[d]
      BY <2>1, <2>2
    <2>4. Bills'
      BY <2>2, <2>3 DEF Bills, BillOK
    <2>5. CardsOK'
      BY <1>1 DEF CostInv, CardsOK
    <2> QED
      BY <1>1, <2>1, <2>3, <2>4, <2>5, BooksUntouched
  <1>3. CASE billing[c].used # {}
    <2>1. PICK u \in billing[c].used, model \in ServedAs(billing[c].said), mode \in Modes : RecordMode(c, model, u, mode)
      BY <1>3 DEF StreamEnds
    <2>2. u \in Usages /\ model \in Models
      BY <1>1, <2>1, ServedIsModel DEF BillOK
    <2> QED
      BY <1>1, <2>1, <2>2, UsagesOK, RecordKeeps
  <1> QED
    BY <1>2, <1>3

LEMMA GenerateKeeps ==
    ASSUME CostInv, NEW c \in Calls, Generate(c)
    PROVE  CostInv'
  <1>1. PICK u \in Usages, model \in Models, mode \in Modes : RecordMode(c, model, u, mode)
    BY DEF Generate
  <1>2. UNCHANGED <<pricing, modePricing>> /\ billing[c].phase # "billed"
    BY DEF Generate, Idle
  <1> QED
    BY <1>1, <1>2, UsagesOK, RecordKeeps

LEMMA ResetKeepsCosts == CostInv /\ ResetCosts => CostInv'
  <1> SUFFICES ASSUME CostInv, ResetCosts PROVE CostInv'
    OBVIOUS
  <1>1. /\ books' = <<>> /\ modeCost' = [mode \in Modes |-> 0] /\ UNCHANGED <<pricing, modePricing>>
        /\ billing' = [c \in Calls |-> IF billing[c].phase \in {"billed", "skipped"} THEN [phase |-> "forgotten"]
                                      ELSE billing[c]]
    BY DEF ResetCosts
  <1>2. CardsOK'
    BY <1>1 DEF CostInv, CardsOK
  <1>3. \A c \in Calls : BillOK(billing[c])
    BY DEF CostInv, Bills
  <1>4. Bills' /\ \A c \in Calls : billing'[c].phase # "billed"
    BY <1>1, <1>3 DEF Bills, BillOK
  <1>5. NothingBilled'
    BY <1>1, <1>2, <1>4 DEF NothingBilled
  <1>6. (NothingBilled => CostInv)'
    BY EmptyBooks, PTL
  <1> QED
    BY <1>5, <1>6

LEMMA PricesSetKeeps == CostInv /\ (SetPricing \/ SetModePricing \/ RecordMedia) => CostInv'
  <1> SUFFICES ASSUME CostInv, SetPricing \/ SetModePricing \/ RecordMedia PROVE CostInv'
    OBVIOUS
  <1>1. UNCHANGED <<books, modeCost, billing>>
    BY DEF SetPricing, SetModePricing, RecordMedia
  <1>2. Bills'
    BY <1>1 DEF CostInv, Bills
  <1>3. CardsOK'
    <2>1. CASE SetPricing
      BY <2>1, BuiltInCards DEF SetPricing, CostInv, CardsOK, Put
    <2>2. CASE SetModePricing
      BY <2>2, BuiltInCards DEF SetModePricing, CostInv, CardsOK, Put
    <2>3. CASE RecordMedia
      BY <2>3 DEF RecordMedia, CostInv, CardsOK
    <2> QED
      BY <2>1, <2>2, <2>3
  <1> QED
    BY <1>1, <1>2, <1>3, BooksUntouched

LEMMA CostInvNext == CostInv /\ [CostNext]_costVars => CostInv'
  <1> SUFFICES ASSUME CostInv, [CostNext]_costVars PROVE CostInv'
    OBVIOUS
  <1>1. ASSUME NEW c \in Calls, Generate(c) PROVE CostInv'
    BY <1>1, GenerateKeeps
  <1>2. ASSUME NEW c \in Calls, Stream(c) \/ ChunkWithUsage(c) PROVE CostInv'
    BY <1>2, StreamStepKeeps
  <1>3. ASSUME NEW c \in Calls, StreamEnds(c) PROVE CostInv'
    BY <1>3, StreamEndsKeeps
  <1>4. CASE ResetCosts
    BY <1>4, ResetKeepsCosts
  <1>5. CASE SetPricing \/ SetModePricing \/ RecordMedia
    BY <1>5, PricesSetKeeps
  <1>6. CASE UNCHANGED costVars
    <2>1. UNCHANGED <<pricing, modePricing, books, modeCost, billing>>
      BY <1>6 DEF costVars
    <2>2. CardsOK' /\ Bills'
      BY <2>1 DEF CostInv, CardsOK, Bills
    <2> QED
      BY <2>1, <2>2, BooksUntouched
  <1> QED
    BY <1>1, <1>2, <1>3, <1>4, <1>5, <1>6 DEF CostNext

\* Whatever calls and streams are billed at once, whatever prices are set and whenever the books are
\* reset in between, they hold every call billed since under the model that served it and at the
\* price its caller was told; and the split by mode adds up to the total.
THEOREM LedgerAlwaysBalances == CostSpec => []BooksBalance
  <1>1. CostInv => BooksBalance
    <2> SUFFICES ASSUME CostInv PROVE BooksBalance
      OBVIOUS
    <2>1. ASSUME NEW m \in DOMAIN books
          PROVE  /\ m \in Models
                 /\ books[m].requests = Cardinality(Billed(m))
                 /\ books[m].cost = CostsOf(m)
                 /\ books[m].unpriced = Cardinality({c \in Billed(m) : ~billing[c].known})
                 /\ books[m].prompt + books[m].read + books[m].creation = InputOf(m)
      <3>1. m \in Models /\ Booked(m) /\ Account(m) = books[m]
        BY DEF CostInv, Account, ValueAt
      <3> QED
        BY <3>1 DEF Booked, Doubtful
    <2>2. ASSUME NEW c \in Calls, billing[c].phase = "billed"
          PROVE  billing[c].model \in DOMAIN books /\ billing[c].cost >= 0
      BY <2>2 DEF CostInv, Bills, BillOK
    <2>3. SumFunction(modeCost) + MediaCosts = GetTotalCost
      BY DEF CostInv, ModesAddUp, GetTotalCost, Account
    <2> QED
      BY <2>1, <2>2, <2>3 DEF BooksBalance
  <1> QED
    BY <1>1, CostInvInit, CostInvNext, PTL DEF CostSpec
=============================================================================
