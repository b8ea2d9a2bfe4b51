-------------------------- MODULE RequestPathProofs --------------------------
(***************************************************************************)
(* Parts of the way of a request.  An HTTP request leaves no response body *)
(* open behind it, and waits as long as the last answer told it, for every *)
(* policy and every sequence of answers, failures and cancellations.  The  *)
(* response cache serves fresh answers that nobody has changed, and drops  *)
(* the dead before the living, for any number of calls and any size.  The  *)
(* middlewares that watch judge every request once, and their window keeps *)
(* the latest samples.  A batch at the service has one result for each of  *)
(* its requests, and is polled often enough.  Each vector is that of its   *)
(* own text, asked for under the caller's task, and a ranking is sorted.   *)
(***************************************************************************)
EXTENDS HttpRetry, ResponseCache, Telemetry, NativeBatch, Embeddings, FiniteSetTheorems,
        WellFoundedInduction, SequenceTheorems, TLAPS

-----------------------------------------------------------------------------
(* The HTTP request.                                                       *)

Stages == {"check", "sleep", "send", "response", "returned"}

TypeOK ==
    /\ kind \in Kinds
    /\ stage \in Stages
    /\ attempt \in 0..(MaxRetries + 1)
    /\ open \subseteq Nat
    /\ lastErr \in {"none", "transport", "status"}
    /\ status \in Statuses \cup {"none"}

\* Nothing is open but the response at hand, and in the end the stream handed
\* over.
OneBody ==
    /\ stage \in {"check", "sleep", "send"} => open = {} /\ answer = "none"
    /\ stage = "response" => open = {attempt} /\ answer = "none"
    /\ stage = "returned" =>
         open = (IF kind = "stream" /\ answer = "ok" THEN {attempt} ELSE {})

\* Out of attempts, the last one had no answer: the last answer is never one
\* that the loop drops.  A stream has one attempt, and it is within bounds.
LastAnswerKept ==
    /\ attempt > MaxRetries => lastErr = "transport" /\ status = "none"
    /\ stage \in {"sleep", "send"} => attempt <= MaxRetries
    /\ stage = "response" => attempt <= MaxRetries
    /\ answer = "exhausted" => attempt > MaxRetries
    /\ kind = "stream" => stage \notin {"check", "sleep"}

IInv == TypeOK /\ OneBody /\ LastAnswerKept

LEMMA InitIInv == Init => IInv
  <1> SUFFICES ASSUME Init PROVE IInv
    OBVIOUS
  <1>1. CASE kind = "whole"
    BY <1>1, RetryAssumption
    DEF Init, IInv, TypeOK, OneBody, LastAnswerKept, Kinds, Statuses, Stages
  <1>2. CASE kind = "stream"
    BY <1>2, RetryAssumption
    DEF Init, IInv, TypeOK, OneBody, LastAnswerKept, Kinds, Statuses, Stages
  <1> QED
    BY <1>1, <1>2 DEF Init, Kinds

\* Each step keeps the invariant: the loop touches no body, a response opens one
\* or is closed at once, and the one who handles it closes it or hands it over.
LEMMA NextIInv == IInv /\ [Next]_requestVars => IInv'
  <1> SUFFICES ASSUME IInv, [Next]_requestVars PROVE IInv'
    OBVIOUS
  <1> USE RetryAssumption
      DEF IInv, TypeOK, OneBody, LastAnswerKept, Kinds, Statuses, Stages, Return,
          waitVars, responseVars
  <1>1. CASE Check
    BY <1>1 DEF Check
  <1>2. CASE Exhausted
    BY <1>2 DEF Exhausted
  <1>3. CASE Canceled
    BY <1>3 DEF Canceled
  <1>4. CASE Sleep
    BY <1>4 DEF Sleep
  <1>5. CASE Wake
    BY <1>5 DEF Wake
  <1>6. CASE NoResponse
    <2>1. CASE stage' = "returned"
      BY <1>6, <2>1 DEF NoResponse
    <2>2. CASE stage' = "check"
      BY <1>6, <2>2 DEF NoResponse
    <2> QED
      BY <1>6, <2>1, <2>2 DEF NoResponse
  <1>7. ASSUME NEW code \in Statuses, NEW after \in RetryAfters, Respond(code, after)
        PROVE  IInv'
    <2>1. /\ stage = "send" /\ status' = code /\ kind' = kind /\ answer' = answer
          /\ attempt \in 0..MaxRetries /\ open = {}
      BY <1>7 DEF Respond
    <2>2. CASE kind = "whole" /\ code = "retryable" /\ attempt < MaxRetries
      <3>1. stage' = "check" /\ attempt' = attempt + 1 /\ lastErr' = "status" /\ open' = {}
        BY <1>7, <2>1, <2>2 DEF Respond
      <3>2. attempt' \in 0..MaxRetries
        BY <2>1, <2>2, <3>1
      <3> QED
        BY <2>1, <2>2, <3>1, <3>2
    <2>3. CASE ~(kind = "whole" /\ code = "retryable" /\ attempt < MaxRetries)
      <3>1. stage' = "response" /\ attempt' = attempt /\ lastErr' = lastErr
            /\ open' = {attempt}
        BY <1>7, <2>1, <2>3 DEF Respond
      <3> QED
        BY <2>1, <3>1
    <2> QED
      BY <2>2, <2>3
  <1>8. CASE ApiError
    BY <1>8 DEF ApiError
  <1>9. CASE ReadWhole
    BY <1>9 DEF ReadWhole
  <1>10. CASE HandOver
    BY <1>10 DEF HandOver
  <1>11. CASE Cancel
    BY <1>11 DEF Cancel
  <1>12. CASE UNCHANGED requestVars
    BY <1>12 DEF requestVars
  <1> QED
    BY <1>1, <1>2, <1>3, <1>4, <1>5, <1>6, <1>7, <1>8, <1>9, <1>10, <1>11, <1>12
    DEF Next, RequestStep

\* A request that has returned has closed every body but that of a stream it
\* handed over, and has not dropped an answer to its last attempt.
LEMMA EndsClean == Spec => []RequestEndsClean
  <1>1. IInv => RequestEndsClean
    BY DEF IInv, TypeOK, OneBody, LastAnswerKept, RequestEndsClean
  <1> QED
    BY InitIInv, NextIInv, <1>1, PTL DEF Spec

-----------------------------------------------------------------------------
(* The waits.                                                              *)

\* The header is that of the last answer until it is used, and is used once.
HeaderUsedOnce ==
    /\ told \in Nat /\ retryAfter \in Nat
    /\ stage = "check" => retryAfter = told /\ (attempt = 0 => retryAfter = 0)
    /\ stage \in {"sleep", "send"} => retryAfter = 0

WaitInv == HeaderUsedOnce /\ WaitsAsTold

LEMMA MinOfTwo ==
    ASSUME NEW a \in Int, NEW b \in Int
    PROVE  Min({a, b}) = IF a <= b THEN a ELSE b
  <1> DEFINE m == IF a <= b THEN a ELSE b
  <1>1. m \in {a, b} /\ \A y \in {a, b} : m <= y
    OBVIOUS
  <1>2. \A x \in {a, b} : (\A y \in {a, b} : x <= y) => x = m
    OBVIOUS
  <1> QED
    BY <1>1, <1>2 DEF Min

LEMMA MaxOfTwo ==
    ASSUME NEW a \in Int, NEW b \in Int
    PROVE  Max({a, b}) = IF a >= b THEN a ELSE b
  <1> DEFINE m == IF a >= b THEN a ELSE b
  <1>1. m \in {a, b} /\ \A y \in {a, b} : m >= y
    OBVIOUS
  <1>2. \A x \in {a, b} : (\A y \in {a, b} : x >= y) => x = m
    OBVIOUS
  <1> QED
    BY <1>1, <1>2 DEF Max

\* A delay that is chosen lies between what the header asks for and the backoff.
LEMMA DelayBounds ==
    ASSUME NEW d \in Delays, retryAfter \in Nat, attempt \in Nat \ {0}
    PROVE  d >= Min({retryAfter, MaxDelay}) /\ d <= Max({retryAfter, GetDelay(attempt)})
  <1> DEFINE g == GetDelay(attempt)
  <1>1. g \in Int /\ g <= MaxDelay /\ MaxDelay \in Nat
    <2>1. 2^(attempt - 1) \in Int
      <3>1. attempt - 1 \in Nat
        OBVIOUS
      <3> QED
        BY <3>1, Z3
    <2>2. InitialDelay * 2^(attempt - 1) \in Int /\ MaxDelay \in Nat
      BY <2>1, RetryAssumption
    <2> QED
      BY <2>2, MinOfTwo DEF GetDelay
  <1> HIDE DEF g
  <1>2. PICK backoff \in Jittered(g) :
            d = LET wanted == Max({backoff, retryAfter})
                IN  IF MaxDelay > 0 THEN Min({wanted, MaxDelay}) ELSE wanted
    BY DEF Delays, g
  <1>3. backoff \in Int /\ backoff <= g
    BY <1>1, <1>2 DEF Jittered
  <1> DEFINE wanted == Max({backoff, retryAfter})
  <1>4. wanted = IF backoff >= retryAfter THEN backoff ELSE retryAfter
    BY <1>3, MaxOfTwo
  <1>5. wanted \in Int /\ d = IF MaxDelay > 0 THEN Min({wanted, MaxDelay}) ELSE wanted
    BY <1>2, <1>3, <1>4
  <1> HIDE DEF wanted
  <1>6. /\ Min({wanted, MaxDelay}) = IF wanted <= MaxDelay THEN wanted ELSE MaxDelay
        /\ Min({retryAfter, MaxDelay}) = IF retryAfter <= MaxDelay THEN retryAfter ELSE MaxDelay
        /\ Max({retryAfter, g}) = IF retryAfter >= g THEN retryAfter ELSE g
    BY <1>1, <1>5, MinOfTwo, MaxOfTwo
  <1>7. d >= Min({retryAfter, MaxDelay})
    BY <1>1, <1>3, <1>4, <1>5, <1>6
  <1>8. d <= Max({retryAfter, g})
    BY <1>1, <1>3, <1>4, <1>5, <1>6
  <1> QED
    BY <1>7, <1>8 DEF g

LEMMA InitWaitInv == Init => WaitInv
  BY DEF Init, WaitInv, HeaderUsedOnce, WaitsAsTold, Kinds

LEMMA NextWaitInv == IInv /\ WaitInv /\ [Next]_requestVars => WaitInv'
  <1> SUFFICES ASSUME IInv, WaitInv, [Next]_requestVars PROVE WaitInv'
    OBVIOUS
  <1>0. HeaderUsedOnce /\ WaitsAsTold /\ attempt \in Nat
    BY RetryAssumption DEF WaitInv, IInv, TypeOK
  <1>1. CASE Check
    <2>1. CASE attempt = 0
      BY <1>0, <1>1, <2>1 DEF Check, WaitInv, HeaderUsedOnce, WaitsAsTold, responseVars
    <2>2. CASE attempt # 0
      <3>1. /\ stage = "check" /\ stage' = "sleep" /\ delay' \in Delays /\ retryAfter' = 0
            /\ attempt' = attempt /\ told' = told
        BY <1>1, <2>2 DEF Check, responseVars
      <3>2. retryAfter = told /\ retryAfter \in Nat
        BY <1>0, <3>1 DEF HeaderUsedOnce
      <3>3. delay' >= Min({told, MaxDelay}) /\ delay' <= Max({told, GetDelay(attempt)})
        BY <1>0, <2>2, <3>1, <3>2, DelayBounds
      <3> QED
        BY <1>0, <3>1, <3>3 DEF WaitInv, HeaderUsedOnce, WaitsAsTold, GetDelay
    <2> QED
      BY <2>1, <2>2
  <1>2. CASE Exhausted \/ Canceled
    BY <1>0, <1>2 DEF Exhausted, Canceled, Return, WaitInv, HeaderUsedOnce, WaitsAsTold, waitVars, responseVars
  <1>3. CASE Sleep
    BY <1>0, <1>3 DEF Sleep, WaitInv, HeaderUsedOnce, WaitsAsTold, GetDelay, responseVars
  <1>4. CASE Wake
    BY <1>0, <1>4 DEF Wake, WaitInv, HeaderUsedOnce, WaitsAsTold, waitVars, responseVars
  <1>5. CASE NoResponse
    <2>1. /\ stage = "send" /\ told' = 0 /\ stage' \in {"check", "returned"}
          /\ retryAfter' = retryAfter
      BY <1>5 DEF NoResponse, Return, waitVars
    <2> QED
      BY <1>0, <2>1 DEF WaitInv, HeaderUsedOnce, WaitsAsTold
  <1>6. ASSUME NEW code \in Statuses, NEW after \in RetryAfters, Respond(code, after)
        PROVE  WaitInv'
    <2>1. after \in Nat
      BY RetryAssumption
    <2> QED
      BY <1>0, <1>6, <2>1 DEF Respond, WaitInv, HeaderUsedOnce, WaitsAsTold
  <1>7. CASE ApiError \/ ReadWhole \/ HandOver
    BY <1>0, <1>7 DEF ApiError, ReadWhole, HandOver, Return, WaitInv, HeaderUsedOnce, WaitsAsTold,
       waitVars, responseVars
  <1>8. CASE Cancel
    BY <1>0, <1>8 DEF Cancel, WaitInv, HeaderUsedOnce, WaitsAsTold, GetDelay, waitVars, responseVars
  <1>9. CASE UNCHANGED requestVars
    BY <1>0, <1>9 DEF WaitInv, HeaderUsedOnce, WaitsAsTold, GetDelay, requestVars, waitVars, responseVars
  <1> QED
    BY <1>1, <1>2, <1>3, <1>4, <1>5, <1>6, <1>7, <1>8, <1>9 DEF Next, RequestStep

\* A wait is neither shorter than the last answer asked for, up to MaxDelay, nor
\* longer than it and the backoff: doWithRetry forgets the Retry-After of an
\* answer as it waits for it.
LEMMA WaitsAreAsTold == Spec => []WaitsAsTold
  <1>1. WaitInv => WaitsAsTold
    BY DEF WaitInv
  <1> QED
    BY InitIInv, NextIInv, InitWaitInv, NextWaitInv, <1>1, PTL DEF Spec

\* doWithRetry, for any policy and any answers: waits follow the last answer and no other,
\* every body but that of a stream handed over is closed, and the last answer is reported.
THEOREM AttemptsAreAlwaysOrderly == Spec => []AttemptsAreOrderly
  BY EndsClean, WaitsAreAsTold, PTL DEF AttemptsAreOrderly

-----------------------------------------------------------------------------
(* The response cache.                                                     *)

\* Calls that hold a response, which is theirs.
Holding == {c \in Callers : at[c] \in {"storing", "hit", "answered"}}

\* What the provider answers to the requests of a key.
AnswerTo(key) == [key |-> key, changed |-> FALSE]

CacheTypeOK ==
    /\ ttl \in {0, TTL} /\ clock \in Nat
    /\ object \in Seq([key : Keys, changed : BOOLEAN])
    /\ Cached \subseteq Keys /\ IsFiniteSet(Cached)
    /\ at \in [Callers -> {"idle", "provider", "storing", "hit", "answered", "failed"}]
    /\ request \in [Callers -> Keys]
    /\ held \in [Callers -> Nat]
    /\ DOMAIN served = Callers

\* An entry is the answer to its key, and lasts a ttl from when it was stored.
EntriesAreAnswers ==
    \A k \in Cached :
        /\ entries[k].object \in 1..Len(object) /\ object[entries[k].object] = AnswerTo(k)
        /\ entries[k].stored \in Nat
        /\ ttl = 0 => entries[k].expires = 0
        /\ ttl # 0 => entries[k].expires = entries[k].stored + ttl

\* Nobody holds the object of an entry or of another call, and what is about to be
\* stored is the provider's answer.
CopiesAreApart ==
    /\ \A c \in Holding : held[c] \in 1..Len(object) /\ \A k \in Cached : entries[k].object # held[c]
    /\ \A c, d \in Holding : c # d => held[c] # held[d]
    /\ \A c \in Callers : at[c] = "storing" => object[held[c]] = AnswerTo(request[c])

CacheInv == CacheTypeOK /\ EntriesAreAnswers /\ CopiesAreApart /\ HitsAreFreshAnswers

Objects == [key : Keys, changed : BOOLEAN]

LEMMA InitCacheInv == CacheInit => CacheInv
  <1> SUFFICES ASSUME CacheInit PROVE CacheInv
    OBVIOUS
  <1>1. Cached = {} /\ IsFiniteSet(Cached)
    BY FS_EmptySet DEF CacheInit, Cached
  <1>2. Holding = {} /\ \A c \in Callers : at[c] = "idle"
    BY DEF CacheInit, Holding
  <1>3. CacheTypeOK
    BY <1>1, CacheAssumption DEF CacheInit, CacheTypeOK
  <1> QED
    BY <1>1, <1>2, <1>3 DEF CacheInv, EntriesAreAnswers, CopiesAreApart, HitsAreFreshAnswers

\* A new object takes nothing from the others.
LEMMA NewObject ==
    ASSUME CacheTypeOK, NEW o \in Objects, object' = Append(object, o)
    PROVE  /\ object' \in Seq(Objects) /\ Len(object) \in Nat /\ Len(object') = Len(object) + 1
           /\ \A i \in 1..Len(object) : object'[i] = object[i]
           /\ object'[Len(object')] = o
  <1>1. object \in Seq(Objects)
    BY DEF CacheTypeOK, Objects
  <1> QED
    BY <1>1

LEMMA AnswersAreObjects == ASSUME NEW k \in Keys PROVE AnswerTo(k) \in Objects
  BY DEF AnswerTo, Objects

\* c is given an object of its own, the answer to its request.
IsGiven(c, step) ==
    /\ at[c] \in {"idle", "provider"} /\ step \in {"storing", "hit"}
    /\ object' = Append(object, AnswerTo(request[c]))
    /\ held' = [held EXCEPT ![c] = Len(object')]
    /\ at' = [at EXCEPT ![c] = step]
    /\ UNCHANGED <<ttl, clock, entries, request>>

LEMMA GivenIsApart ==
    ASSUME CacheTypeOK, EntriesAreAnswers, CopiesAreApart, NEW c \in Callers,
           NEW step, IsGiven(c, step), DOMAIN served' = Callers
    PROVE  CacheTypeOK' /\ EntriesAreAnswers' /\ CopiesAreApart'
  <1>1. request[c] \in Keys /\ AnswerTo(request[c]) \in Objects
    BY AnswersAreObjects DEF CacheTypeOK
  <1>2. /\ object' \in Seq(Objects) /\ Len(object) \in Nat /\ Len(object') = Len(object) + 1
        /\ \A i \in 1..Len(object) : object'[i] = object[i]
        /\ object'[Len(object')] = AnswerTo(request[c])
    BY <1>1, NewObject DEF IsGiven
  <1>3. /\ held'[c] = Len(object) + 1 /\ at'[c] = step /\ step \in {"storing", "hit"}
        /\ c \notin Holding
        /\ \A d \in Callers \ {c} : held'[d] = held[d] /\ at'[d] = at[d]
    BY <1>2 DEF CacheTypeOK, IsGiven, Holding
  <1>4. Cached' = Cached
    BY DEF Cached, IsGiven
  <1>5. CacheTypeOK'
    BY <1>2, <1>4 DEF CacheTypeOK, Objects, IsGiven
  <1>6. EntriesAreAnswers'
    BY <1>2, <1>4 DEF EntriesAreAnswers, IsGiven
  <1>7. Holding' = Holding \cup {c}
    BY <1>3 DEF Holding
  <1>8. \A d \in Holding :
          d # c /\ held'[d] = held[d] /\ held[d] \in 1..Len(object) /\ object'[held[d]] = object[held[d]]
    BY <1>2, <1>3 DEF CopiesAreApart, Holding
  <1>9. \A j \in Cached : entries'[j] = entries[j] /\ entries[j].object \in 1..Len(object)
    BY DEF EntriesAreAnswers, IsGiven
  <1>10. ASSUME NEW d \in Holding'
         PROVE  held'[d] \in 1..Len(object') /\ \A j \in Cached' : entries'[j].object # held'[d]
    <2>1. CASE d = c
      BY <1>2, <1>3, <1>4, <1>9, <2>1
    <2>2. CASE d \in Holding
      BY <1>2, <1>4, <1>8, <1>9, <2>2 DEF CopiesAreApart
    <2> QED
      BY <1>7, <1>10, <2>1, <2>2
  <1>11. ASSUME NEW d \in Holding', NEW e \in Holding', d # e PROVE held'[d] # held'[e]
    BY <1>2, <1>3, <1>7, <1>8, <1>11 DEF CopiesAreApart
  <1>12. ASSUME NEW d \in Callers, at'[d] = "storing" PROVE object'[held'[d]] = AnswerTo(request'[d])
    <2>1. request' = request
      BY DEF IsGiven
    <2>2. CASE d = c
      BY <1>2, <1>3, <2>1, <2>2
    <2>3. CASE d # c
      BY <1>3, <1>8, <1>12, <2>1, <2>3 DEF CopiesAreApart, Holding
    <2> QED
      BY <2>2, <2>3
  <1>13. CopiesAreApart'
    BY <1>10, <1>11, <1>12 DEF CopiesAreApart
  <1> QED
    BY <1>5, <1>6, <1>13

\* A step that makes no hit.
LEMMA HitsStay ==
    ASSUME HitsAreFreshAnswers, UNCHANGED <<ttl, request, served>>,
           \A c \in Callers : at'[c] = "hit" => at[c] = "hit"
    PROVE  HitsAreFreshAnswers'
  BY DEF HitsAreFreshAnswers

LEMMA HitKeeps == ASSUME CacheInv, NEW c \in Callers, Hit(c) PROVE CacheInv'
  <1>0. CacheTypeOK /\ EntriesAreAnswers /\ CopiesAreApart /\ HitsAreFreshAnswers
    BY DEF CacheInv
  <1>1. PICK k \in Keys : k = request[c] /\ k \in Cached
    BY <1>0 DEF Hit, CacheTypeOK
  <1>2. object[entries[k].object] = AnswerTo(k)
    BY <1>0, <1>1 DEF EntriesAreAnswers
  <1>3. IsGiven(c, "hit")
    BY <1>1, <1>2 DEF Hit, Own, CloneOf, IsGiven
  <1>4. /\ UNCHANGED <<ttl, request>> /\ Live(k)
        /\ at' = [at EXCEPT ![c] = "hit"]
        /\ served' = [served EXCEPT ![c] = <<clock, entries[k], AnswerTo(k)>>]
    BY <1>1, <1>2 DEF Hit
  <1>5. /\ DOMAIN served' = Callers
        /\ served'[c] = <<clock, entries[k], AnswerTo(k)>>
        /\ \A d \in Callers \ {c} : at'[d] = at[d] /\ served'[d] = served[d]
    BY <1>0, <1>4 DEF CacheTypeOK
  <1>6. CacheTypeOK' /\ EntriesAreAnswers' /\ CopiesAreApart'
    BY <1>0, <1>3, <1>5, GivenIsApart
  <1>7. ttl # 0 => clock - entries[k].stored < ttl
    <2>1. /\ entries[k].stored \in Nat /\ clock \in Nat /\ ttl \in Nat
          /\ ttl # 0 => entries[k].expires = entries[k].stored + ttl
      BY <1>0, <1>1, CacheAssumption DEF EntriesAreAnswers, CacheTypeOK
    <2>2. entries[k].expires = 0 \/ clock < entries[k].expires
      BY <1>4 DEF Live
    <2> QED
      BY <2>1, <2>2
  <1>8. HitsAreFreshAnswers'
    <2> SUFFICES ASSUME NEW d \in Callers, at'[d] = "hit"
                 PROVE  /\ served'[d][3] = [key |-> request'[d], changed |-> FALSE]
                        /\ ttl' # 0 => served'[d][1] - served'[d][2].stored < ttl'
      BY DEF HitsAreFreshAnswers
    <2>1. CASE d = c
      BY <1>1, <1>4, <1>5, <1>7, <2>1 DEF AnswerTo
    <2>2. CASE d # c
      BY <1>0, <1>4, <1>5, <2>2 DEF HitsAreFreshAnswers
    <2> QED
      BY <2>1, <2>2
  <1> QED
    BY <1>6, <1>8 DEF CacheInv

LEMMA ProviderAnswersKeeps ==
    ASSUME CacheInv, NEW c \in Callers, ProviderAnswers(c)
    PROVE  CacheInv'
  <1>0. CacheTypeOK /\ EntriesAreAnswers /\ CopiesAreApart /\ HitsAreFreshAnswers
    BY DEF CacheInv
  <1>1. IsGiven(c, "storing") /\ UNCHANGED <<ttl, request, served>>
    BY DEF ProviderAnswers, IsGiven, AnswerTo
  <1>2. DOMAIN served' = Callers
    BY <1>0, <1>1 DEF CacheTypeOK
  <1>3. \A d \in Callers : at'[d] = "hit" => at[d] = "hit"
    BY <1>0, <1>1 DEF IsGiven, CacheTypeOK
  <1> QED
    BY <1>0, <1>1, <1>2, <1>3, GivenIsApart, HitsStay DEF CacheInv

\* Calls go without a response, entries go, and time passes.
LEMMA LossKeeps ==
    ASSUME CacheInv, CacheTypeOK', UNCHANGED <<ttl, object, request, held, served>>,
           Cached' \subseteq Cached, \A k \in Cached' : entries'[k] = entries[k],
           \A c \in Callers : at'[c] = at[c] \/ at'[c] \in {"provider", "failed"}
    PROVE  CacheInv'
  <1>1. Holding' \subseteq Holding
    BY DEF Holding
  <1>2. EntriesAreAnswers'
    BY DEF CacheInv, EntriesAreAnswers
  <1>3. CopiesAreApart'
    BY <1>1 DEF CacheInv, CopiesAreApart
  <1>4. HitsAreFreshAnswers'
    BY HitsStay DEF CacheInv
  <1> QED
    BY <1>2, <1>3, <1>4 DEF CacheInv

LEMMA MissKeeps == ASSUME CacheInv, NEW c \in Callers, Miss(c) PROVE CacheInv'
  <1>0. CacheTypeOK
    BY DEF CacheInv
  <1>1. /\ UNCHANGED <<ttl, clock, object, request, held, served>>
        /\ at' = [at EXCEPT ![c] = "provider"]
        /\ entries' = [k \in Cached \ {request[c]} |-> entries[k]]
    BY DEF Miss, Without
  <1>2. Cached' = Cached \ {request[c]} /\ \A k \in Cached' : entries'[k] = entries[k]
    BY <1>1 DEF Cached
  <1>3. IsFiniteSet(Cached')
    BY <1>0, <1>2, FS_Subset DEF CacheTypeOK
  <1>4. CacheTypeOK'
    BY <1>0, <1>1, <1>2, <1>3 DEF CacheTypeOK
  <1>5. \A d \in Callers : at'[d] = at[d] \/ at'[d] \in {"provider", "failed"}
    BY <1>0, <1>1 DEF CacheTypeOK
  <1> QED
    BY <1>1, <1>2, <1>4, <1>5, LossKeeps

LEMMA ProviderFailsKeeps == ASSUME CacheInv, NEW c \in Callers, ProviderFails(c) PROVE CacheInv'
  <1>0. CacheTypeOK
    BY DEF CacheInv
  <1>1. /\ UNCHANGED <<ttl, clock, object, entries, request, held, served>>
        /\ at' = [at EXCEPT ![c] = "failed"] /\ Cached' = Cached
    BY DEF ProviderFails, Cached
  <1>2. CacheTypeOK' /\ \A d \in Callers : at'[d] = at[d] \/ at'[d] \in {"provider", "failed"}
    BY <1>0, <1>1 DEF CacheTypeOK
  <1> QED
    BY <1>1, <1>2, LossKeeps

LEMMA CacheTickKeeps == ASSUME CacheInv, Tick PROVE CacheInv'
  <1>0. CacheTypeOK
    BY DEF CacheInv
  <1>1. UNCHANGED <<ttl, object, entries, at, request, held, served>> /\ clock' = clock + 1 /\ Cached' = Cached
    BY DEF Tick, Cached
  <1>2. CacheTypeOK'
    BY <1>0, <1>1 DEF CacheTypeOK
  <1> QED
    BY <1>1, <1>2, LossKeeps

\* The receiver changes what nobody else sees.
LEMMA ChangeKeeps == ASSUME CacheInv, NEW c \in Callers, Change(c) PROVE CacheInv'
  <1>0. CacheTypeOK /\ EntriesAreAnswers /\ CopiesAreApart /\ HitsAreFreshAnswers
    BY DEF CacheInv
  <1>1. /\ UNCHANGED <<ttl, clock, entries, at, request, held, served>> /\ Cached' = Cached
        /\ object' = [object EXCEPT ![held[c]].changed = TRUE] /\ c \in Holding /\ at[c] # "storing"
    BY DEF Change, Cached, Holding
  <1>2. /\ object \in Seq(Objects) /\ held[c] \in 1..Len(object)
        /\ object[held[c]] \in Objects
    <2>1. object \in Seq(Objects)
      BY <1>0 DEF CacheTypeOK, Objects
    <2>2. held[c] \in 1..Len(object)
      BY <1>0, <1>1 DEF CopiesAreApart
    <2> QED
      BY <2>1, <2>2
  <1>3. [object[held[c]] EXCEPT !.changed = TRUE] \in Objects
    BY <1>2 DEF Objects
  <1>4. /\ object' \in Seq(Objects) /\ Len(object') = Len(object)
        /\ \A i \in 1..Len(object) : i # held[c] => object'[i] = object[i]
    BY <1>1, <1>2, <1>3
  <1>5. CacheTypeOK'
    BY <1>0, <1>1, <1>4 DEF CacheTypeOK, Objects
  <1>6. EntriesAreAnswers'
    <2>1. \A k \in Cached : entries[k].object # held[c]
      BY <1>0, <1>1 DEF CopiesAreApart
    <2> QED
      BY <1>0, <1>1, <1>4, <2>1 DEF EntriesAreAnswers
  <1>7. CopiesAreApart'
    <2>1. Holding' = Holding
      BY <1>1 DEF Holding
    <2>2. \A d \in Callers : at[d] = "storing" => d \in Holding /\ d # c
      BY <1>1 DEF Holding
    <2>3. \A d \in Callers : at[d] = "storing" => held[d] # held[c] /\ held[d] \in 1..Len(object)
      BY <1>0, <1>1, <2>2 DEF CopiesAreApart
    <2> QED
      BY <1>0, <1>1, <1>4, <2>1, <2>3 DEF CopiesAreApart
  <1>8. HitsAreFreshAnswers'
    BY <1>0, <1>1, HitsStay
  <1> QED
    BY <1>5, <1>6, <1>7, <1>8 DEF CacheInv

\* What is stored is a copy that its caller does not hold.
LEMMA StoreKeeps == ASSUME CacheInv, NEW c \in Callers, Store(c) PROVE CacheInv'
  <1>0. CacheTypeOK /\ EntriesAreAnswers /\ CopiesAreApart /\ HitsAreFreshAnswers
    BY DEF CacheInv
  <1>1. PICK k \in Keys : k = request[c]
    BY <1>0 DEF CacheTypeOK
  <1>2. PICK lasting \in Nat :
          (ttl = 0 => lasting = 0) /\ (ttl # 0 => lasting = clock + ttl)
          /\ \E dropped \in Room(k) :
               entries' = [j \in {k} \cup (Cached \ dropped) |->
                   IF j = k THEN [object |-> Len(object'), stored |-> clock, expires |-> lasting]
                   ELSE entries[j]]
    <2>1. clock + ttl \in Nat
      BY <1>0, CacheAssumption DEF CacheTypeOK
    <2>2. CASE ttl = 0
      BY <1>1, <2>2 DEF Store
    <2>3. CASE ttl # 0
      BY <1>1, <2>1, <2>3 DEF Store
    <2> QED
      BY <2>2, <2>3
  <1>3. /\ UNCHANGED <<ttl, clock, request, held, served>>
        /\ object' = Append(object, AnswerTo(k))
        /\ at' = [at EXCEPT ![c] = "answered"] /\ at[c] = "storing"
    BY <1>0, <1>1 DEF Store, CloneOf, CopiesAreApart
  <1>4. /\ object' \in Seq(Objects) /\ Len(object) \in Nat /\ Len(object') = Len(object) + 1
        /\ \A i \in 1..Len(object) : object'[i] = object[i]
        /\ object'[Len(object')] = AnswerTo(k)
    BY <1>0, <1>1, <1>3, NewObject, AnswersAreObjects
  <1>5. /\ k \in Cached' /\ Cached' \subseteq Cached \cup {k}
        /\ entries'[k] = [object |-> Len(object'), stored |-> clock, expires |-> lasting]
        /\ \A j \in Cached' \ {k} : j \in Cached /\ entries'[j] = entries[j]
    BY <1>2 DEF Cached
  <1>6. /\ entries'[k].object = Len(object') /\ entries'[k].stored = clock
        /\ entries'[k].expires = lasting
    BY <1>5
  <1>7. IsFiniteSet(Cached')
    BY <1>0, <1>5, FS_AddElement, FS_Subset DEF CacheTypeOK
  <1>8. CacheTypeOK'
    BY <1>0, <1>1, <1>3, <1>4, <1>5, <1>7 DEF CacheTypeOK, Objects
  <1>9. EntriesAreAnswers'
    <2> SUFFICES ASSUME NEW j \in Cached'
                 PROVE  /\ entries'[j].object \in 1..Len(object')
                        /\ object'[entries'[j].object] = AnswerTo(j)
                        /\ entries'[j].stored \in Nat
                        /\ ttl' = 0 => entries'[j].expires = 0
                        /\ ttl' # 0 => entries'[j].expires = entries'[j].stored + ttl'
      BY DEF EntriesAreAnswers
    <2>1. CASE j = k
      <3>1. clock \in Nat /\ ttl' = ttl
        BY <1>0, <1>3 DEF CacheTypeOK
      <3>2. /\ entries'[k].object \in 1..Len(object') /\ entries'[k].stored \in Nat
            /\ object'[entries'[k].object] = AnswerTo(k)
        BY <1>4, <1>6, <3>1
      <3>3. /\ ttl' = 0 => entries'[k].expires = 0
            /\ ttl' # 0 => entries'[k].expires = entries'[k].stored + ttl'
        BY <1>2, <1>6, <3>1
      <3> QED
        BY <2>1, <3>2, <3>3
    <2>2. CASE j # k
      BY <1>0, <1>3, <1>4, <1>5, <2>2 DEF EntriesAreAnswers
    <2> QED
      BY <2>1, <2>2
  <1>10. CopiesAreApart'
    <2>1. Holding' = Holding /\ \A d \in Callers : at'[d] = "storing" => at[d] = "storing" /\ d \in Holding
      BY <1>0, <1>3 DEF Holding, CacheTypeOK
    <2>2. \A d \in Holding : held[d] \in 1..Len(object) /\ object'[held[d]] = object[held[d]]
      BY <1>0, <1>4 DEF CopiesAreApart
    <2>3. ASSUME NEW d \in Holding, NEW j \in Cached' PROVE entries'[j].object # held[d]
      <3>1. CASE j = k
        BY <1>4, <1>6, <2>2, <3>1
      <3>2. CASE j # k
        BY <1>0, <1>5, <3>2 DEF CopiesAreApart
      <3> QED
        BY <3>1, <3>2
    <2>4. \A d \in Holding : held[d] \in 1..Len(object')
      BY <1>4, <2>2
    <2>5. \A d \in Callers : at'[d] = "storing" => object'[held'[d]] = AnswerTo(request'[d])
      BY <1>0, <1>3, <2>1, <2>2 DEF CopiesAreApart
    <2> QED
      BY <1>0, <1>3, <2>1, <2>3, <2>4, <2>5 DEF CopiesAreApart
  <1>11. HitsAreFreshAnswers'
    <2>1. \A d \in Callers : at'[d] = "hit" => at[d] = "hit"
      BY <1>0, <1>3 DEF CacheTypeOK
    <2> QED
      BY <1>0, <1>3, <2>1, HitsStay
  <1> QED
    BY <1>8, <1>9, <1>10, <1>11 DEF CacheInv

\* Each step of a call, of time or of a receiver keeps the invariant.
LEMMA NextCacheInv == CacheInv /\ [CacheNext]_cacheVars => CacheInv'
  <1> SUFFICES ASSUME CacheInv, [CacheNext]_cacheVars PROVE CacheInv'
    OBVIOUS
  <1>1. CASE UNCHANGED cacheVars
    <2>1. UNCHANGED <<ttl, clock, object, entries, at, request, held, served>> /\ Cached' = Cached
      BY <1>1 DEF cacheVars, Cached
    <2>2. CacheTypeOK'
      BY <2>1 DEF CacheInv, CacheTypeOK
    <2> QED
      BY <2>1, <2>2, LossKeeps
  <1>2. CASE CacheNext
    BY <1>2, HitKeeps, MissKeeps, ProviderAnswersKeeps, ProviderFailsKeeps, StoreKeeps,
       ChangeKeeps, CacheTickKeeps DEF CacheNext
  <1> QED
    BY <1>1, <1>2

\* A response served from the cache is the provider's answer to that request, as it was
\* answered, and less than a ttl old, for any number of calls and of receivers that change
\* what they were given.
THEOREM HitsAreFresh == CacheSpec => []HitsAreFreshAnswers
  <1>1. CacheInv => HitsAreFreshAnswers
    BY DEF CacheInv
  <1> QED
    BY <1>1, InitCacheInv, NextCacheInv, PTL DEF CacheSpec

\* What evictLocked removes is dead, or alive as all the rest is.
LEMMA EvictionsAreDeadFirst ==
    ASSUME CacheInv, NEW key \in Keys, NEW dropped \in Room(key),
           NEW k \in dropped, k \in Cached, Live(k)
    PROVE  Cardinality(Cached) >= MaxEntries /\ \A j \in Cached : Live(j)
  <1>0. CacheTypeOK /\ EntriesAreAnswers /\ Cardinality(Cached) \in Nat /\ MaxEntries \in Nat
    BY FS_CardinalityType, CacheAssumption DEF CacheInv, CacheTypeOK
  <1>1. ttl \in Nat /\ clock \in Nat
    BY <1>0, CacheAssumption DEF CacheTypeOK
  <1>2. Cardinality(Cached) >= MaxEntries /\ dropped \in Evictions
    BY <1>0 DEF Room
  <1>3. \A j \in Cached : entries[j].expires \in Nat /\ (entries[j].expires = 0 <=> ttl = 0)
    BY <1>0, <1>1 DEF EntriesAreAnswers
  <1>4. k \notin Expired
    BY <1>1, <1>3 DEF Live, Expired
  <1>5. Expired = {} /\ k \in EarliestExpiring(Cached)
    BY <1>2, <1>4 DEF Evictions
  <1>6. ASSUME NEW j \in Cached PROVE Live(j)
    BY <1>1, <1>3, <1>5 DEF EarliestExpiring, Live
  <1> QED
    BY <1>2, <1>6

\* Room is made at the cost of the dead: an entry that could still be served goes only from
\* a full cache in which every entry could be.
THEOREM DeadGoFirst == CacheSpec => EvictsDeadFirst
  <1> DEFINE Right == \A k \in Cached : Live(k) /\ k \notin DOMAIN entries' =>
                        Cardinality(Cached) >= MaxEntries /\ \A j \in Cached : Live(j)
  <1>1. CacheInv /\ [CacheNext]_cacheVars => [Right]_cacheVars
    <2> SUFFICES ASSUME CacheInv, CacheNext, NEW k \in Cached, Live(k), k \notin DOMAIN entries'
                 PROVE  Cardinality(Cached) >= MaxEntries /\ \A j \in Cached : Live(j)
      OBVIOUS
    <2>1. entries' # entries
      BY DEF Cached
    <2>2. ASSUME NEW c \in Callers, Miss(c) PROVE FALSE
      BY <2>2 DEF Miss, Without
    <2>3. ASSUME NEW c \in Callers, Store(c)
          PROVE  Cardinality(Cached) >= MaxEntries /\ \A j \in Cached : Live(j)
      <3>1. request[c] \in Keys
        BY DEF CacheInv, CacheTypeOK
      <3>2. PICK dropped \in Room(request[c]) : k \in dropped
        BY <2>3 DEF Store
      <3> QED
        BY <3>1, <3>2, EvictionsAreDeadFirst
    <2> QED
      BY <2>1, <2>2, <2>3 DEF CacheNext, Tick, Hit, ProviderAnswers, ProviderFails, Change
  <1> QED
    BY <1>1, InitCacheInv, NextCacheInv, PTL DEF CacheSpec, EvictsDeadFirst

-----------------------------------------------------------------------------
(* Telemetry: what a middleware says of a request.                         *)

Asks ==
    [phase : Phases, canceled : BOOLEAN, usage : BOOLEAN, completed : BOOLEAN,
     hadError : BOOLEAN, panicked : BOOLEAN, span : {"none", "open", "ended"},
     told : {"nothing", "success", "error", "panic"}, withheld : BOOLEAN,
     praised : {0, 1}, blamed : {0, 1}, tallies : {0, 1}]

\* Nothing has been said of it.
Unsaid(ask) ==
    ask.praised = 0 /\ ask.blamed = 0 /\ ask.tallies = 0 /\ ~ask.hadError /\ ~ask.panicked /\ ~ask.withheld

\* The usage that the metrics bill is counted.
Counted(ask, o) == o = "metrics" => (ask.usage <=> ask.tallies = 1)

\* How far the account of a request has come, phase by phase.
AskInv(ask, o) ==
    /\ ask.phase \in {"call", "generate", "opening"} =>
         Unsaid(ask) /\ ~ask.usage /\ ~ask.completed /\ ask.told = "nothing" /\ ~ask.canceled
    /\ ask.phase = "leaving" =>
         /\ ask.told # "nothing" /\ Counted(ask, o)
         /\ ask.praised = 1 <=> ask.told = "success"
         /\ ask.blamed = 1 <=> ask.told = "error"
         /\ ~ask.withheld /\ ~ask.panicked /\ ~ask.completed
    /\ ask.phase = "streaming" =>
         Unsaid(ask) /\ ask.told = (IF ask.completed THEN "success" ELSE "nothing")
    /\ ask.phase = "settling" =>
         /\ ask.tallies = 0 /\ ask.praised = 0
         /\ o = "logging" => ~ask.panicked
         /\ ask.hadError => ~ask.completed /\ ~ask.panicked /\ ask.told \in {"nothing", "error"}
         /\ ask.withheld <=> ask.hadError /\ ask.told = "nothing"
         /\ ~ask.hadError /\ ~ask.panicked => ask.told = (IF ask.completed THEN "success" ELSE "nothing")
         /\ ask.panicked => ~ask.completed /\ ask.told # "panic"
         /\ ask.blamed = 1 => ask.hadError
         /\ ask.hadError /\ o # "logging" => ask.blamed = 1
    /\ ask.phase \in {"settled", "ended", "inactive"} =>
         /\ ask.praised + ask.blamed = 1 /\ ask.told # "panic"
         /\ ask.praised = 1 => ~ask.withheld /\ ~ask.panicked /\ ask.told # "error"
         /\ ask.blamed = 1 /\ ask.told = "success" => ask.panicked
         /\ ask.blamed = 1 /\ ask.told = "nothing" => ask.withheld \/ ask.canceled
         /\ ask.withheld => ask.told = "nothing"
         /\ ask.completed => ask.told = "success" /\ ask.praised = 1
         /\ Counted(ask, o)
    /\ ask.phase = "over" =>
         /\ ask.praised + ask.blamed = (IF ask.told = "panic" THEN 0 ELSE 1)
         /\ ask.told = "success" => ask.praised = 1 \/ ask.panicked \/ (ask.withheld /\ ~ask.canceled)
         /\ ask.told = "error" => ask.blamed = 1 \/ (ask.canceled /\ ~ask.completed)
         /\ ask.withheld \/ ask.panicked => ask.blamed = 1
         /\ ask.completed => ask.praised = 1 /\ ask.told = "success"
         /\ Counted(ask, o)

VerdictInv ==
    /\ observer \in Observers
    /\ asks \in [Requests -> Asks]
    /\ \A r \in Requests : AskInv(asks[r], observer)

\* A step that touches one request keeps the invariant if it keeps that of the request.
LEMMA AskStep ==
  ASSUME VerdictInv, NEW r \in Requests, NEW ask \in Asks, AskInv(ask, observer), Set(r, ask), observer' = observer
  PROVE  VerdictInv'
  <1>1. asks' \in [Requests -> Asks]
    BY DEF VerdictInv, Set
  <1>2. ASSUME NEW q \in Requests PROVE AskInv(asks'[q], observer')
    BY <1>2 DEF VerdictInv, Set
  <1> QED
    BY <1>1, <1>2 DEF VerdictInv

\* A request that the step is about stays at work, with its span as it was.
Active == {"call", "generate", "leaving", "opening", "streaming", "settling", "settled", "ended"}
Stays(r) == \E new : Set(r, new) /\ new.phase \in Active \ {"ended"} /\ new.span = asks[r].span

SamePraise(new, ask) ==
    /\ new.praised = 1 /\ new.blamed = ask.blamed /\ new.phase = ask.phase /\ new.told = ask.told
    /\ new.span = ask.span /\ new.tallies = ask.tallies /\ (new.canceled <=> ask.canceled) /\ (new.usage <=> ask.usage)
    /\ (new.completed <=> ask.completed) /\ (new.hadError <=> ask.hadError) /\ (new.panicked <=> ask.panicked)
    /\ (new.withheld <=> ask.withheld)

LEMMA Praise ==
  ASSUME NEW ask \in Asks, ask.praised = 0
  PROVE  [ask EXCEPT !.praised = @ + 1] \in Asks /\ SamePraise([ask EXCEPT !.praised = @ + 1], ask)
  BY DEF Asks, SamePraise

SameBlame(new, ask) ==
    /\ new.blamed = 1 /\ new.praised = ask.praised /\ new.phase = ask.phase /\ new.told = ask.told
    /\ new.span = ask.span /\ new.tallies = ask.tallies /\ (new.canceled <=> ask.canceled) /\ (new.usage <=> ask.usage)
    /\ (new.completed <=> ask.completed) /\ (new.hadError <=> ask.hadError) /\ (new.panicked <=> ask.panicked)
    /\ (new.withheld <=> ask.withheld)

LEMMA Blame ==
  ASSUME NEW ask \in Asks, ask.blamed = 0
  PROVE  [ask EXCEPT !.blamed = @ + 1] \in Asks /\ SameBlame([ask EXCEPT !.blamed = @ + 1], ask)
  BY DEF Asks, SameBlame

LEMMA UnaryKeepsVerdicts ==
  ASSUME VerdictInv, NEW r \in Requests, NEW got \in {"answer", "nil", "error", "panic"}, NEW counts \in BOOLEAN,
         asks[r].phase \in {"call", "generate"}, observer = "metrics" => counts, AnsweredUnary(r, got, counts)
  PROVE  VerdictInv' /\ Stays(r)
  <1> DEFINE old == asks[r]
  <1>1. /\ old \in Asks /\ AskInv(old, observer) /\ observer' = observer
        /\ old.told \in {"nothing", "success", "error", "panic"}
        /\ old.praised \in {0, 1} /\ old.blamed \in {0, 1} /\ old.tallies \in {0, 1}
    BY DEF VerdictInv, Asks, AnsweredUnary
  <1>2. Unsaid(old)
    BY <1>1 DEF AskInv
  <1> DEFINE ask == [old EXCEPT !.phase = "leaving", !.told = ToldOf(got), !.usage = (got = "answer"),
                                !.tallies = IF got = "answer" /\ counts THEN 1 ELSE 0]
  <1>3. CASE got = "answer"
    <2>a. ask \in Asks
      BY <1>1, <1>2, <1>3 DEF Asks, Phases, ToldOf
    <2>b. /\ ask.phase = "leaving" /\ (ask.canceled <=> old.canceled) /\ ask.usage
          /\ (ask.completed <=> old.completed) /\ (ask.hadError <=> old.hadError)
          /\ (ask.panicked <=> old.panicked)
          /\ (ask.withheld <=> old.withheld) /\ ask.span = old.span /\ ask.told = "success"
          /\ ask.praised = old.praised /\ ask.blamed = old.blamed
          /\ ask.tallies = (IF counts THEN 1 ELSE 0)
      BY <1>1, <1>2, <1>3 DEF Asks, ToldOf
    <2> DEFINE new == [ask EXCEPT !.praised = @ + 1]
    <2>c. Set(r, new)
      BY <1>1, <1>2, <1>3 DEF AnsweredUnary, Verdict
    <2> HIDE DEF ask
    <2>d. new \in Asks /\ SamePraise(new, ask)
      BY <1>1, <1>2, <1>3, <2>a, <2>b, Praise DEF Unsaid
    <2> HIDE DEF new
    <2>e. AskInv(new, observer)
      BY <1>1, <1>2, <1>3, <2>b, <2>d DEF AskInv, Unsaid, Counted, SamePraise
    <2> QED
      BY <1>1, <2>b, <2>c, <2>d, <2>e, AskStep DEF Stays, Active, SamePraise
  <1>4. CASE got = "panic"
    <2>a. ask \in Asks
      BY <1>1, <1>2, <1>4 DEF Asks, Phases, ToldOf
    <2>b. /\ ask.phase = "leaving" /\ (ask.canceled <=> old.canceled) /\ ~ask.usage
          /\ (ask.completed <=> old.completed) /\ (ask.hadError <=> old.hadError)
          /\ (ask.panicked <=> old.panicked)
          /\ (ask.withheld <=> old.withheld) /\ ask.span = old.span /\ ask.told = "panic"
          /\ ask.praised = old.praised /\ ask.blamed = old.blamed /\ ask.tallies = 0
      BY <1>1, <1>2, <1>4 DEF Asks, ToldOf
    <2>c. Set(r, ask)
      BY <1>1, <1>2, <1>4 DEF AnsweredUnary, NoVerdict
    <2> HIDE DEF ask
    <2>d. AskInv(ask, observer)
      BY <1>1, <1>2, <1>4, <2>b DEF AskInv, Unsaid, Counted
    <2> QED
      BY <1>1, <1>2, <1>4, <2>a, <2>b, <2>c, <2>d, AskStep DEF Stays, Active
  <1>5. CASE got \in {"nil", "error"}
    <2>a. ask \in Asks
      BY <1>1, <1>2, <1>5 DEF Asks, Phases, ToldOf
    <2>b. /\ ask.phase = "leaving" /\ (ask.canceled <=> old.canceled) /\ ~ask.usage
          /\ (ask.completed <=> old.completed) /\ (ask.hadError <=> old.hadError)
          /\ (ask.panicked <=> old.panicked)
          /\ (ask.withheld <=> old.withheld) /\ ask.span = old.span /\ ask.told = "error"
          /\ ask.praised = old.praised /\ ask.blamed = old.blamed /\ ask.tallies = 0
      BY <1>1, <1>2, <1>5 DEF Asks, ToldOf
    <2> DEFINE new == [ask EXCEPT !.blamed = @ + 1]
    <2>c. Set(r, new)
      BY <1>1, <1>2, <1>5 DEF AnsweredUnary, Verdict
    <2> HIDE DEF ask
    <2>d. new \in Asks /\ SameBlame(new, ask)
      BY <1>1, <1>2, <1>5, <2>a, <2>b, Blame DEF Unsaid
    <2> HIDE DEF new
    <2>e. AskInv(new, observer)
      BY <1>1, <1>2, <1>5, <2>b, <2>d DEF AskInv, Unsaid, Counted, SameBlame
    <2> QED
      BY <1>1, <2>b, <2>c, <2>d, <2>e, AskStep DEF Stays, Active, SameBlame
  <1> QED
    BY <1>3, <1>4, <1>5

LEMMA LeaveKeepsVerdicts ==
  ASSUME VerdictInv, NEW r \in Requests, LeaveUnary(r)
  PROVE  VerdictInv'
  <1> DEFINE old == asks[r]
  <1>1. /\ old \in Asks /\ AskInv(old, observer) /\ observer' = observer
        /\ old.told \in {"nothing", "success", "error", "panic"}
        /\ old.praised \in {0, 1} /\ old.blamed \in {0, 1} /\ old.tallies \in {0, 1}
    BY DEF VerdictInv, Asks, LeaveUnary
  <1> DEFINE ask == [old EXCEPT !.phase = "over", !.span = IF HasSpan THEN "ended" ELSE @]
  <1>a. ask \in Asks
    BY <1>1 DEF Asks, Phases
  <1>b. /\ ask.phase = "over" /\ (ask.canceled <=> old.canceled) /\ (ask.usage <=> old.usage)
        /\ (ask.completed <=> old.completed) /\ (ask.hadError <=> old.hadError)
        /\ (ask.panicked <=> old.panicked)
        /\ (ask.withheld <=> old.withheld) /\ ask.told = old.told /\ ask.praised = old.praised
        /\ ask.blamed = old.blamed /\ ask.tallies = old.tallies
    BY <1>1 DEF Asks
  <1>c. Set(r, ask)
    BY <1>1 DEF LeaveUnary
  <1> HIDE DEF ask
  <1>d. AskInv(ask, observer)
    BY <1>1, <1>b DEF AskInv, Unsaid, Counted, LeaveUnary, InPhase
  <1> QED
    BY <1>1, <1>a, <1>c, <1>d, AskStep

LEMMA BeginKeepsVerdicts ==
  ASSUME VerdictInv, NEW r \in Requests, NEW phase \in {"call", "generate", "opening"}, Begin(r, phase)
  PROVE  VerdictInv'
  <1> DEFINE old == asks[r]
  <1>1. /\ old \in Asks /\ AskInv(old, observer) /\ observer' = observer
        /\ old.told \in {"nothing", "success", "error", "panic"}
        /\ old.praised \in {0, 1} /\ old.blamed \in {0, 1} /\ old.tallies \in {0, 1}
    BY DEF VerdictInv, Asks, Begin
  <1> DEFINE ask == [Fresh EXCEPT !.phase = phase, !.span = IF HasSpan THEN "open" ELSE "none"]
  <1>a. ask \in Asks
    BY DEF Asks, Phases, Fresh
  <1>b. /\ ask.phase = phase /\ ~ask.canceled /\ ~ask.usage /\ ~ask.completed /\ ~ask.hadError /\ ~ask.panicked /\ ~ask.withheld
        /\ ask.told = "nothing" /\ ask.praised = 0 /\ ask.blamed = 0 /\ ask.tallies = 0
    BY DEF Fresh
  <1>c. Set(r, ask)
    BY DEF Begin
  <1> HIDE DEF ask
  <1>d. AskInv(ask, observer)
    BY <1>b DEF AskInv, Unsaid, Counted
  <1> QED
    BY <1>1, <1>a, <1>c, <1>d, AskStep

LEMMA CancelKeepsVerdicts ==
  ASSUME VerdictInv, NEW r \in Requests, CancelStream(r)
  PROVE  VerdictInv'
  <1> DEFINE old == asks[r]
  <1>1. /\ old \in Asks /\ AskInv(old, observer) /\ observer' = observer
        /\ old.told \in {"nothing", "success", "error", "panic"}
        /\ old.praised \in {0, 1} /\ old.blamed \in {0, 1} /\ old.tallies \in {0, 1}
    BY DEF VerdictInv, Asks, CancelStream
  <1> DEFINE ask == [old EXCEPT !.canceled = TRUE]
  <1>a. ask \in Asks
    BY <1>1 DEF Asks, Phases
  <1>b. /\ ask.phase = old.phase /\ ask.canceled /\ (ask.usage <=> old.usage)
        /\ (ask.completed <=> old.completed) /\ (ask.hadError <=> old.hadError)
        /\ (ask.panicked <=> old.panicked)
        /\ (ask.withheld <=> old.withheld) /\ ask.told = old.told /\ ask.praised = old.praised
        /\ ask.blamed = old.blamed /\ ask.tallies = old.tallies
    BY <1>1 DEF Asks
  <1>c. Set(r, ask)
    BY <1>1 DEF CancelStream
  <1> HIDE DEF ask
  <1>d. AskInv(ask, observer)
    BY <1>1, <1>b DEF AskInv, Unsaid, Counted, CancelStream
  <1> QED
    BY <1>1, <1>a, <1>c, <1>d, AskStep

LEMMA OpenKeepsVerdicts ==
  ASSUME VerdictInv, NEW r \in Requests, NEW opened \in BOOLEAN, Open(r, opened)
  PROVE  VerdictInv' /\ Stays(r)
  <1> DEFINE old == asks[r]
  <1>1. /\ old \in Asks /\ AskInv(old, observer) /\ observer' = observer
        /\ old.told \in {"nothing", "success", "error", "panic"}
        /\ old.praised \in {0, 1} /\ old.blamed \in {0, 1} /\ old.tallies \in {0, 1}
    BY DEF VerdictInv, Asks, Open
  <1>2. Unsaid(old) /\ old.told = "nothing" /\ ~old.usage /\ ~old.completed
    BY <1>1 DEF AskInv, Open, InPhase
  <1>3. CASE opened
    <2> DEFINE ask == [old EXCEPT !.phase = "streaming"]
    <2>a. ask \in Asks
      BY <1>1, <1>2, <1>3 DEF Asks, Phases
    <2>b. /\ ask.phase = "streaming" /\ (ask.canceled <=> old.canceled)
          /\ (ask.usage <=> old.usage) /\ (ask.completed <=> old.completed)
          /\ (ask.hadError <=> old.hadError) /\ (ask.panicked <=> old.panicked)
          /\ (ask.withheld <=> old.withheld)
          /\ ask.span = old.span /\ ask.told = old.told /\ ask.praised = old.praised
          /\ ask.blamed = old.blamed /\ ask.tallies = old.tallies
      BY <1>1, <1>2, <1>3 DEF Asks
    <2>c. Set(r, ask)
      BY <1>1, <1>2, <1>3 DEF Open, NoVerdict
    <2> HIDE DEF ask
    <2>d. AskInv(ask, observer)
      BY <1>1, <1>2, <1>3, <2>b DEF AskInv, Unsaid, Counted
    <2> QED
      BY <1>1, <1>2, <1>3, <2>a, <2>b, <2>c, <2>d, AskStep DEF Stays, Active
  <1>4. CASE ~opened
    <2> DEFINE ask == [old EXCEPT !.phase = "leaving", !.told = "error"]
    <2>a. ask \in Asks
      BY <1>1, <1>2, <1>4 DEF Asks, Phases
    <2>b. /\ ask.phase = "leaving" /\ (ask.canceled <=> old.canceled)
          /\ (ask.usage <=> old.usage) /\ (ask.completed <=> old.completed)
          /\ (ask.hadError <=> old.hadError) /\ (ask.panicked <=> old.panicked)
          /\ (ask.withheld <=> old.withheld)
          /\ ask.span = old.span /\ ask.told = "error" /\ ask.praised = old.praised
          /\ ask.blamed = old.blamed /\ ask.tallies = old.tallies
      BY <1>1, <1>2, <1>4 DEF Asks
    <2> DEFINE new == [ask EXCEPT !.blamed = @ + 1]
    <2>c. Set(r, new)
      BY <1>1, <1>2, <1>4 DEF Open, Verdict
    <2> HIDE DEF ask
    <2>d. new \in Asks /\ SameBlame(new, ask)
      BY <1>1, <1>2, <1>4, <2>a, <2>b, Blame DEF Unsaid
    <2> HIDE DEF new
    <2>e. AskInv(new, observer)
      BY <1>1, <1>2, <1>4, <2>b, <2>d DEF AskInv, Unsaid, Counted, SameBlame
    <2> QED
      BY <1>1, <2>b, <2>c, <2>d, <2>e, AskStep DEF Stays, Active, SameBlame
  <1> QED
    BY <1>3, <1>4

LEMMA ForwardKeepsVerdicts ==
  ASSUME VerdictInv, NEW r \in Requests, NEW usage \in BOOLEAN, Forward(r, usage)
  PROVE  VerdictInv' /\ Stays(r)
  <1> DEFINE old == asks[r]
  <1>1. /\ old \in Asks /\ AskInv(old, observer) /\ observer' = observer
        /\ old.told \in {"nothing", "success", "error", "panic"}
        /\ old.praised \in {0, 1} /\ old.blamed \in {0, 1} /\ old.tallies \in {0, 1}
    BY DEF VerdictInv, Asks, Forward
  <1>2. Unsaid(old) /\ old.phase = "streaming" /\ old.told = (IF old.completed THEN "success" ELSE "nothing")
    BY <1>1 DEF AskInv, Forward, InPhase
  <1> DEFINE ask == [old EXCEPT !.usage = @ \/ usage]
  <1>a. ask \in Asks
    BY <1>1, <1>2 DEF Asks, Phases
  <1>b. /\ ask.phase = old.phase /\ (ask.canceled <=> old.canceled)
        /\ (ask.usage <=> (old.usage \/ usage)) /\ (ask.completed <=> old.completed)
        /\ (ask.hadError <=> old.hadError) /\ (ask.panicked <=> old.panicked) /\ (ask.withheld <=> old.withheld)
        /\ ask.span = old.span /\ ask.told = old.told /\ ask.praised = old.praised
        /\ ask.blamed = old.blamed /\ ask.tallies = old.tallies
    BY <1>1, <1>2 DEF Asks
  <1>c. Set(r, ask)
    BY <1>1, <1>2 DEF Forward, NoVerdict
  <1> HIDE DEF ask
  <1>d. AskInv(ask, observer)
    BY <1>1, <1>2, <1>b DEF AskInv, Unsaid, Counted
  <1> QED
    BY <1>1, <1>2, <1>a, <1>b, <1>c, <1>d, AskStep DEF Stays, Active

LEMMA ForwardDoneKeepsVerdicts ==
  ASSUME VerdictInv, NEW r \in Requests, ForwardDone(r)
  PROVE  VerdictInv' /\ Stays(r)
  <1> DEFINE old == asks[r]
  <1>1. /\ old \in Asks /\ AskInv(old, observer) /\ observer' = observer
        /\ old.told \in {"nothing", "success", "error", "panic"}
        /\ old.praised \in {0, 1} /\ old.blamed \in {0, 1} /\ old.tallies \in {0, 1}
    BY DEF VerdictInv, Asks, ForwardDone
  <1>2. Unsaid(old) /\ old.phase = "streaming" /\ old.told = (IF old.completed THEN "success" ELSE "nothing")
    BY <1>1 DEF AskInv, ForwardDone, InPhase
  <1> DEFINE ask == [old EXCEPT !.completed = TRUE, !.told = "success", !.usage = TRUE]
  <1>a. ask \in Asks
    BY <1>1, <1>2 DEF Asks, Phases
  <1>b. /\ ask.phase = old.phase /\ (ask.canceled <=> old.canceled) /\ ask.usage
        /\ ask.completed /\ (ask.hadError <=> old.hadError) /\ (ask.panicked <=> old.panicked)
        /\ (ask.withheld <=> old.withheld)
        /\ ask.span = old.span /\ ask.told = "success" /\ ask.praised = old.praised
        /\ ask.blamed = old.blamed /\ ask.tallies = old.tallies
    BY <1>1, <1>2 DEF Asks
  <1>c. Set(r, ask)
    BY <1>1, <1>2 DEF ForwardDone, NoVerdict
  <1> HIDE DEF ask
  <1>d. AskInv(ask, observer)
    BY <1>1, <1>2, <1>b DEF AskInv, Unsaid, Counted
  <1> QED
    BY <1>1, <1>2, <1>a, <1>b, <1>c, <1>d, AskStep DEF Stays, Active

LEMMA ForwardErrorKeepsVerdicts ==
  ASSUME VerdictInv, NEW r \in Requests, ForwardError(r)
  PROVE  VerdictInv' /\ Stays(r)
  <1> DEFINE old == asks[r]
  <1>1. /\ old \in Asks /\ AskInv(old, observer) /\ observer' = observer
        /\ old.told \in {"nothing", "success", "error", "panic"}
        /\ old.praised \in {0, 1} /\ old.blamed \in {0, 1} /\ old.tallies \in {0, 1}
    BY DEF VerdictInv, Asks, ForwardError
  <1>2. Unsaid(old) /\ old.phase = "streaming" /\ old.told = (IF old.completed THEN "success" ELSE "nothing")
    BY <1>1 DEF AskInv, ForwardError, InPhase
  <1> DEFINE ask == [old EXCEPT !.phase = "settling", !.told = "error", !.hadError = TRUE]
  <1>a. ask \in Asks
    BY <1>1, <1>2 DEF Asks, Phases
  <1>b. /\ ask.phase = "settling" /\ (ask.canceled <=> old.canceled)
        /\ (ask.usage <=> old.usage) /\ (ask.completed <=> old.completed) /\ ask.hadError
        /\ (ask.panicked <=> old.panicked)
        /\ (ask.withheld <=> old.withheld) /\ ask.span = old.span /\ ask.told = "error"
        /\ ask.praised = old.praised /\ ask.blamed = old.blamed /\ ask.tallies = old.tallies
    BY <1>1, <1>2 DEF Asks
  <1> DEFINE new == [ask EXCEPT !.blamed = @ + 1]
  <1>c. Set(r, new)
    BY <1>1, <1>2 DEF ForwardError, Verdict
  <1> HIDE DEF ask
  <1>d. new \in Asks /\ SameBlame(new, ask)
    BY <1>1, <1>2, <1>a, <1>b, Blame DEF Unsaid
  <1> HIDE DEF new
  <1>e. AskInv(new, observer)
    BY <1>1, <1>2, <1>b, <1>d DEF AskInv, Unsaid, Counted, SameBlame, ForwardError
  <1> QED
    BY <1>1, <1>b, <1>c, <1>d, <1>e, AskStep DEF Stays, Active, SameBlame

LEMMA SendFailsKeepsVerdicts ==
  ASSUME VerdictInv, NEW r \in Requests, NEW reads \in BOOLEAN, SendFails(r, reads)
  PROVE  VerdictInv' /\ Stays(r)
  <1> DEFINE old == asks[r]
  <1>1. /\ old \in Asks /\ AskInv(old, observer) /\ observer' = observer
        /\ old.told \in {"nothing", "success", "error", "panic"}
        /\ old.praised \in {0, 1} /\ old.blamed \in {0, 1} /\ old.tallies \in {0, 1}
    BY DEF VerdictInv, Asks, SendFails
  <1>2. Unsaid(old) /\ old.phase = "streaming" /\ old.told = (IF old.completed THEN "success" ELSE "nothing")
    BY <1>1 DEF AskInv, SendFails, InPhase
  <1> DEFINE ask == [old EXCEPT !.phase = "settling", !.hadError = TRUE,
                               !.told = IF reads THEN "error" ELSE "nothing", !.withheld = ~reads]
  <1>3. CASE HasSpan
    <2>a. ask \in Asks
      BY <1>1, <1>2, <1>3 DEF Asks, Phases
    <2>b. /\ ask.phase = "settling" /\ (ask.canceled <=> old.canceled)
          /\ (ask.usage <=> old.usage) /\ (ask.completed <=> old.completed) /\ ask.hadError
          /\ (ask.panicked <=> old.panicked) /\ (ask.withheld <=> ~reads) /\ ask.span = old.span
          /\ ask.told = (IF reads THEN "error" ELSE "nothing") /\ ask.praised = old.praised
          /\ ask.blamed = old.blamed /\ ask.tallies = old.tallies
      BY <1>1, <1>2, <1>3 DEF Asks
    <2> DEFINE new == [ask EXCEPT !.blamed = @ + 1]
    <2>c. Set(r, new)
      BY <1>1, <1>2, <1>3 DEF SendFails, Verdict
    <2> HIDE DEF ask
    <2>d. new \in Asks /\ SameBlame(new, ask)
      BY <1>1, <1>2, <1>3, <2>a, <2>b, Blame DEF Unsaid
    <2> HIDE DEF new
    <2>e. AskInv(new, observer)
      BY <1>1, <1>2, <1>3, <2>b, <2>d DEF AskInv, Unsaid, Counted, SameBlame, SendFails
    <2> QED
      BY <1>1, <2>b, <2>c, <2>d, <2>e, AskStep DEF Stays, Active, SameBlame
  <1>4. CASE ~HasSpan
    <2>a. ask \in Asks
      BY <1>1, <1>2, <1>4 DEF Asks, Phases
    <2>b. /\ ask.phase = "settling" /\ (ask.canceled <=> old.canceled)
          /\ (ask.usage <=> old.usage) /\ (ask.completed <=> old.completed) /\ ask.hadError
          /\ (ask.panicked <=> old.panicked) /\ (ask.withheld <=> ~reads) /\ ask.span = old.span
          /\ ask.told = (IF reads THEN "error" ELSE "nothing") /\ ask.praised = old.praised
          /\ ask.blamed = old.blamed /\ ask.tallies = old.tallies
      BY <1>1, <1>2, <1>4 DEF Asks
    <2>c. Set(r, ask)
      BY <1>1, <1>2, <1>4 DEF SendFails, NoVerdict
    <2> HIDE DEF ask
    <2>d. AskInv(ask, observer)
      BY <1>1, <1>2, <1>4, <2>b DEF AskInv, Unsaid, Counted, SendFails, HasSpan
    <2> QED
      BY <1>1, <1>2, <1>4, <2>a, <2>b, <2>c, <2>d, AskStep DEF Stays, Active
  <1> QED
    BY <1>3, <1>4

LEMMA PanicsKeepsVerdicts ==
  ASSUME VerdictInv, NEW r \in Requests, NEW said \in {"nothing", "success", "error"},
         observer # "logging", Panics(r, said)
  PROVE  VerdictInv' /\ Stays(r)
  <1> DEFINE old == asks[r]
  <1>1. /\ old \in Asks /\ AskInv(old, observer) /\ observer' = observer
        /\ old.told \in {"nothing", "success", "error", "panic"}
        /\ old.praised \in {0, 1} /\ old.blamed \in {0, 1} /\ old.tallies \in {0, 1}
    BY DEF VerdictInv, Asks, Panics
  <1>2. Unsaid(old) /\ old.phase = "streaming" /\ old.told = (IF old.completed THEN "success" ELSE "nothing")
    BY <1>1 DEF AskInv, Panics, InPhase
  <1> DEFINE ask == [old EXCEPT !.phase = "settling", !.panicked = TRUE, !.told = said]
  <1>a. ask \in Asks
    BY <1>1, <1>2 DEF Asks, Phases
  <1>b. /\ ask.phase = "settling" /\ (ask.canceled <=> old.canceled)
        /\ (ask.usage <=> old.usage) /\ (ask.completed <=> old.completed)
        /\ (ask.hadError <=> old.hadError) /\ ask.panicked
        /\ (ask.withheld <=> old.withheld) /\ ask.span = old.span
        /\ ask.told = said /\ ask.praised = old.praised /\ ask.blamed = old.blamed
        /\ ask.tallies = old.tallies
    BY <1>1, <1>2 DEF Asks
  <1>c. Set(r, ask)
    BY <1>1, <1>2 DEF Panics, NoVerdict
  <1> HIDE DEF ask
  <1>d. AskInv(ask, observer)
    BY <1>1, <1>2, <1>b DEF AskInv, Unsaid, Counted, Panics
  <1> QED
    BY <1>1, <1>2, <1>a, <1>b, <1>c, <1>d, AskStep DEF Stays, Active

LEMMA SourceEndsKeepsVerdicts ==
  ASSUME VerdictInv, NEW r \in Requests, SourceEnds(r)
  PROVE  VerdictInv' /\ Stays(r)
  <1> DEFINE old == asks[r]
  <1>1. /\ old \in Asks /\ AskInv(old, observer) /\ observer' = observer
        /\ old.told \in {"nothing", "success", "error", "panic"}
        /\ old.praised \in {0, 1} /\ old.blamed \in {0, 1} /\ old.tallies \in {0, 1}
    BY DEF VerdictInv, Asks, SourceEnds
  <1>2. Unsaid(old) /\ old.phase = "streaming" /\ old.told = (IF old.completed THEN "success" ELSE "nothing")
    BY <1>1 DEF AskInv, SourceEnds, InPhase
  <1> DEFINE ask == [old EXCEPT !.phase = "settling"]
  <1>a. ask \in Asks
    BY <1>1, <1>2 DEF Asks, Phases
  <1>b. /\ ask.phase = "settling" /\ (ask.canceled <=> old.canceled)
        /\ (ask.usage <=> old.usage) /\ (ask.completed <=> old.completed)
        /\ (ask.hadError <=> old.hadError) /\ (ask.panicked <=> old.panicked) /\ (ask.withheld <=> old.withheld)
        /\ ask.span = old.span /\ ask.told = old.told /\ ask.praised = old.praised
        /\ ask.blamed = old.blamed /\ ask.tallies = old.tallies
    BY <1>1, <1>2 DEF Asks
  <1>c. Set(r, ask)
    BY <1>1, <1>2 DEF SourceEnds, NoVerdict
  <1> HIDE DEF ask
  <1>d. AskInv(ask, observer)
    BY <1>1, <1>2, <1>b DEF AskInv, Unsaid, Counted
  <1> QED
    BY <1>1, <1>2, <1>a, <1>b, <1>c, <1>d, AskStep DEF Stays, Active

LEMMA SettlesKeepsVerdicts ==
  ASSUME VerdictInv, NEW r \in Requests, NEW reads \in BOOLEAN, observer # "logging", Settles(r, reads)
  PROVE  VerdictInv' /\ Stays(r)
  <1> DEFINE old == asks[r]
  <1>1. /\ old \in Asks /\ AskInv(old, observer) /\ observer' = observer
        /\ old.told \in {"nothing", "success", "error", "panic"}
        /\ old.praised \in {0, 1} /\ old.blamed \in {0, 1} /\ old.tallies \in {0, 1}
    BY DEF VerdictInv, Asks, Settles
  <1>2. old.phase = "settling" /\ old.tallies = 0 /\ old.praised = 0
    BY <1>1 DEF Settles, InPhase, AskInv
  <1> DEFINE owed == old.panicked /\ old.told = "nothing"
             verdict == IF owed /\ reads THEN "error" ELSE old.told
             kept == old.withheld \/ (owed /\ ~reads)
             count == IF old.usage THEN old.tallies + 1 ELSE old.tallies
             ask == [old EXCEPT !.phase = "settled", !.told = verdict, !.withheld = kept, !.tallies = count]
  <1>3. /\ verdict \in {"nothing", "success", "error", "panic"} /\ kept \in BOOLEAN
        /\ count = (IF old.usage THEN 1 ELSE 0)
    BY <1>1, <1>2
  <1>4. IF ask.hadError THEN NoVerdict(r, ask) ELSE Verdict(r, ask, ~Failing(ask))
    BY DEF Settles, AfterPanic
  <1> HIDE DEF verdict, kept, count
  <1>5. ask \in Asks
    BY <1>1, <1>3 DEF Asks, Phases
  <1>6. /\ ask.phase = "settled" /\ (ask.canceled <=> old.canceled) /\ (ask.usage <=> old.usage)
        /\ (ask.completed <=> old.completed) /\ (ask.hadError <=> old.hadError) /\ (ask.panicked <=> old.panicked)
        /\ (ask.withheld <=> kept)
        /\ ask.span = old.span /\ ask.told = verdict /\ ask.praised = old.praised /\ ask.blamed = old.blamed /\ ask.tallies = count
    BY <1>1 DEF Asks
  <1> HIDE DEF ask
  <1>7. CASE ask.hadError
    <2>1. Set(r, ask)
      BY <1>4, <1>7 DEF NoVerdict
    <2>2. AskInv(ask, observer)
      BY <1>1, <1>2, <1>3, <1>6, <1>7 DEF AskInv, Counted, verdict, kept
    <2> QED
      BY <1>1, <1>5, <1>6, <2>1, <2>2, AskStep DEF Stays, Active
  <1>8. CASE ~ask.hadError /\ Failing(ask)
    <2> DEFINE new == [ask EXCEPT !.blamed = @ + 1]
    <2>1. Set(r, new)
      BY <1>4, <1>8 DEF Verdict
    <2>2. ask.blamed = 0
      BY <1>1, <1>2, <1>6, <1>8 DEF AskInv
    <2>3. new \in Asks /\ SameBlame(new, ask)
      BY <1>5, <2>2, Blame
    <2> HIDE DEF new
    <2>4. AskInv(new, observer)
      BY <1>1, <1>2, <1>3, <1>6, <1>8, <2>2, <2>3 DEF AskInv, Counted, SameBlame, Failing, verdict, kept
    <2> QED
      BY <1>1, <1>6, <2>1, <2>3, <2>4, AskStep DEF Stays, Active, SameBlame
  <1>9. CASE ~ask.hadError /\ ~Failing(ask)
    <2> DEFINE new == [ask EXCEPT !.praised = @ + 1]
    <2>1. Set(r, new)
      BY <1>4, <1>9 DEF Verdict
    <2>2. ask.blamed = 0 /\ ask.praised = 0
      BY <1>1, <1>2, <1>6, <1>9 DEF AskInv
    <2>3. new \in Asks /\ SamePraise(new, ask)
      BY <1>5, <2>2, Praise
    <2> HIDE DEF new
    <2>4. AskInv(new, observer)
      BY <1>1, <1>2, <1>3, <1>6, <1>9, <2>2, <2>3 DEF AskInv, Counted, SamePraise, Failing, verdict, kept
    <2> QED
      BY <1>1, <1>6, <2>1, <2>3, <2>4, AskStep DEF Stays, Active, SamePraise
  <1> QED
    BY <1>7, <1>8, <1>9

LEMMA LoggingSettlesKeepsVerdicts ==
  ASSUME VerdictInv, NEW r \in Requests, LoggingSettles(r)
  PROVE  VerdictInv' /\ Stays(r)
  <1> DEFINE old == asks[r]
  <1>1. /\ old \in Asks /\ AskInv(old, observer) /\ observer' = observer
        /\ old.told \in {"nothing", "success", "error", "panic"}
        /\ old.praised \in {0, 1} /\ old.blamed \in {0, 1} /\ old.tallies \in {0, 1}
    BY DEF VerdictInv, Asks, LoggingSettles
  <1>2. old.phase = "settling" /\ old.tallies = 0 /\ old.praised = 0 /\ observer = "logging"
    BY <1>1 DEF LoggingSettles, InPhase, AskInv
  <1> DEFINE ask == [old EXCEPT !.phase = "settled"]
             count == IF ask.usage THEN 1 ELSE 0
             line == [ask EXCEPT !.tallies = count]
  <1>3. IF ask.praised + ask.blamed > 0 THEN NoVerdict(r, ask)
        ELSE Verdict(r, line, ~Failing(ask) /\ ~ask.hadError)
    BY DEF LoggingSettles
  <1>4. ask \in Asks
    BY <1>1 DEF Asks, Phases
  <1>5. /\ ask.phase = "settled" /\ (ask.canceled <=> old.canceled) /\ (ask.usage <=> old.usage)
        /\ (ask.completed <=> old.completed) /\ (ask.hadError <=> old.hadError) /\ (ask.panicked <=> old.panicked)
        /\ (ask.withheld <=> old.withheld)
        /\ ask.span = old.span /\ ask.told = old.told /\ ask.praised = old.praised /\ ask.blamed = old.blamed /\ ask.tallies = old.tallies
    BY <1>1 DEF Asks
  <1> HIDE DEF ask
  <1>6. count \in {0, 1}
    OBVIOUS
  <1> HIDE DEF count
  <1>7. /\ line \in Asks
        /\ line.phase = ask.phase /\ (line.canceled <=> ask.canceled) /\ (line.usage <=> ask.usage)
        /\ (line.completed <=> ask.completed) /\ (line.hadError <=> ask.hadError) /\ (line.panicked <=> ask.panicked)
        /\ (line.withheld <=> ask.withheld)
        /\ line.span = ask.span /\ line.told = ask.told /\ line.praised = ask.praised /\ line.blamed = ask.blamed
    BY <1>4, <1>6 DEF Asks
  <1> HIDE DEF line
  <1>8. CASE ask.blamed = 1
    <2>1. Set(r, ask)
      BY <1>2, <1>3, <1>5, <1>8 DEF NoVerdict
    <2>2. AskInv(ask, observer)
      BY <1>1, <1>2, <1>5, <1>8 DEF AskInv, Counted
    <2> QED
      BY <1>1, <1>4, <1>5, <2>1, <2>2, AskStep DEF Stays, Active
  <1>9. CASE ask.blamed = 0 /\ (Failing(ask) \/ ask.hadError)
    <2> DEFINE new == [line EXCEPT !.blamed = @ + 1]
    <2>1. Set(r, new)
      BY <1>2, <1>3, <1>5, <1>9 DEF Verdict
    <2>2. new \in Asks /\ SameBlame(new, line)
      BY <1>7, <1>9, Blame
    <2> HIDE DEF new
    <2>3. AskInv(new, observer)
      BY <1>1, <1>2, <1>5, <1>7, <1>9, <2>2 DEF AskInv, Counted, SameBlame, Failing
    <2> QED
      BY <1>1, <1>5, <1>7, <2>1, <2>2, <2>3, AskStep DEF Stays, Active, SameBlame
  <1>10. CASE ask.blamed = 0 /\ ~Failing(ask) /\ ~ask.hadError
    <2> DEFINE new == [line EXCEPT !.praised = @ + 1]
    <2>1. Set(r, new)
      BY <1>2, <1>3, <1>5, <1>10 DEF Verdict
    <2>2. new \in Asks /\ SamePraise(new, line)
      BY <1>2, <1>5, <1>7, Praise
    <2> HIDE DEF new
    <2>3. /\ old.told \in {"success", "nothing"} /\ (old.completed => old.told = "success")
          /\ ~old.withheld /\ ~old.panicked
      BY <1>1, <1>2, <1>5, <1>10 DEF AskInv
    <2>4. /\ new.phase = "settled" /\ new.praised = 1 /\ new.blamed = 0 /\ ~new.hadError
          /\ new.told = old.told /\ (new.completed => old.completed)
          /\ (new.withheld <=> old.withheld) /\ (new.panicked <=> old.panicked)
      BY <1>5, <1>7, <1>10, <2>2 DEF SamePraise
    <2>5. AskInv(new, observer)
      BY <1>2, <2>3, <2>4 DEF AskInv, Counted
    <2> QED
      BY <1>1, <1>5, <1>7, <2>1, <2>2, <2>5, AskStep DEF Stays, Active, SamePraise
  <1> QED
    BY <1>1, <1>5, <1>8, <1>9, <1>10

LEMMA EndSpanKeepsVerdicts ==
  ASSUME VerdictInv, NEW r \in Requests, EndSpan(r)
  PROVE  VerdictInv'
  <1> DEFINE old == asks[r]
  <1>1. /\ old \in Asks /\ AskInv(old, observer) /\ observer' = observer
        /\ old.told \in {"nothing", "success", "error", "panic"}
        /\ old.praised \in {0, 1} /\ old.blamed \in {0, 1} /\ old.tallies \in {0, 1}
    BY DEF VerdictInv, Asks, EndSpan
  <1> DEFINE ask == [old EXCEPT !.phase = "ended", !.span = IF HasSpan THEN "ended" ELSE @]
  <1>a. ask \in Asks
    BY <1>1 DEF Asks, Phases
  <1>b. /\ ask.phase = "ended" /\ (ask.canceled <=> old.canceled) /\ (ask.usage <=> old.usage)
        /\ (ask.completed <=> old.completed) /\ (ask.hadError <=> old.hadError)
        /\ (ask.panicked <=> old.panicked)
        /\ (ask.withheld <=> old.withheld) /\ ask.told = old.told /\ ask.praised = old.praised
        /\ ask.blamed = old.blamed /\ ask.tallies = old.tallies
    BY <1>1 DEF Asks
  <1>c. Set(r, ask)
    BY <1>1 DEF EndSpan, NoVerdict
  <1> HIDE DEF ask
  <1>d. AskInv(ask, observer)
    BY <1>1, <1>b DEF AskInv, Unsaid, Counted, EndSpan, InPhase
  <1> QED
    BY <1>1, <1>a, <1>c, <1>d, AskStep

LEMMA DecrementKeepsVerdicts ==
  ASSUME VerdictInv, NEW r \in Requests, DecrementActive(r)
  PROVE  VerdictInv'
  <1> DEFINE old == asks[r]
  <1>1. /\ old \in Asks /\ AskInv(old, observer) /\ observer' = observer
        /\ old.told \in {"nothing", "success", "error", "panic"}
        /\ old.praised \in {0, 1} /\ old.blamed \in {0, 1} /\ old.tallies \in {0, 1}
    BY DEF VerdictInv, Asks, DecrementActive
  <1> DEFINE ask == [old EXCEPT !.phase = "inactive"]
  <1>a. ask \in Asks
    BY <1>1 DEF Asks, Phases
  <1>b. /\ ask.phase = "inactive" /\ (ask.canceled <=> old.canceled)
        /\ (ask.usage <=> old.usage) /\ (ask.completed <=> old.completed)
        /\ (ask.hadError <=> old.hadError) /\ (ask.panicked <=> old.panicked) /\ (ask.withheld <=> old.withheld)
        /\ ask.told = old.told /\ ask.praised = old.praised /\ ask.blamed = old.blamed
        /\ ask.tallies = old.tallies
    BY <1>1 DEF Asks
  <1>c. Set(r, ask)
    BY <1>1 DEF DecrementActive, NoVerdict
  <1> HIDE DEF ask
  <1>d. AskInv(ask, observer)
    BY <1>1, <1>b DEF AskInv, Unsaid, Counted, DecrementActive, InPhase
  <1> QED
    BY <1>1, <1>a, <1>c, <1>d, AskStep

LEMMA CloseKeepsVerdicts ==
  ASSUME VerdictInv, NEW r \in Requests, NEW reads \in BOOLEAN, Close(r, reads)
  PROVE  VerdictInv'
  <1> DEFINE old == asks[r]
  <1>1. /\ old \in Asks /\ AskInv(old, observer) /\ observer' = observer
        /\ old.told \in {"nothing", "success", "error", "panic"}
        /\ old.praised \in {0, 1} /\ old.blamed \in {0, 1} /\ old.tallies \in {0, 1}
    BY DEF VerdictInv, Asks, Close
  <1>2. old.phase = "inactive"
    BY DEF Close, InPhase
  <1> DEFINE verdict == IF old.told # "nothing" \/ ~reads THEN old.told
                        ELSE IF old.canceled THEN "error" ELSE "success"
             ask == [old EXCEPT !.phase = "over", !.told = verdict]
  <1>3. /\ old.told # "nothing" \/ ~reads => verdict = old.told
        /\ ~(old.told # "nothing" \/ ~reads) /\ old.canceled => verdict = "error"
        /\ ~(old.told # "nothing" \/ ~reads) /\ ~old.canceled => verdict = "success"
    OBVIOUS
  <1>4. Set(r, ask)
    BY DEF Close, NoVerdict
  <1> HIDE DEF verdict
  <1>5. verdict \in {"nothing", "success", "error", "panic"}
    BY <1>1, <1>3
  <1>6. ask \in Asks
    BY <1>1, <1>5 DEF Asks, Phases
  <1>7. /\ ask.phase = "over" /\ (ask.canceled <=> old.canceled) /\ (ask.usage <=> old.usage)
        /\ (ask.completed <=> old.completed) /\ (ask.hadError <=> old.hadError) /\ (ask.panicked <=> old.panicked)
        /\ (ask.withheld <=> old.withheld)
        /\ ask.told = verdict /\ ask.praised = old.praised /\ ask.blamed = old.blamed /\ ask.tallies = old.tallies
    BY <1>1 DEF Asks
  <1> HIDE DEF ask
  <1>8. AskInv(ask, observer)
    BY <1>1, <1>2, <1>3, <1>7 DEF AskInv, Counted
  <1> QED
    BY <1>1, <1>4, <1>6, <1>8, AskStep

LEMMA EveryUnary ==
  ASSUME VerdictInv, NEW r \in Requests, NEW got \in {"answer", "nil", "error", "panic"},
         \/ MetricsUnary(r, got) \/ OTelUnary(r, got)
         \/ LangfuseUnary(r, got) \/ LoggingUnary(r, got)
  PROVE  VerdictInv' /\ Stays(r)
  <1>1. asks[r].phase \in {"call", "generate"}
    BY DEF MetricsUnary, OTelUnary, LangfuseUnary, LoggingUnary, InPhase
  <1>2. CASE MetricsUnary(r, got)
    BY <1>1, <1>2, UnaryKeepsVerdicts DEF MetricsUnary
  <1> DEFINE counts == InPhase(r, "generate")
  <1>3. counts \in BOOLEAN
    BY DEF InPhase
  <1>4. CASE OTelUnary(r, got)
    <2>1. observer # "metrics" /\ AnsweredUnary(r, got, counts)
      BY <1>4 DEF OTelUnary
    <2> QED
      BY <1>1, <1>3, <2>1, UnaryKeepsVerdicts
  <1>5. CASE LangfuseUnary(r, got)
    <2>1. observer # "metrics" /\ AnsweredUnary(r, got, counts)
      BY <1>5 DEF LangfuseUnary
    <2> QED
      BY <1>1, <1>3, <2>1, UnaryKeepsVerdicts
  <1>6. CASE LoggingUnary(r, got)
    <2> DEFINE given == IF got = "nil" /\ InPhase(r, "generate") THEN "panic" ELSE got
    <2>1. given \in {"answer", "nil", "error", "panic"}
      OBVIOUS
    <2>2. observer # "metrics" /\ AnsweredUnary(r, given, counts)
      BY <1>6 DEF LoggingUnary
    <2> HIDE DEF given
    <2> QED
      BY <1>1, <1>3, <2>1, <2>2, UnaryKeepsVerdicts
  <1> QED
    BY <1>2, <1>4, <1>5, <1>6

\* Every step keeps the account of the request it is about.
LEMMA NextKeepsVerdicts == VerdictInv /\ [TelemetryNext]_telemetryVars => VerdictInv'
  <1> SUFFICES ASSUME VerdictInv, [TelemetryNext]_telemetryVars PROVE VerdictInv'
    OBVIOUS
  <1>1. CASE asks' = asks /\ observer' = observer
    BY <1>1 DEF VerdictInv
  <1>2. ASSUME NEW r \in Requests, NEW phase \in {"call", "generate", "opening"}, Begin(r, phase)
        PROVE  VerdictInv'
    BY <1>2, BeginKeepsVerdicts
  <1>3. ASSUME NEW r \in Requests, CancelStream(r) \/ LeaveUnary(r) PROVE VerdictInv'
    BY <1>3, CancelKeepsVerdicts, LeaveKeepsVerdicts
  <1>4. ASSUME NEW r \in Requests, NEW got \in {"answer", "nil", "error", "panic"},
               \/ MetricsUnary(r, got) \/ OTelUnary(r, got)
               \/ LangfuseUnary(r, got) \/ LoggingUnary(r, got)
        PROVE  VerdictInv'
    BY <1>4, EveryUnary
  <1>5. ASSUME NEW r \in Requests, Forwards(r) PROVE VerdictInv'
    <2>1. ASSUME NEW b \in BOOLEAN, Open(r, b) \/ Forward(r, b) \/ SendFails(r, b) PROVE VerdictInv'
      BY <2>1, OpenKeepsVerdicts, ForwardKeepsVerdicts, SendFailsKeepsVerdicts
    <2>2. CASE ForwardDone(r) \/ ForwardError(r) \/ SourceEnds(r)
      BY <2>2, ForwardDoneKeepsVerdicts, ForwardErrorKeepsVerdicts, SourceEndsKeepsVerdicts
    <2> QED
      BY <1>5, <2>1, <2>2 DEF Forwards
  <1>6. ASSUME NEW r \in Requests, observer # "logging",
               \/ \E said \in {"nothing", "success", "error"} : Panics(r, said)
               \/ \E reads \in BOOLEAN : Settles(r, reads)
        PROVE  VerdictInv'
    BY <1>6, PanicsKeepsVerdicts, SettlesKeepsVerdicts
  <1>7. ASSUME NEW r \in Requests, NEW reads \in BOOLEAN,
               LoggingSettles(r) \/ EndSpan(r) \/ DecrementActive(r) \/ Close(r, reads)
        PROVE  VerdictInv'
    BY <1>7, LoggingSettlesKeepsVerdicts, EndSpanKeepsVerdicts, DecrementKeepsVerdicts, CloseKeepsVerdicts
  <1>8. CASE SuccessRate \/ AgeSamples
    BY <1>1, <1>8 DEF SuccessRate, AgeSamples
  <1>9. CASE UNCHANGED telemetryVars
    BY <1>1, <1>9 DEF telemetryVars
  <1> QED
    BY <1>2, <1>3, <1>4, <1>5, <1>6, <1>7, <1>8, <1>9
    DEF TelemetryNext, MetricsStream, OTelStream, LangfuseStream, LoggingStream, MetricsSettles, OTelSettles,
        LangfuseSettles

LEMMA InitVerdicts == TelemetryInit => VerdictInv
  <1> SUFFICES ASSUME TelemetryInit PROVE VerdictInv
    OBVIOUS
  <1>1. Fresh \in Asks
    BY DEF Fresh, Asks, Phases
  <1>2. \A o : AskInv(Fresh, o)
    BY DEF Fresh, AskInv
  <1> QED
    BY <1>1, <1>2 DEF TelemetryInit, VerdictInv

\* What the middlewares record of a request is what became of it, for any number of requests.
LEMMA VerdictsAreAlwaysTrue == TelemetrySpec => []VerdictsAreTrue
  <1>1. VerdictInv => VerdictsAreTrue
    <2> SUFFICES ASSUME VerdictInv, NEW r \in Requests, InPhase(r, "over")
                 PROVE  LET ask == asks[r] IN
                        /\ ask.praised + ask.blamed = (IF ask.told = "panic" THEN 0 ELSE 1)
                        /\ ask.told = "success" => ask.praised = 1 \/ ask.panicked \/ (ask.withheld /\ ~ask.canceled)
                        /\ ask.told = "error" => ask.blamed = 1 \/ (ask.canceled /\ ~ask.completed)
                        /\ ask.withheld \/ ask.panicked => ask.blamed = 1
                        /\ ask.completed => ask.praised = 1 /\ ask.told = "success"
                        /\ ask.tallies <= 1 /\ (observer = "metrics" => (ask.usage <=> ask.tallies = 1))
      BY DEF VerdictsAreTrue
    <2>1. asks[r] \in Asks /\ AskInv(asks[r], observer) /\ asks[r].phase = "over"
      BY DEF VerdictInv, InPhase
    <2>2. asks[r].tallies <= 1
      BY <2>1 DEF Asks
    <2> QED
      BY <2>1, <2>2 DEF AskInv, Counted
  <1> QED
    BY <1>1, InitVerdicts, NextKeepsVerdicts, PTL DEF TelemetrySpec

-----------------------------------------------------------------------------
(* The count of active requests.                                           *)

ActiveRequests == {r \in Requests : asks[r].phase \in Active}

\* An open span is ended before its request is counted out.
SpanInv(ask, o) == ask.span = "open" => ask.phase \in Active \ {"ended"} /\ o # "logging"

\* The count is that of the requests at work, and only these have an open span.
ActiveInv ==
    /\ observer = "metrics" => activeReqsCount = Cardinality(ActiveRequests)
    /\ \A r \in Requests : SpanInv(asks[r], observer)

LEMMA ActiveIsFinite == IsFiniteSet(ActiveRequests) /\ Cardinality(ActiveRequests) \in Nat
  <1>1. IsFiniteSet(ActiveRequests)
    BY FS_Subset, TelemetryAssumption DEF ActiveRequests
  <1> QED
    BY <1>1, FS_CardinalityType

\* A request that stays active, or stays inactive, is counted as before.
LEMMA StaysActive ==
  ASSUME VerdictInv, ActiveInv, NEW r \in Requests, NEW ask, Set(r, ask),
         ask.phase \in Active <=> asks[r].phase \in Active, SpanInv(ask, observer),
         activeReqsCount' = activeReqsCount, observer' = observer
  PROVE  ActiveInv'
  <1>1. ActiveRequests' = ActiveRequests
    BY DEF ActiveRequests, Set, VerdictInv
  <1>2. ASSUME NEW q \in Requests PROVE SpanInv(asks'[q], observer')
    BY <1>2 DEF Set, VerdictInv, ActiveInv
  <1> QED
    BY <1>1, <1>2 DEF ActiveInv

\* A request that leaves is counted out once.
LEMMA TurnsInactive ==
  ASSUME VerdictInv, ActiveInv, NEW r \in Requests, NEW ask, Set(r, ask),
         asks[r].phase \in Active, ask.phase \notin Active, ask.span # "open",
         activeReqsCount' = activeReqsCount - (IF observer = "metrics" THEN 1 ELSE 0), observer' = observer
  PROVE  ActiveInv'
  <1>1. ActiveRequests' = ActiveRequests \ {r} /\ r \in ActiveRequests
    BY DEF ActiveRequests, Set, VerdictInv
  <1>2. Cardinality(ActiveRequests \ {r}) = Cardinality(ActiveRequests) - 1
    BY <1>1, ActiveIsFinite, FS_RemoveElement
  <1>3. ASSUME NEW q \in Requests PROVE SpanInv(asks'[q], observer')
    BY <1>3 DEF Set, VerdictInv, ActiveInv, SpanInv
  <1> QED
    BY <1>1, <1>2, <1>3, ActiveIsFinite DEF ActiveInv

LEMMA NextKeepsActive == VerdictInv /\ ActiveInv /\ [TelemetryNext]_telemetryVars => ActiveInv'
  <1> SUFFICES ASSUME VerdictInv, ActiveInv, [TelemetryNext]_telemetryVars PROVE ActiveInv'
    OBVIOUS
  <1>0. \A r \in Requests : asks[r] \in Asks
    BY DEF VerdictInv
  <1>1. ASSUME NEW r \in Requests, NEW phase \in {"call", "generate", "opening"}, Begin(r, phase)
        PROVE  ActiveInv'
    <2> DEFINE ask == [Fresh EXCEPT !.phase = phase, !.span = IF HasSpan THEN "open" ELSE "none"]
    <2>1. ask.phase \in Active /\ asks[r].phase \notin Active /\ Set(r, ask) /\ SpanInv(ask, observer)
      BY <1>1 DEF Begin, Free, Fresh, Active, SpanInv, HasSpan
    <2> HIDE DEF ask
    <2>2. ActiveRequests' = ActiveRequests \cup {r} /\ r \notin ActiveRequests
      BY <2>1 DEF ActiveRequests, Set, VerdictInv
    <2>3. Cardinality(ActiveRequests \cup {r}) = Cardinality(ActiveRequests) + 1
      BY <2>2, ActiveIsFinite, FS_AddElement
    <2>5. activeReqsCount' = activeReqsCount + (IF observer = "metrics" THEN 1 ELSE 0) /\ observer' = observer
      BY <1>1 DEF Begin
    <2>4. ASSUME NEW q \in Requests PROVE SpanInv(asks'[q], observer')
      BY <2>1, <2>4, <2>5 DEF Set, VerdictInv, ActiveInv
    <2> QED
      BY <2>2, <2>3, <2>4, <2>5, ActiveIsFinite DEF ActiveInv
  <1>2. ASSUME NEW r \in Requests, CancelStream(r) PROVE ActiveInv'
    <2> DEFINE ask == [asks[r] EXCEPT !.canceled = TRUE]
    <2>1. ask.phase = asks[r].phase /\ ask.span = asks[r].span /\ Set(r, ask)
      BY <1>0, <1>2 DEF CancelStream, Asks
    <2> HIDE DEF ask
    <2> QED
      BY <1>2, <2>1, StaysActive DEF CancelStream, ActiveInv, SpanInv
  <1>3. ASSUME NEW r \in Requests, LeaveUnary(r) PROVE ActiveInv'
    <2> DEFINE ask == [asks[r] EXCEPT !.phase = "over", !.span = IF HasSpan THEN "ended" ELSE @]
    <2>1. asks[r].phase \in Active /\ ask.phase \notin Active /\ Set(r, ask)
      BY <1>0, <1>3 DEF LeaveUnary, InPhase, Active, Asks
    <2>2. ask.span = IF HasSpan THEN "ended" ELSE asks[r].span
      BY <1>0 DEF Asks
    <2> HIDE DEF ask
    <2> QED
      BY <1>3, <2>1, <2>2, TurnsInactive DEF LeaveUnary, ActiveInv, SpanInv, HasSpan
  <1>4. ASSUME NEW r \in Requests, DecrementActive(r) PROVE ActiveInv'
    <2> DEFINE ask == [asks[r] EXCEPT !.phase = "inactive"]
    <2>1. asks[r].phase = "ended" /\ ask.phase = "inactive" /\ ask.span = asks[r].span /\ Set(r, ask)
      BY <1>0, <1>4 DEF DecrementActive, NoVerdict, InPhase, Asks
    <2> HIDE DEF ask
    <2> QED
      BY <1>4, <2>1, TurnsInactive DEF DecrementActive, ActiveInv, SpanInv, Active
  <1>5. ASSUME NEW r \in Requests, NEW reads \in BOOLEAN, Close(r, reads) PROVE ActiveInv'
    <2>1. PICK ask : asks[r].phase = "inactive" /\ ask.phase = "over" /\ ask.span = asks[r].span /\ Set(r, ask)
      BY <1>0, <1>5 DEF Close, NoVerdict, InPhase, Asks
    <2> QED
      BY <1>5, <2>1, StaysActive DEF Close, ActiveInv, SpanInv, Active
  <1>6. ASSUME NEW r \in Requests, EndSpan(r) PROVE ActiveInv'
    <2> DEFINE ask == [asks[r] EXCEPT !.phase = "ended", !.span = IF HasSpan THEN "ended" ELSE @]
    <2>1. asks[r].phase = "settled" /\ ask.phase = "ended" /\ Set(r, ask)
      BY <1>0, <1>6 DEF EndSpan, NoVerdict, InPhase, Asks
    <2>2. ask.span = IF HasSpan THEN "ended" ELSE asks[r].span
      BY <1>0 DEF Asks
    <2> HIDE DEF ask
    <2> QED
      BY <1>6, <2>1, <2>2, StaysActive DEF EndSpan, ActiveInv, SpanInv, Active, HasSpan
  <1>7. ASSUME NEW r \in Requests, Stays(r), asks[r].phase \in Active, UNCHANGED <<activeReqsCount, observer>>
        PROVE  ActiveInv'
    BY <1>7, StaysActive DEF ActiveInv, SpanInv, Stays
  <1>8. ASSUME NEW r \in Requests, NEW got \in {"answer", "nil", "error", "panic"},
               \/ MetricsUnary(r, got) \/ OTelUnary(r, got)
               \/ LangfuseUnary(r, got) \/ LoggingUnary(r, got)
        PROVE  ActiveInv'
    <2>1. asks[r].phase \in Active /\ UNCHANGED <<activeReqsCount, observer>>
      BY <1>8 DEF MetricsUnary, OTelUnary, LangfuseUnary, LoggingUnary, InPhase, AnsweredUnary, Active
    <2> QED
      BY <1>7, <1>8, <2>1, EveryUnary
  <1>9. ASSUME NEW r \in Requests, NEW b \in BOOLEAN, Open(r, b) \/ Forward(r, b) \/ SendFails(r, b) PROVE ActiveInv'
    BY <1>7, <1>9, OpenKeepsVerdicts, ForwardKeepsVerdicts, SendFailsKeepsVerdicts
    DEF Open, Forward, SendFails, InPhase, Active
  <1>10. ASSUME NEW r \in Requests, ForwardDone(r) \/ ForwardError(r) \/ SourceEnds(r) PROVE ActiveInv'
    BY <1>7, <1>10, ForwardDoneKeepsVerdicts, ForwardErrorKeepsVerdicts, SourceEndsKeepsVerdicts
    DEF ForwardDone, ForwardError, SourceEnds, InPhase, Active
  <1>11. ASSUME NEW r \in Requests, observer # "logging",
                \/ \E said \in {"nothing", "success", "error"} : Panics(r, said)
                \/ \E reads \in BOOLEAN : Settles(r, reads)
         PROVE  ActiveInv'
    BY <1>7, <1>11, PanicsKeepsVerdicts, SettlesKeepsVerdicts DEF Panics, Settles, InPhase, Active
  <1>12. ASSUME NEW r \in Requests, LoggingSettles(r) PROVE ActiveInv'
    BY <1>7, <1>12, LoggingSettlesKeepsVerdicts DEF LoggingSettles, InPhase, Active
  <1>13. CASE UNCHANGED <<observer, asks, activeReqsCount>>
    BY <1>13 DEF ActiveInv, ActiveRequests
  <1>14. CASE SuccessRate \/ AgeSamples \/ UNCHANGED telemetryVars
    BY <1>13, <1>14 DEF SuccessRate, AgeSamples, telemetryVars
  <1> QED
    BY <1>1, <1>2, <1>3, <1>4, <1>5, <1>6, <1>8, <1>9, <1>10, <1>11, <1>12, <1>14
    DEF TelemetryNext, Forwards, MetricsStream, OTelStream, LangfuseStream, LoggingStream, MetricsSettles, OTelSettles,
        LangfuseSettles

\* Who sees no request active finds no span open, for any number of requests.
LEMMA IdleAlwaysMeansEnded == TelemetrySpec => []IdleMeansEnded
  <1>1. TelemetryInit => ActiveInv
    <2> SUFFICES ASSUME TelemetryInit PROVE ActiveInv
      OBVIOUS
    <2>1. ActiveRequests = {}
      BY DEF ActiveRequests, TelemetryInit, Fresh, Active
    <2>2. \A r \in Requests : SpanInv(asks[r], observer)
      BY DEF TelemetryInit, Fresh, SpanInv
    <2> QED
      BY <2>1, <2>2, FS_EmptySet DEF ActiveInv, TelemetryInit
  <1>2. ActiveInv => IdleMeansEnded
    <2> SUFFICES ASSUME ActiveInv, observer = "metrics", activeReqsCount = 0, NEW r \in Requests, asks[r].span = "open"
                 PROVE  FALSE
      BY DEF IdleMeansEnded
    <2>1. r \in ActiveRequests
      BY DEF ActiveInv, SpanInv, ActiveRequests
    <2>2. ActiveRequests = {}
      BY ActiveIsFinite, FS_EmptySet DEF ActiveInv
    <2> QED
      BY <2>1, <2>2
  <1> QED
    BY <1>1, <1>2, InitVerdicts, NextKeepsVerdicts, NextKeepsActive, PTL DEF TelemetrySpec

-----------------------------------------------------------------------------
(* The window of samples.                                                  *)

LEMMA LeastOne ==
    ASSUME NEW T \in SUBSET Nat, T # {}
    PROVE  \E x \in T : \A y \in T : x <= y
  <1>1. \E x \in T : \A y \in T : <<y, x>> \notin OpToRel(<, Nat)
    BY NatLessThanWellFounded, WFMin
  <1>2. PICK x \in T : \A y \in T : <<y, x>> \notin OpToRel(<, Nat)
    BY <1>1
  <1>3. ASSUME NEW y \in T PROVE x <= y
    <2>1. x \in Nat /\ y \in Nat /\ <<y, x>> \notin OpToRel(<, Nat)
      BY <1>2
    <2> QED
      BY <2>1 DEF OpToRel
  <1> QED
    BY <1>2, <1>3

Samples == [ok : BOOLEAN, age : 0..Window]
Windows == [entries : Seq(Samples), successes : Int, failures : Int, idle : 0..Window]

\* Older samples come first.
OldestFirst(s) == \A i, j \in DOMAIN s : i <= j => s[j].age <= s[i].age

\* The window w has the last of the samples s, and counts what it has.
Honest(w, s) ==
    /\ w \in Windows /\ Len(w.entries) <= Len(s)
    /\ \A i \in 1..Len(w.entries) : w.entries[i] = s[Len(s) - Len(w.entries) + i]
    /\ w.successes = Successes(w.entries) /\ w.failures = Failures(w.entries)

\* Enough of what is live is in the window.
Enough(n, s) ==
    n >= (IF LiveSamples(s) < Capacity \div 2 THEN LiveSamples(s) ELSE Capacity \div 2)

WindowInv ==
    /\ samples \in Seq(Samples) /\ OldestFirst(samples)
    /\ Honest(win, samples)
    /\ Len(win.entries) <= Capacity /\ Enough(Len(win.entries), samples)

\* The places of a sequence that satisfy anything are finitely many.
LEMMA FewPlaces ==
  ASSUME NEW s \in Seq(Samples), NEW T \in SUBSET (1..Len(s))
  PROVE  IsFiniteSet(T) /\ Cardinality(T) \in Nat /\ Cardinality(T) <= Len(s)
  <1>1. Len(s) \in Nat /\ IsFiniteSet(1..Len(s)) /\ Cardinality(1..Len(s)) = Len(s)
    BY FS_Interval
  <1> QED
    BY <1>1, FS_Subset, FS_CardinalityType

LEMMA SuccessesBounded ==
  ASSUME NEW s \in Seq(Samples)
  PROVE  Successes(s) \in Nat /\ Successes(s) <= Len(s)
  <1>1. {i \in DOMAIN s : s[i].ok} \in SUBSET (1..Len(s))
    OBVIOUS
  <1> QED
    BY <1>1, FewPlaces DEF Successes

\* What is removed and what is left add up.
LEMMA CountSplit ==
  ASSUME NEW s \in Seq(Samples), NEW m \in 0..Len(s)
  PROVE  Successes(s) = Successes(SubSeq(s, 1, m)) + Successes(SubSeq(s, m + 1, Len(s)))
  <1> DEFINE front == SubSeq(s, 1, m)
             back == SubSeq(s, m + 1, Len(s))
             A == {i \in DOMAIN s : s[i].ok}
             F == {i \in DOMAIN front : front[i].ok}
             K == {i \in DOMAIN back : back[i].ok}
             G == {i \in (m + 1)..Len(s) : s[i].ok}
  <1>1. /\ front \in Seq(Samples) /\ Len(front) = m /\ DOMAIN front = 1..m
        /\ \A i \in 1..m : front[i] = s[i]
    BY SubSeqProperties
  <1>2. /\ back \in Seq(Samples) /\ Len(back) = Len(s) - m /\ DOMAIN back = 1..(Len(s) - m)
        /\ \A i \in 1..(Len(s) - m) : back[i] = s[m + i]
    <2>1. m + 1 \in 1..(Len(s) + 1) /\ Len(s) \in m..Len(s)
      OBVIOUS
    <2> QED
      BY <2>1, SubSeqProperties
  <1>3. A = F \cup G /\ F \cap G = {}
    <2>1. Len(s) \in Nat /\ DOMAIN s = 1..Len(s)
      OBVIOUS
    <2>2. ASSUME NEW i PROVE i \in A <=> i \in F \/ i \in G
      <3>1. CASE i \in 1..m
        <4>1. i \notin (m + 1)..Len(s) /\ i \in 1..Len(s) /\ front[i] = s[i]
          BY <3>1, <2>1, <1>1
        <4> HIDE DEF front
        <4> QED
          BY <4>1, <3>1, <2>1, <1>1
      <3>2. CASE i \notin 1..m
        <4>1. i \in (m + 1)..Len(s) <=> i \in 1..Len(s)
          BY <3>2, <2>1
        <4> HIDE DEF front
        <4> QED
          BY <4>1, <3>2, <2>1, <1>1
      <3> QED
        BY <3>1, <3>2
    <2>3. F \cap G = {}
      BY <1>1, <2>1
    <2> QED
      BY <2>2, <2>3
  <1>4. IsFiniteSet(F) /\ IsFiniteSet(G) /\ IsFiniteSet(K) /\ Cardinality(F) \in Nat /\ Cardinality(G) \in Nat
    <2>1. F \in SUBSET (1..Len(s)) /\ G \in SUBSET (1..Len(s)) /\ K \in SUBSET (1..Len(s))
      BY <1>1, <1>2
    <2> QED
      BY <2>1, FewPlaces
  <1>5. Cardinality(A) = Cardinality(F) + Cardinality(G)
    <2> HIDE DEF A, F, G
    <2>1. Cardinality(F \cup G) = Cardinality(F) + Cardinality(G) - Cardinality(F \cap G)
      BY <1>4, FS_Union
    <2>2. Cardinality(F \cap G) = 0
      BY <1>3, FS_EmptySet
    <2> QED
      BY <1>3, <1>4, <2>1, <2>2
  <1>6. Cardinality(K) = Cardinality(G)
    <2> DEFINE f == [i \in K |-> m + i]
    <2>1. f \in [K -> G]
      BY <1>2
    <2>2. f \in Injection(K, G)
      BY <2>1, <1>2 DEF Injection, IsInjective
    <2>3. \A g \in G : \E i \in K : f[i] = g
      <3> TAKE g \in G
      <3>0. Len(s) \in Nat
        BY LenProperties
      <3>1. g - m \in 1..(Len(s) - m) /\ back[g - m] = s[m + (g - m)] /\ m + (g - m) = g /\ s[g].ok
        <4>1. g \in (m + 1)..Len(s) /\ s[g].ok
          OBVIOUS
        <4> HIDE DEF G, K, back, front, A, F
        <4>2. g - m \in 1..(Len(s) - m) /\ m + (g - m) = g
          BY <3>0, <4>1
        <4> QED
          BY <1>2, <4>1, <4>2, Zenon
      <3>2. g - m \in K
        <4> HIDE DEF back
        <4> QED
          BY <3>1, <1>2
      <3> QED
        BY <3>1, <3>2
    <2>4. f \in Bijection(K, G)
      BY <2>1, <2>2, <2>3 DEF Bijection, Surjection
    <2>5. ExistsBijection(K, G)
      BY <2>4 DEF ExistsBijection
    <2> HIDE DEF K, G
    <2> QED
      BY <1>4, <2>5, FS_Bijection
  <1> QED
    BY <1>5, <1>6 DEF Successes

LEMMA CountAppend ==
  ASSUME NEW s \in Seq(Samples), NEW ok \in BOOLEAN, NEW age \in 0..Window
  PROVE  Successes(Append(s, [ok |-> ok, age |-> age])) = Successes(s) + (IF ok THEN 1 ELSE 0)
  <1> DEFINE e == [ok |-> ok, age |-> age]
             t == Append(s, e)
             A == {i \in DOMAIN s : s[i].ok}
             B == {i \in DOMAIN t : t[i].ok}
             n == Len(s) + 1
  <1>0. Len(s) \in Nat /\ DOMAIN s = 1..Len(s) /\ e \in Samples /\ (e.ok <=> ok)
    BY DEF Samples
  <1>1. /\ t \in Seq(Samples) /\ Len(t) = n /\ DOMAIN t = 1..n
        /\ \A i \in 1..Len(s) : t[i] = s[i]
        /\ t[n] = e
    BY <1>0, AppendProperties
  <1> HIDE DEF t, e
  <1>2. A \in SUBSET (1..Len(s)) /\ B = (IF ok THEN A \cup {n} ELSE A) /\ n \notin A
    <2>1. A \in SUBSET (1..Len(s)) /\ n \notin A
      BY <1>0
    <2>2. ASSUME NEW i PROVE i \in B <=> i \in A \/ (i = n /\ ok)
      <3>1. CASE i \in 1..Len(s)
        <4>1. i # n /\ i \in 1..n
          BY <3>1, <1>0
        <4> QED
          BY <4>1, <3>1, <1>0, <1>1
      <3>2. CASE i \notin 1..Len(s)
        <4>1. i \in 1..n <=> i = n
          BY <3>2, <1>0
        <4> QED
          BY <4>1, <3>2, <1>0, <1>1
      <3> QED
        BY <3>1, <3>2
    <2> HIDE DEF A, B, n
    <2> QED
      BY <2>1, <2>2
  <1> HIDE DEF A, B, n
  <1>3. IsFiniteSet(A) /\ Cardinality(A) \in Nat
    BY <1>2, FewPlaces
  <1>4. Cardinality(B) = Cardinality(A) + (IF ok THEN 1 ELSE 0)
    <2>1. Cardinality(A \cup {n}) = Cardinality(A) + 1
      BY <1>2, <1>3, FS_AddElement
    <2>2. CASE ok
      BY <2>1, <2>2, <1>2
    <2>3. CASE ~ok
      BY <2>3, <1>2, <1>3
    <2> QED
      BY <2>2, <2>3
  <1> QED
    BY <1>4 DEF Successes, A, B, t, e

\* In a sorted sequence what is live is a tail.
LEMMA LiveTail ==
  ASSUME NEW s \in Seq(Samples), OldestFirst(s)
  PROVE  \E k \in 0..Len(s) : /\ LiveSamples(s) = Len(s) - k
                             /\ \A i \in 1..Len(s) : LiveSample(s[i]) <=> i > k
  <1> DEFINE n == Len(s) + 1
             T == {i \in 1..n : i = n \/ (i \in 1..Len(s) /\ LiveSample(s[i]))}
             A == {i \in DOMAIN s : LiveSample(s[i])}
  <1>0. Len(s) \in Nat /\ DOMAIN s = 1..Len(s) /\ n \in Nat /\ Window \in Nat
    BY TelemetryAssumption
  <1>1. T \in SUBSET Nat /\ n \in T
    BY <1>0
  <1>2. PICK x \in T : \A y \in T : x <= y
    <2> HIDE DEF T
    <2> QED
      BY <1>1, LeastOne
  <1>3. x \in 1..n
    BY <1>2
  <1>4. ASSUME NEW i \in 1..Len(s) PROVE LiveSample(s[i]) <=> i >= x
    <2>1. CASE LiveSample(s[i])
      <3>1. i \in T
        BY <2>1, <1>0
      <3> QED
        BY <3>1, <2>1, <1>2, <1>3
    <2>2. CASE ~LiveSample(s[i]) /\ i >= x
      <3>1. x \in 1..Len(s) /\ LiveSample(s[x])
        BY <2>2, <1>0, <1>2, <1>3
      <3>2. s[i].age <= s[x].age /\ s[i] \in Samples /\ s[x] \in Samples
        BY <3>1, <2>2, <1>0, <1>3 DEF OldestFirst
      <3>3. s[i].age < Window
        BY <3>1, <3>2, <1>0 DEF LiveSample, Samples
      <3> QED
        BY <3>3, <2>2 DEF LiveSample
    <2> QED
      BY <2>1, <2>2
  <1>5. A = x..Len(s)
    BY <1>0, <1>3, <1>4
  <1>6. Cardinality(x..Len(s)) = IF x > Len(s) THEN 0 ELSE Len(s) - x + 1
    <2>1. x \in Int /\ Len(s) \in Int
      BY <1>0, <1>3
    <2> HIDE DEF T
    <2> QED
      BY <2>1, FS_Interval
  <1>7. LiveSamples(s) = Len(s) - (x - 1)
    <2>1. LiveSamples(s) = Cardinality(x..Len(s))
      BY <1>5 DEF LiveSamples
    <2>2. x \in Int /\ Len(s) \in Int /\ x <= Len(s) + 1
      BY <1>0, <1>3
    <2> HIDE DEF T, A, n
    <2> QED
      BY <1>6, <2>1, <2>2
  <1>8. x - 1 \in 0..Len(s) /\ \A i \in 1..Len(s) : LiveSample(s[i]) <=> i > x - 1
    BY <1>0, <1>3, <1>4
  <1> QED
    BY <1>7, <1>8

LEMMA LiveInWindow ==
  ASSUME NEW s \in Seq(Samples), OldestFirst(s), NEW w, Honest(w, s)
  PROVE  /\ LiveSamples(s) \in 0..Len(s) /\ Len(w.entries) \in Nat
         /\ LiveSamples(w.entries) =
              (IF Len(w.entries) < LiveSamples(s) THEN Len(w.entries) ELSE LiveSamples(s))
  <1> DEFINE e == w.entries
             d == Len(s) - Len(e)
  <1>1. e \in Seq(Samples) /\ Len(e) \in Nat /\ Len(s) \in Nat /\ d \in Nat /\ DOMAIN e = 1..Len(e)
        /\ DOMAIN s = 1..Len(s)
    BY DEF Honest, Windows
  <1>2. \A i \in 1..Len(e) : e[i] = s[d + i]
    BY <1>1 DEF Honest
  <1> HIDE DEF e
  <1>3. OldestFirst(e)
    <2>1. ASSUME NEW i \in 1..Len(e), NEW j \in 1..Len(e), i <= j PROVE e[j].age <= e[i].age
      <3>1. d + i \in 1..Len(s) /\ d + j \in 1..Len(s) /\ d + i <= d + j
        BY <2>1, <1>1
      <3> QED
        BY <3>1, <1>1, <1>2 DEF OldestFirst
    <2> QED
      BY <2>1, <1>1 DEF OldestFirst
  <1>4. PICK k \in 0..Len(s) : /\ LiveSamples(s) = Len(s) - k
                              /\ \A i \in 1..Len(s) : LiveSample(s[i]) <=> i > k
    BY LiveTail
  <1>5. PICK j \in 0..Len(e) : /\ LiveSamples(e) = Len(e) - j
                              /\ \A i \in 1..Len(e) : LiveSample(e[i]) <=> i > j
    BY <1>1, <1>3, LiveTail
  <1>6. ASSUME NEW i \in 1..Len(e) PROVE i > j <=> d + i > k
    <2>1. d + i \in 1..Len(s)
      BY <1>1
    <2> QED
      BY <2>1, <1>2, <1>4, <1>5
  <1>7. k <= d => j = 0
    BY <1>6, <1>1
  <1>8. k > d => j = k - d
    <2>1. SUFFICES ASSUME k > d PROVE j = k - d
      OBVIOUS
    <2>2. k - d \in 1..Len(e)
      BY <2>1, <1>1
    <2>3. ~(k - d > j)
      BY <2>2, <1>6, <1>1
    <2>4. CASE j > k - d
      <3>1. j \in 1..Len(e) /\ d + j > k
        BY <2>4, <2>2, <1>1
      <3> QED
        BY <3>1, <1>6
    <2> QED
      BY <2>2, <2>3, <2>4
  <1>9. LiveSamples(e) = IF Len(e) < LiveSamples(s) THEN Len(e) ELSE LiveSamples(s)
    <2>1. LiveSamples(s) = Len(s) - k /\ LiveSamples(e) = Len(e) - j
      BY <1>4, <1>5
    <2>2. CASE k <= d
      <3>1. j = 0 /\ Len(e) <= Len(s) - k
        BY <2>2, <1>1, <1>7
      <3>2. LiveSamples(e) = Len(e) /\ Len(e) <= LiveSamples(s) /\ LiveSamples(s) \in Int
        BY <3>1, <2>1, <1>1
      <3> HIDE DEF d
      <3> QED
        BY <3>2, <1>1
    <2>3. CASE k > d
      <3>1. j = k - d /\ Len(e) > Len(s) - k /\ Len(e) - j = Len(s) - k
        BY <2>3, <1>1, <1>8
      <3>2. LiveSamples(e) = LiveSamples(s) /\ ~(Len(e) < LiveSamples(s))
        BY <3>1, <2>1, <1>1
      <3> HIDE DEF d
      <3> QED
        BY <3>2
    <2> QED
      BY <2>2, <2>3, <1>1
  <1>10. LiveSamples(s) \in 0..Len(s)
    BY <1>1, <1>4
  <1> QED
    BY <1>1, <1>9, <1>10 DEF e

\* Drop keeps a window honest, and n entries fewer in it.
LEMMA DropHonest ==
  ASSUME NEW s \in Seq(Samples), NEW w, Honest(w, s), NEW m \in 0..Len(w.entries)
  PROVE  Honest(Drop(w, m), s) /\ Len(Drop(w, m).entries) = Len(w.entries) - m
  <1> DEFINE e == w.entries
             front == SubSeq(e, 1, m)
             back == SubSeq(e, m + 1, Len(e))
             v == Drop(w, m)
  <1>1. /\ w \in Windows /\ e \in Seq(Samples) /\ Len(e) \in Nat /\ Len(s) \in Nat
        /\ Len(e) <= Len(s) /\ m \in Nat /\ m <= Len(e)
        /\ \A i \in 1..Len(e) : e[i] = s[Len(s) - Len(e) + i]
        /\ w.successes = Successes(e) /\ w.failures = Failures(e)
    BY DEF Honest, Windows
  <1>2. v = [w EXCEPT !.entries = back, !.successes = @ - Successes(front), !.failures = @ - Failures(front)]
    BY DEF Drop
  <1> HIDE DEF e, v
  <1>3. front \in Seq(Samples) /\ Len(front) = m
    <2>1. \A i \in 1..m : e[i] \in Samples
      BY <1>1
    <2> QED
      BY <1>1, <2>1, SubSeqProperties
  <1>4. /\ back \in Seq(Samples) /\ Len(back) = Len(e) - m
        /\ \A i \in 1..(Len(e) - m) : back[i] = e[m + i]
    <2>1. \A i \in (m + 1)..Len(e) : e[i] \in Samples
      BY <1>1
    <2>2. /\ back \in Seq(Samples)
          /\ Len(back) = IF m + 1 <= Len(e) THEN Len(e) - (m + 1) + 1 ELSE 0
          /\ \A i \in 1..(Len(e) - (m + 1) + 1) : back[i] = e[(m + 1) + i - 1]
      BY <1>1, <2>1, SubSeqProperties
    <2>3. Len(e) - (m + 1) + 1 = Len(e) - m /\ \A i \in Int : (m + 1) + i - 1 = m + i
      BY <1>1
    <2> HIDE DEF back
    <2>4. Len(back) = Len(e) - m
      BY <2>2, <1>1
    <2>5. ASSUME NEW i \in 1..(Len(e) - m) PROVE back[i] = e[m + i]
      <3>1. i \in 1..(Len(e) - (m + 1) + 1)
        BY <2>3
      <3>2. back[i] = e[(m + 1) + i - 1]
        BY <3>1, <2>2
      <3>3. (m + 1) + i - 1 = m + i
        BY <1>1
      <3> QED
        BY <3>2, <3>3
    <2> QED
      BY <2>2, <2>4, <2>5
  <1>5. Successes(e) = Successes(front) + Successes(back)
    BY <1>1, CountSplit
  <1> HIDE DEF front, back
  <1>6. /\ Successes(e) \in Nat /\ Successes(front) \in Nat /\ Successes(back) \in Nat
    BY <1>1, <1>3, <1>4, SuccessesBounded
  <1>7. /\ Failures(e) = Len(e) - Successes(e) /\ Failures(front) = m - Successes(front)
        /\ Failures(back) = Len(back) - Successes(back)
    BY <1>3 DEF Failures
  <1>8. /\ v.entries = back /\ v.idle = w.idle
        /\ v.successes = Successes(e) - Successes(front) /\ v.failures = Failures(e) - Failures(front)
    BY <1>1, <1>2 DEF Windows
  <1>9. v.successes = Successes(back) /\ v.failures = Failures(back)
    BY <1>1, <1>4, <1>5, <1>6, <1>7, <1>8
  <1>10. v \in Windows
    <2>1. v.successes \in Int /\ v.failures \in Int
      BY <1>1, <1>4, <1>6, <1>7, <1>9
    <2> QED
      BY <2>1, <1>1, <1>2, <1>4, <1>8 DEF Windows
  <1>11. \A i \in 1..Len(back) : back[i] = s[Len(s) - Len(back) + i]
    <2> TAKE i \in 1..Len(back)
    <2>1. i \in 1..(Len(e) - m) /\ m + i \in 1..Len(e)
          /\ Len(s) - Len(e) + (m + i) = Len(s) - Len(back) + i
      BY <1>1, <1>4
    <2> QED
      BY <2>1, <1>1, <1>4
  <1>12. Len(back) <= Len(s)
    BY <1>1, <1>4
  <1> QED
    BY <1>4, <1>8, <1>9, <1>10, <1>11, <1>12 DEF Honest, v, e

\* What Cleanup leaves: an honest window, with enough of what is live.
LEMMA CleanupHonest ==
  ASSUME NEW s \in Seq(Samples), OldestFirst(s), NEW w, Honest(w, s),
         Len(w.entries) <= Capacity, Enough(Len(w.entries), s)
  PROVE  /\ Honest(Cleanup(w), s) /\ Len(Cleanup(w).entries) <= Capacity
         /\ Enough(Len(Cleanup(w).entries), s)
  <1> DEFINE n == Len(w.entries)
             live == Drop(w, n - LiveSamples(w.entries))
             kept == Capacity \div 2
             trimmed == IF Len(live.entries) >= Capacity /\ kept > 0
                        THEN Drop(live, Len(live.entries) - kept) ELSE live
             L == LiveSamples(s)
  <1>0. Capacity \in Nat /\ Capacity > 0 /\ kept \in Nat /\ kept < Capacity /\ Window \in Nat
    <2>1. Capacity \in Nat /\ Capacity > 0 /\ Window \in Nat
      BY TelemetryAssumption
    <2> QED
      BY <2>1
  <1> HIDE DEF kept
  <1>1. L \in Nat /\ n \in Nat /\ LiveSamples(w.entries) = (IF n < L THEN n ELSE L)
    BY LiveInWindow
  <1>2. n - LiveSamples(w.entries) \in 0..n
    BY <1>1
  <1>3. Honest(live, s) /\ Len(live.entries) = LiveSamples(w.entries)
    <2>1. Honest(live, s) /\ Len(live.entries) = n - (n - LiveSamples(w.entries))
      BY <1>2, DropHonest
    <2>2. LiveSamples(w.entries) \in Nat
      BY <1>1
    <2> HIDE DEF live, n
    <2> QED
      BY <1>1, <2>1, <2>2
  <1>4. n >= (IF L < kept THEN L ELSE kept)
    BY DEF Enough, kept
  <1> HIDE DEF live, n, L
  <1>5. /\ Honest(trimmed, s) /\ Len(trimmed.entries) \in Nat /\ Len(trimmed.entries) <= Capacity
        /\ Len(trimmed.entries) >= (IF L < kept THEN L ELSE kept)
    <2>0. n <= Capacity
      BY DEF n
    <2>1. CASE Len(live.entries) >= Capacity /\ kept > 0
      <3>1. Len(live.entries) \in Nat /\ Len(live.entries) - kept \in 0..Len(live.entries)
        BY <1>0, <1>1, <1>3, <2>1
      <3>2. Honest(Drop(live, Len(live.entries) - kept), s)
            /\ Len(Drop(live, Len(live.entries) - kept).entries) = Len(live.entries) - (Len(live.entries) - kept)
        BY <3>1, <1>3, DropHonest
      <3>3. trimmed = Drop(live, Len(live.entries) - kept)
        BY <2>1
      <3> HIDE DEF trimmed
      <3>4. Honest(trimmed, s) /\ Len(trimmed.entries) = kept
        BY <3>1, <3>2, <3>3, <1>0
      <3> QED
        BY <3>4, <1>0, <1>1
    <2>2. CASE ~(Len(live.entries) >= Capacity /\ kept > 0)
      <3>1. trimmed = live
        BY <2>2
      <3> HIDE DEF trimmed
      <3>2. Len(live.entries) = (IF n < L THEN n ELSE L)
        BY <1>1, <1>3
      <3> QED
        BY <3>1, <3>2, <2>0, <1>0, <1>1, <1>3, <1>4
    <2> QED
      BY <2>1, <2>2
  <1> HIDE DEF trimmed
  <1>6. Cleanup(w) = [trimmed EXCEPT !.idle = 0]
    BY DEF Cleanup, trimmed, live, n, kept
  <1>7. /\ Cleanup(w) \in Windows /\ Cleanup(w).entries = trimmed.entries
        /\ Cleanup(w).successes = trimmed.successes /\ Cleanup(w).failures = trimmed.failures
    <2>1. trimmed \in Windows
      BY <1>5 DEF Honest
    <2>2. 0 \in 0..Window
      BY <1>0
    <2> QED
      BY <2>1, <2>2, <1>6 DEF Windows
  <1>8. Honest(Cleanup(w), s)
    BY <1>5, <1>7 DEF Honest
  <1>9. Enough(Len(Cleanup(w).entries), s)
    BY <1>5, <1>7 DEF Enough, kept, L
  <1> QED
    BY <1>5, <1>7, <1>8, <1>9

\* Record: the sample is the newest of the window and of the history.
LEMMA RecordKeepsWindow ==
  ASSUME WindowInv, NEW ok \in BOOLEAN, Record(ok)
  PROVE  WindowInv'
  <1> DEFINE clean == Cleanup(win)
             room == IF Len(clean.entries) >= Capacity THEN Drop(clean, 1) ELSE clean
             sample == [ok |-> ok, age |-> 0]
             e == room.entries
             f == Append(e, sample)
             t == Append(samples, sample)
  <1>0. Capacity \in Nat /\ Capacity > 0 /\ Window \in Nat /\ Window > 0 /\ 0 \in 0..Window
        /\ Capacity \div 2 \in Nat /\ Capacity \div 2 < Capacity
    <2>1. Capacity \in Nat /\ Capacity > 0 /\ Window \in Nat /\ Window > 0
      BY TelemetryAssumption
    <2> QED
      BY <2>1
  <1>1. samples \in Seq(Samples) /\ OldestFirst(samples) /\ Len(samples) \in Nat /\ sample \in Samples
    BY <1>0 DEF WindowInv, Samples
  <1>2. Honest(clean, samples) /\ Len(clean.entries) <= Capacity /\ Enough(Len(clean.entries), samples)
    BY CleanupHonest DEF WindowInv
  <1>3. win' = [room EXCEPT !.entries = Append(@, sample),
                            !.successes = @ + (IF ok THEN 1 ELSE 0),
                            !.failures = @ + (IF ok THEN 0 ELSE 1)]
        /\ samples' = t
    BY DEF Record
  <1> HIDE DEF clean
  <1>4. Len(clean.entries) \in Nat
    BY <1>2 DEF Honest, Windows
  <1>5. /\ Honest(room, samples) /\ Len(e) \in Nat /\ Len(e) + 1 <= Capacity
        /\ Len(e) = Len(clean.entries) \/ (Len(clean.entries) >= Capacity /\ Len(e) + 1 = Len(clean.entries))
    <2>1. CASE Len(clean.entries) >= Capacity
      <3>1. 1 \in 0..Len(clean.entries)
        BY <2>1, <1>0, <1>4
      <3>2. Honest(Drop(clean, 1), samples) /\ Len(Drop(clean, 1).entries) = Len(clean.entries) - 1
        BY <3>1, <1>1, <1>2, DropHonest
      <3>3. room = Drop(clean, 1)
        BY <2>1
      <3> HIDE DEF room
      <3> QED
        BY <3>1, <3>2, <3>3, <2>1, <1>0, <1>2, <1>4
    <2>2. CASE ~(Len(clean.entries) >= Capacity)
      <3>1. room = clean
        BY <2>2
      <3> HIDE DEF room
      <3> QED
        BY <3>1, <2>2, <1>0, <1>2, <1>4
    <2> QED
      BY <2>1, <2>2
  <1> HIDE DEF room
  <1>6. /\ room \in Windows /\ e \in Seq(Samples) /\ Len(e) <= Len(samples)
        /\ \A i \in 1..Len(e) : e[i] = samples[Len(samples) - Len(e) + i]
        /\ room.successes = Successes(e) /\ room.failures = Failures(e)
    BY <1>5 DEF Honest, Windows
  <1>7. /\ t \in Seq(Samples) /\ Len(t) = Len(samples) + 1 /\ t[Len(samples) + 1] = sample
        /\ \A i \in 1..Len(samples) : t[i] = samples[i]
    BY <1>1, AppendProperties
  <1>8. /\ f \in Seq(Samples) /\ Len(f) = Len(e) + 1 /\ f[Len(e) + 1] = sample
        /\ \A i \in 1..Len(e) : f[i] = e[i]
    BY <1>1, <1>6, AppendProperties
  <1>9. Successes(f) = Successes(e) + (IF ok THEN 1 ELSE 0) /\ Successes(e) \in Nat
    BY <1>0, <1>6, CountAppend, SuccessesBounded
  <1> HIDE DEF e, f, t, sample
  <1>10. Failures(f) = Failures(e) + (IF ok THEN 0 ELSE 1) /\ Failures(e) \in Int
    BY <1>5, <1>8, <1>9 DEF Failures
  <1>11. /\ win'.entries = f /\ win'.successes = Successes(f) /\ win'.failures = Failures(f)
         /\ win'.idle = room.idle
    BY <1>3, <1>6, <1>9, <1>10 DEF Windows, e, f
  <1>12. win' \in Windows
    <2>1. Successes(f) \in Int /\ Failures(f) \in Int
      BY <1>9, <1>10
    <2>2. win' = [room EXCEPT !.entries = f, !.successes = Successes(f), !.failures = Failures(f)]
      BY <1>3, <1>6, <1>9, <1>10 DEF Windows, e, f
    <2> QED
      BY <2>1, <2>2, <1>6, <1>8 DEF Windows
  <1>13. \A i \in 1..Len(f) : f[i] = t[Len(t) - Len(f) + i]
    <2> TAKE i \in 1..Len(f)
    <2>1. Len(t) - Len(f) + i = Len(samples) - Len(e) + i
      BY <1>1, <1>5, <1>7, <1>8
    <2>2. CASE i \in 1..Len(e)
      <3>1. Len(samples) - Len(e) + i \in 1..Len(samples)
        BY <2>2, <1>1, <1>5, <1>6
      <3> QED
        BY <3>1, <2>1, <2>2, <1>6, <1>7, <1>8
    <2>3. CASE i = Len(e) + 1
      <3>1. Len(samples) - Len(e) + i = Len(samples) + 1
        BY <2>3, <1>1, <1>5
      <3> QED
        BY <3>1, <2>1, <2>3, <1>7, <1>8
    <2> QED
      BY <2>2, <2>3, <1>5, <1>8
  <1>14. Len(f) <= Len(t)
    BY <1>1, <1>5, <1>6, <1>7, <1>8
  <1>15. Honest(win, samples)'
    BY <1>3, <1>8, <1>11, <1>12, <1>13, <1>14 DEF Honest
  <1>16. OldestFirst(t)
    <2>1. ASSUME NEW i \in 1..Len(t), NEW j \in 1..Len(t), i <= j PROVE t[j].age <= t[i].age
      <3>1. CASE j \in 1..Len(samples)
        <4>1. i \in 1..Len(samples)
          BY <3>1, <2>1, <1>1, <1>7
        <4> QED
          BY <4>1, <3>1, <2>1, <1>1, <1>7 DEF OldestFirst
      <3>2. CASE j = Len(samples) + 1
        <4>1. t[j].age = 0 /\ t[i] \in Samples
          BY <3>2, <1>7 DEF sample
        <4> QED
          BY <4>1, <1>0 DEF Samples
      <3> QED
        BY <3>1, <3>2, <1>1, <1>7
    <2> QED
      BY <2>1, <1>7 DEF OldestFirst
  <1>17. LiveSamples(t) = LiveSamples(samples) + 1 /\ LiveSamples(samples) \in Nat
    <2>1. PICK k \in 0..Len(samples) : /\ LiveSamples(samples) = Len(samples) - k
                    /\ \A i \in 1..Len(samples) : LiveSample(samples[i]) <=> i > k
      BY <1>1, LiveTail
    <2>2. PICK j \in 0..Len(t) : /\ LiveSamples(t) = Len(t) - j
                    /\ \A i \in 1..Len(t) : LiveSample(t[i]) <=> i > j
      BY <1>7, <1>16, LiveTail
    <2>3. LiveSample(t[Len(samples) + 1])
      BY <1>0, <1>7 DEF LiveSample, sample
    <2>4. j <= Len(samples)
      <3>1. Len(samples) + 1 \in 1..Len(t)
        BY <1>1, <1>7
      <3> QED
        BY <3>1, <2>2, <2>3, <1>1, <1>7
    <2>5. ASSUME NEW i \in 1..Len(samples) PROVE i > k <=> i > j
      <3>1. i \in 1..Len(t)
        BY <1>1, <1>7
      <3> QED
        BY <3>1, <2>1, <2>2, <1>7
    <2>6. j = k
      <3>1. CASE j > k
        <4>1. j \in 1..Len(samples)
          BY <3>1, <2>1, <2>2, <2>4, <1>1
        <4> QED
          BY <4>1, <3>1, <2>5
      <3>2. CASE k > j
        <4>1. k \in 1..Len(samples)
          BY <3>2, <2>1, <2>2, <1>1
        <4> QED
          BY <4>1, <3>2, <2>5
      <3> QED
        BY <3>1, <3>2, <1>1, <1>7
    <2> QED
      BY <2>1, <2>2, <2>6, <1>1, <1>7
  <1>18. Enough(Len(f), t)
    <2>1. Len(clean.entries) >= (IF LiveSamples(samples) < Capacity \div 2 THEN LiveSamples(samples) ELSE Capacity \div 2)
      BY <1>2 DEF Enough
    <2>2. Len(f) >= (IF LiveSamples(t) < Capacity \div 2 THEN LiveSamples(t) ELSE Capacity \div 2)
      BY <2>1, <1>0, <1>4, <1>5, <1>8, <1>17
    <2> QED
      BY <2>2 DEF Enough
  <1>19. (OldestFirst(samples))' /\ (Enough(Len(win.entries), samples))'
    BY <1>3, <1>11, <1>16, <1>18 DEF OldestFirst, Enough, LiveSamples, LiveSample
  <1> QED
    BY <1>3, <1>5, <1>7, <1>8, <1>11, <1>15, <1>19 DEF WindowInv

LEMMA OlderSamples ==
  ASSUME NEW s \in Seq(Samples)
  PROVE  /\ Older(s) \in Seq(Samples) /\ Len(Older(s)) = Len(s) /\ DOMAIN s = 1..Len(s)
         /\ DOMAIN Older(s) = DOMAIN s
         /\ \A i \in 1..Len(s) : /\ Older(s)[i] = [s[i] EXCEPT !.age = OneOlder(@)]
                                 /\ (Older(s)[i].ok <=> s[i].ok)
                                 /\ Older(s)[i].age = OneOlder(s[i].age)
                                 /\ s[i].age \in 0..Window /\ OneOlder(s[i].age) \in 0..Window
  <1>1. Window \in Nat /\ Len(s) \in Nat /\ DOMAIN s = 1..Len(s)
    BY TelemetryAssumption
  <1>2. \A a \in 0..Window : OneOlder(a) \in 0..Window
    BY <1>1 DEF OneOlder
  <1>3. ASSUME NEW i \in 1..Len(s)
        PROVE  /\ Older(s)[i] = [s[i] EXCEPT !.age = OneOlder(@)]
               /\ (Older(s)[i].ok <=> s[i].ok) /\ Older(s)[i].age = OneOlder(s[i].age)
               /\ s[i].age \in 0..Window /\ OneOlder(s[i].age) \in 0..Window
               /\ Older(s)[i] \in Samples
    <2>1. s[i] \in Samples /\ Older(s)[i] = [s[i] EXCEPT !.age = OneOlder(@)]
      BY <1>1 DEF Older
    <2>2. s[i].age \in 0..Window
      BY <2>1 DEF Samples
    <2> QED
      BY <2>1, <2>2, <1>2 DEF Samples
  <1>4. Older(s) = [i \in 1..Len(s) |-> [s[i] EXCEPT !.age = OneOlder(@)]]
    BY <1>1 DEF Older
  <1>5. Older(s) \in [1..Len(s) -> Samples]
    BY <1>1, <1>3, <1>4
  <1>6. Older(s) \in Seq(Samples) /\ Len(Older(s)) = Len(s) /\ DOMAIN Older(s) = DOMAIN s
    <2> HIDE DEF Older
    <2>1. Older(s) \in Seq(Samples)
      BY <1>1, <1>5
    <2> QED
      BY <2>1, <1>1, <1>5
  <1> QED
    BY <1>1, <1>3, <1>6

LEMMA AgeKeepsWindow ==
  ASSUME WindowInv, AgeSamples
  PROVE  WindowInv'
  <1> DEFINE e == win.entries
             f == Older(e)
             t == Older(samples)
  <1>1. /\ win \in Windows /\ samples \in Seq(Samples) /\ e \in Seq(Samples) /\ OldestFirst(samples)
        /\ Len(e) <= Len(samples) /\ Len(e) \in Nat /\ Len(samples) \in Nat
        /\ \A i \in 1..Len(e) : e[i] = samples[Len(samples) - Len(e) + i]
        /\ win.successes = Successes(e) /\ win.failures = Failures(e)
    BY DEF WindowInv, Honest, Windows
  <1>2. win' = [win EXCEPT !.entries = f, !.idle = OneOlder(@)] /\ samples' = t
    BY DEF AgeSamples
  <1>3. Window \in Nat /\ \A a \in 0..Window : OneOlder(a) \in 0..Window
    <2>1. Window \in Nat
      BY TelemetryAssumption
    <2> QED
      BY <2>1 DEF OneOlder
  <1>4. /\ f \in Seq(Samples) /\ Len(f) = Len(e) /\ DOMAIN e = 1..Len(e) /\ DOMAIN f = DOMAIN e
        /\ \A i \in 1..Len(e) : f[i] = [e[i] EXCEPT !.age = OneOlder(@)] /\ (f[i].ok <=> e[i].ok)
    BY <1>1, OlderSamples
  <1>5. /\ t \in Seq(Samples) /\ Len(t) = Len(samples) /\ DOMAIN samples = 1..Len(samples)
        /\ DOMAIN t = DOMAIN samples
        /\ \A i \in 1..Len(samples) : /\ t[i] = [samples[i] EXCEPT !.age = OneOlder(@)]
                                      /\ t[i].age = OneOlder(samples[i].age)
                                      /\ samples[i].age \in 0..Window
    BY <1>1, OlderSamples
  <1> HIDE DEF e, f, t
  <1>6. Successes(f) = Successes(e) /\ Failures(f) = Failures(e)
    <2>1. {i \in DOMAIN f : f[i].ok} = {i \in DOMAIN e : e[i].ok}
      BY <1>4
    <2> QED
      BY <2>1, <1>4 DEF Successes, Failures
  <1>7. win' \in Windows /\ win'.entries = f /\ win'.successes = Successes(f) /\ win'.failures = Failures(f)
    <2>1. OneOlder(win.idle) \in 0..Window
      BY <1>1, <1>3 DEF Windows
    <2>2. win' = [win EXCEPT !.entries = f, !.idle = OneOlder(win.idle)]
      BY <1>2
    <2> QED
      BY <2>1, <2>2, <1>1, <1>4, <1>6 DEF Windows
  <1>8. \A i \in 1..Len(f) : f[i] = t[Len(t) - Len(f) + i]
    <2> TAKE i \in 1..Len(f)
    <2>1. Len(samples) - Len(e) + i \in 1..Len(samples) /\ i \in 1..Len(e)
          /\ Len(t) - Len(f) + i = Len(samples) - Len(e) + i
      BY <1>1, <1>4, <1>5
    <2> QED
      BY <2>1, <1>1, <1>4, <1>5
  <1>9. Honest(win, samples)'
    BY <1>1, <1>2, <1>4, <1>5, <1>7, <1>8 DEF Honest
  <1>10. OldestFirst(t)
    <2>1. ASSUME NEW i \in 1..Len(t), NEW j \in 1..Len(t), i <= j PROVE t[j].age <= t[i].age
      <3>1. samples[j].age <= samples[i].age /\ samples[i].age \in 0..Window /\ samples[j].age \in 0..Window
            /\ t[i].age = OneOlder(samples[i].age) /\ t[j].age = OneOlder(samples[j].age)
        BY <2>1, <1>1, <1>5 DEF OldestFirst
      <3>2. OneOlder(samples[j].age) <= OneOlder(samples[i].age)
        BY <3>1, <1>3 DEF OneOlder
      <3> QED
        BY <3>1, <3>2
    <2> QED
      BY <2>1, <1>5 DEF OldestFirst
  <1>11. LiveSamples(t) <= LiveSamples(samples) /\ LiveSamples(t) \in Nat /\ LiveSamples(samples) \in Nat
    <2> DEFINE A == {i \in DOMAIN samples : LiveSample(samples[i])}
               B == {i \in DOMAIN t : LiveSample(t[i])}
    <2>1. A \in SUBSET (1..Len(samples)) /\ B \in SUBSET (1..Len(t))
      BY <1>5
    <2>2. ASSUME NEW i \in B PROVE i \in A
      <3>1. i \in 1..Len(samples) /\ OneOlder(samples[i].age) < Window /\ samples[i].age \in 0..Window
        BY <1>5 DEF LiveSample
      <3>2. samples[i].age < Window
        BY <3>1, <1>3 DEF OneOlder
      <3> QED
        BY <3>1, <3>2, <1>5 DEF LiveSample
    <2> HIDE DEF A, B
    <2>3. IsFiniteSet(A) /\ Cardinality(A) \in Nat /\ Cardinality(B) \in Nat
      BY <2>1, <1>1, <1>5, FewPlaces
    <2>4. Cardinality(B) <= Cardinality(A)
      BY <2>2, <2>3, FS_Subset
    <2> QED
      BY <2>3, <2>4 DEF LiveSamples, A, B
  <1>12. Enough(Len(f), t)
    <2>1. Len(e) >= (IF LiveSamples(samples) < Capacity \div 2 THEN LiveSamples(samples) ELSE Capacity \div 2)
      BY DEF WindowInv, Enough, e
    <2>2. Capacity \in Nat /\ Capacity \div 2 \in Nat
      <3>1. Capacity \in Nat
        BY TelemetryAssumption
      <3> QED
        BY <3>1
    <2>3. Len(f) >= (IF LiveSamples(t) < Capacity \div 2 THEN LiveSamples(t) ELSE Capacity \div 2)
      BY <2>1, <2>2, <1>1, <1>4, <1>11
    <2> QED
      BY <2>3 DEF Enough
  <1>13. OldestFirst(samples)' /\ Enough(Len(win.entries), samples)' /\ Len(f) <= Capacity
    BY <1>2, <1>4, <1>7, <1>10, <1>12 DEF OldestFirst, Enough, LiveSamples, LiveSample, WindowInv, e
  <1> QED
    BY <1>2, <1>5, <1>7, <1>9, <1>13 DEF WindowInv

LEMMA RateKeepsWindow ==
  ASSUME WindowInv, SuccessRate
  PROVE  WindowInv'
  <1>1. win' = Cleanup(win) /\ samples' = samples
    BY DEF SuccessRate
  <1>2. /\ Honest(Cleanup(win), samples) /\ Len(Cleanup(win).entries) <= Capacity
        /\ Enough(Len(Cleanup(win).entries), samples)
    BY CleanupHonest DEF WindowInv
  <1> QED
    BY <1>1, <1>2 DEF WindowInv, Honest, Enough, OldestFirst, LiveSamples, LiveSample

LEMMA SameWindow ==
  ASSUME WindowInv, UNCHANGED <<win, samples>>
  PROVE  WindowInv'
  BY DEF WindowInv, Honest, Enough, OldestFirst, LiveSamples, LiveSample

LEMMA VerdictKeepsWindow ==
  ASSUME WindowInv, NEW r, NEW ask, NEW ok \in BOOLEAN, Verdict(r, ask, ok)
  PROVE  WindowInv'
  BY RecordKeepsWindow, SameWindow DEF Verdict

LEMMA UnaryKeepsWindow ==
  ASSUME WindowInv, NEW r, NEW got, NEW counts, AnsweredUnary(r, got, counts)
  PROVE  WindowInv'
  <1>1. (got = "answer") \in BOOLEAN
    OBVIOUS
  <1> QED
    BY <1>1, VerdictKeepsWindow, SameWindow DEF AnsweredUnary, NoVerdict

LEMMA InitWindow == TelemetryInit => WindowInv
  <1> SUFFICES ASSUME TelemetryInit PROVE WindowInv
    OBVIOUS
  <1>1. win = [entries |-> <<>>, successes |-> 0, failures |-> 0, idle |-> 0] /\ samples = <<>>
    BY DEF TelemetryInit
  <1>2. /\ Window \in Nat /\ Capacity \in Nat /\ Capacity > 0
    BY TelemetryAssumption
  <1>3. <<>> \in Seq(Samples) /\ Len(<<>>) = 0 /\ DOMAIN <<>> = {}
    OBVIOUS
  <1>4. Successes(<<>>) = 0 /\ Failures(<<>>) = 0 /\ LiveSamples(<<>>) = 0
    <2>1. {i \in DOMAIN <<>> : <<>>[i].ok} = {} /\ {i \in DOMAIN <<>> : LiveSample(<<>>[i])} = {}
      BY <1>3
    <2> QED
      BY <2>1, <1>3, FS_EmptySet DEF Successes, Failures, LiveSamples
  <1>5. win \in Windows /\ win.entries = <<>> /\ win.successes = 0 /\ win.failures = 0
    BY <1>1, <1>2, <1>3 DEF Windows
  <1>6. Honest(win, samples)
    BY <1>1, <1>3, <1>4, <1>5 DEF Honest
  <1>7. Capacity \div 2 \in Nat
    BY <1>2
  <1>8. Enough(Len(win.entries), samples)
    BY <1>1, <1>3, <1>4, <1>5, <1>7 DEF Enough
  <1> QED
    BY <1>1, <1>2, <1>3, <1>5, <1>6, <1>8 DEF WindowInv, OldestFirst

LEMMA WindowInvShows == WindowInv => WindowIsHonest
  <1> SUFFICES ASSUME WindowInv PROVE WindowIsHonest
    OBVIOUS
  <1> DEFINE e == win.entries
             n == Len(e)
             k == Len(samples) - n + 1
             l == Lasts(samples, n)
  <1>1. /\ samples \in Seq(Samples) /\ e \in Seq(Samples) /\ n \in Nat /\ Len(samples) \in Nat
        /\ n <= Len(samples) /\ \A i \in 1..n : e[i] = samples[Len(samples) - n + i]
        /\ win.successes = Successes(e) /\ win.failures = Failures(e)
    BY DEF WindowInv, Honest, Windows
  <1>2. k \in Int /\ Len(samples) \in Int /\ \A i \in k..Len(samples) : samples[i] \in Samples
    BY <1>1
  <1>3. /\ l \in Seq(Samples) /\ Len(l) = (IF k <= Len(samples) THEN Len(samples) - k + 1 ELSE 0)
        /\ \A i \in 1..(Len(samples) - k + 1) : l[i] = samples[k + i - 1]
    <2>1. l = SubSeq(samples, k, Len(samples))
      BY DEF Lasts
    <2> HIDE DEF l, k
    <2> QED
      BY <2>1, <1>2, SubSeqProperties
  <1> HIDE DEF l, e
  <1>4. Len(l) = n
    BY <1>1, <1>3
  <1>5. ASSUME NEW i \in 1..n PROVE l[i] = e[i]
    <2>1. i \in 1..(Len(samples) - k + 1) /\ k + i - 1 = Len(samples) - n + i
      BY <1>1
    <2> QED
      BY <2>1, <1>1, <1>3
  <1>6. e = l
    BY <1>1, <1>3, <1>4, <1>5, SeqEqual
  <1> QED
    BY <1>1, <1>6 DEF WindowIsHonest, WindowInv, Enough, l, e

LEMMA StreamKeepsWindow ==
  ASSUME WindowInv, NEW r,
         \/ \E b \in BOOLEAN : Open(r, b) \/ Forward(r, b) \/ SendFails(r, b)
         \/ ForwardDone(r) \/ ForwardError(r) \/ SourceEnds(r) \/ \E said : Panics(r, said)
         \/ \E reads : Settles(r, reads) \/ Close(r, reads)
         \/ LoggingSettles(r) \/ EndSpan(r) \/ DecrementActive(r)
  PROVE  WindowInv'
  <1>1. ASSUME NEW ask, Verdict(r, ask, FALSE) PROVE WindowInv'
    BY <1>1, VerdictKeepsWindow
  <1>2. ASSUME NEW ask, NoVerdict(r, ask) PROVE WindowInv'
    BY <1>2, SameWindow DEF NoVerdict
  <1>3. ASSUME NEW b \in BOOLEAN, Open(r, b) \/ Forward(r, b) \/ SendFails(r, b) PROVE WindowInv'
    BY <1>1, <1>2, <1>3 DEF Open, Forward, SendFails
  <1>4. CASE ForwardDone(r) \/ ForwardError(r) \/ SourceEnds(r) \/ \E said : Panics(r, said)
    BY <1>1, <1>2, <1>4 DEF ForwardDone, ForwardError, SourceEnds, Panics
  <1>5. ASSUME NEW ask, NEW p, Verdict(r, ask, ~p) PROVE WindowInv'
    <2>1. (~p) \in BOOLEAN
      OBVIOUS
    <2> QED
      BY <1>5, <2>1, VerdictKeepsWindow
  <1>6. CASE \E reads : Settles(r, reads)
    BY <1>2, <1>5, <1>6 DEF Settles
  <1>7. CASE LoggingSettles(r)
    <2>1. ASSUME NEW ask, NEW p, NEW q, Verdict(r, ask, ~p /\ ~q) PROVE WindowInv'
      <3>1. (~p /\ ~q) \in BOOLEAN
        OBVIOUS
      <3> QED
        BY <2>1, <3>1, VerdictKeepsWindow
    <2> QED
      BY <1>2, <1>7, <2>1 DEF LoggingSettles
  <1>8. CASE EndSpan(r) \/ DecrementActive(r) \/ \E reads : Close(r, reads)
    BY <1>2, <1>8 DEF EndSpan, DecrementActive, Close
  <1> QED
    BY <1>3, <1>4, <1>6, <1>7, <1>8

LEMMA NextKeepsWindow == WindowInv /\ [TelemetryNext]_telemetryVars => WindowInv'
  <1> SUFFICES ASSUME WindowInv, [TelemetryNext]_telemetryVars PROVE WindowInv'
    OBVIOUS
  <1>1. CASE UNCHANGED telemetryVars
    BY <1>1, SameWindow DEF telemetryVars
  <1>2. CASE SuccessRate \/ AgeSamples
    BY <1>2, RateKeepsWindow, AgeKeepsWindow
  <1>3. ASSUME NEW r, NEW phase, Begin(r, phase) \/ CancelStream(r) \/ LeaveUnary(r) PROVE WindowInv'
    BY <1>3, SameWindow DEF Begin, CancelStream, LeaveUnary
  <1>4. ASSUME NEW r, NEW got, \/ MetricsUnary(r, got) \/ OTelUnary(r, got)
                                  \/ LangfuseUnary(r, got) \/ LoggingUnary(r, got)
        PROVE  WindowInv'
    BY <1>4, UnaryKeepsWindow DEF MetricsUnary, OTelUnary, LangfuseUnary, LoggingUnary
  <1>5. ASSUME NEW r, Forwards(r) \/ (\E said : Panics(r, said)) PROVE WindowInv'
    BY <1>5, StreamKeepsWindow DEF Forwards
  <1>6. ASSUME NEW r, \/ \E reads : Settles(r, reads) \/ Close(r, reads)
                      \/ LoggingSettles(r) \/ EndSpan(r) \/ DecrementActive(r)
        PROVE  WindowInv'
    BY <1>6, StreamKeepsWindow
  <1> QED
    BY <1>1, <1>2, <1>3, <1>4, <1>5, <1>6
    DEF TelemetryNext, MetricsStream, OTelStream, LangfuseStream, LoggingStream, MetricsSettles, OTelSettles,
        LangfuseSettles

\* The success window of MetricsMiddleware holds the latest samples, whatever its capacity
\* and its duration, and however often it is cleaned: between half its capacity and its
\* capacity of what is live, and its two counters count its entries.
LEMMA WindowIsAlwaysHonest == TelemetrySpec => []WindowIsHonest
  BY InitWindow, NextKeepsWindow, WindowInvShows, PTL DEF TelemetrySpec

\* For any number of requests, any window and any capacity, of the four middlewares: a request
\* is judged once, unless a panic went through, and told otherwise only after a panic that was
\* recovered, a failure its caller did not read in time, or a cancellation after the verdict;
\* no span is open when no request is active; and the window holds the latest samples with
\* counters that are theirs.  (The deferred functions of Stream, slidingWindow.)
THEOREM RecordsAreAlwaysTrue == TelemetrySpec => []RecordsAreTrue
  BY VerdictsAreAlwaysTrue, IdleAlwaysMeansEnded, WindowIsAlwaysHonest, PTL DEF RecordsAreTrue

-----------------------------------------------------------------------------
(* Native batches.                                                         *)

BatchedRequests == [id : CustomIds, model : {"", "other"}, text : BOOLEAN]
Lines == CustomIds \X LineKinds
Remotes == [seen : BOOLEAN, state : {"", "validating", "completed", "failed", "purged"}, lines : Seq(Lines)]

\* What was collected is what the lines say of the requests.
Collected ==
    /\ DOMAIN lineResults = BatchedIds
    /\ successes + failures = Len(batched)
    /\ successes = Cardinality({id \in DOMAIN lineResults : lineResults[id]})
    /\ totalUsage = 2 * successes
    /\ \A id \in DOMAIN lineResults : lineResults[id] <=>
        \E i \in DOMAIN remote.lines :
            remote.lines[i] = <<id, "response">> /\ \A j \in DOMAIN remote.lines :
                j > i => remote.lines[j][1] # id

\* The longest sleep between two polls.
Furthest == MaxInterval + MaxInterval \div 10

OneEach == \A i, j \in DOMAIN batched : i # j => batched[i].id # batched[j].id

BatchInv ==
    /\ batched \in Seq(BatchedRequests) /\ OneEach
    /\ remote \in Remotes
    /\ jobPhase = "building" => remote.state = ""
    /\ remote.state # "" => Submittable
    /\ batchNow \in Nat /\ wake \in Nat /\ pollInterval \in 1..MaxInterval
    /\ wake <= batchNow + Furthest
    /\ jobPhase = "missing" => batchNow >= Grace
    /\ jobPhase = "done" => Collected

LEMMA JitterIsBounded ==
  ASSUME NEW interval \in 1..MaxInterval, NEW pause \in Spread(interval)
  PROVE  pause \in Nat /\ pause <= Furthest
  BY NativeBatchAssumption DEF Spread, Furthest

LEMMA FurthestIsNatural == Furthest \in Nat
  BY NativeBatchAssumption DEF Furthest

\* The last line of a request.
LEMMA LastOfSome ==
  ASSUME NEW n \in Nat, NEW T \in SUBSET (1..n), T # {}
  PROVE  /\ (CHOOSE i \in T : \A j \in T : j <= i) \in T
         /\ \A j \in T : j <= (CHOOSE i \in T : \A k \in T : k <= i)
  <1> DEFINE U == {n - i : i \in T}
  <1>1. U \in SUBSET Nat /\ U # {}
    <2>1. \A i \in T : n - i \in Nat
      OBVIOUS
    <2>2. PICK i \in T : TRUE
      OBVIOUS
    <2>3. n - i \in U
      BY <2>2
    <2> QED
      BY <2>1, <2>3
  <1>2. PICK x \in U : \A y \in U : x <= y
    BY <1>1, LeastOne
  <1>3. PICK m \in T : x = n - m
    BY <1>2
  <1>4. \A j \in T : j <= m
    <2> TAKE j \in T
    <2>1. n - j \in U
      OBVIOUS
    <2>2. n - m <= n - j
      BY <1>2, <1>3, <2>1
    <2> QED
      BY <2>2
  <1>5. \E i \in T : \A j \in T : j <= i
    BY <1>4
  <1> QED
    BY <1>5

LEMMA SucceededIsTold ==
  ASSUME remote \in Remotes, NEW id
  PROVE  Succeeded(id) <=>
           \E i \in DOMAIN remote.lines :
              remote.lines[i] = <<id, "response">> /\ \A j \in DOMAIN remote.lines :
                  j > i => remote.lines[j][1] # id
  <1> DEFINE L == remote.lines
             n == Len(L)
             T == LinesOf(id)
             m == CHOOSE i \in T : \A j \in T : j <= i
  <1>1. L \in Seq(Lines) /\ n \in Nat /\ DOMAIN L = 1..n /\ \A i \in 1..n : L[i] = <<L[i][1], L[i][2]>>
    <2>1. L \in Seq(Lines)
      BY DEF Remotes
    <2> HIDE DEF L
    <2>2. n \in Nat /\ DOMAIN L = 1..n /\ \A i \in 1..n : L[i] \in Lines
      BY <2>1
    <2> QED
      BY <2>1, <2>2 DEF Lines
  <1>2. T \in SUBSET (1..n) /\ \A i \in 1..n : i \in T <=> L[i][1] = id
    BY <1>1 DEF LinesOf
  <1>3. ASSUME T # {} PROVE m \in T /\ \A j \in T : j <= m
    <2> HIDE DEF T
    <2> QED
      BY <1>1, <1>2, <1>3, LastOfSome
  <1>4. Succeeded(id) <=> T # {} /\ L[m][2] = "response"
    BY DEF Succeeded, Converts, LineOf
  <1> HIDE DEF L, T, m
  <1>5. ASSUME T # {}, L[m][2] = "response"
        PROVE  \E i \in 1..n : L[i] = <<id, "response">> /\ \A j \in 1..n : j > i => L[j][1] # id
    <2>1. m \in T /\ m \in 1..n /\ L[m][1] = id
      BY <1>2, <1>3, <1>5
    <2>2. L[m] = <<id, "response">>
      BY <1>1, <1>5, <2>1
    <2>3. \A j \in 1..n : j > m => L[j][1] # id
      BY <1>2, <1>3, <1>5, <2>1
    <2> QED
      BY <2>1, <2>2, <2>3
  <1>6. ASSUME NEW i \in 1..n, L[i] = <<id, "response">>, \A j \in 1..n : j > i => L[j][1] # id
        PROVE  T # {} /\ L[m][2] = "response"
    <2>1. i \in T
      BY <1>2, <1>6
    <2>2. m \in T /\ m \in 1..n /\ i <= m /\ L[m][1] = id
      BY <1>2, <1>3, <2>1
    <2>3. m = i
      BY <1>6, <2>2
    <2> QED
      BY <1>6, <2>1, <2>3
  <1> QED
    <2>1. Succeeded(id) <=>
            \E i \in 1..n : L[i] = <<id, "response">> /\ \A j \in 1..n : j > i => L[j][1] # id
      <3> HIDE DEF n
      <3> QED
        BY <1>4, <1>5, <1>6
    <2>2. DOMAIN remote.lines = 1..n /\ L = remote.lines
      BY <1>1 DEF L
    <2> HIDE DEF n
    <2> QED
      BY <2>1, <2>2

\* collectBatchResults: the counts are those of the results.
LEMMA CollectIsTrue ==
  ASSUME BatchInv, Collect, UNCHANGED <<batched, remote>>
  PROVE  Collected'
  <1> DEFINE good == {i \in DOMAIN batched : Succeeded(batched[i].id)}
             ids == {id \in BatchedIds : Succeeded(id)}
             n == Len(batched)
  <1>1. batched \in Seq(BatchedRequests) /\ OneEach /\ remote \in Remotes /\ n \in Nat /\ DOMAIN batched = 1..n
    <2>1. batched \in Seq(BatchedRequests) /\ OneEach /\ remote \in Remotes
      BY DEF BatchInv
    <2> QED
      BY <2>1
  <1>2. /\ lineResults' = [id \in BatchedIds |-> Succeeded(id)] /\ successes' = Cardinality(good)
        /\ failures' = Cardinality(DOMAIN batched \ good) /\ totalUsage' = 2 * Cardinality(good)
    BY DEF Collect
  <1>3. BatchedIds' = BatchedIds
    BY DEF BatchedIds
  <1>4. IsFiniteSet(1..n) /\ Cardinality(1..n) = n
    BY <1>1, FS_Interval
  <1>5. good \in SUBSET (1..n)
    BY <1>1
  <1>6. IsFiniteSet(good) /\ Cardinality(good) \in Nat
    <2> HIDE DEF good
    <2> QED
      BY <1>4, <1>5, FS_Subset, FS_CardinalityType
  <1>7. Cardinality(ids) = Cardinality(good)
    <2> DEFINE f == [i \in good |-> batched[i].id]
    <2>1. f \in [good -> ids]
      BY DEF BatchedIds
    <2>2. ASSUME NEW i \in good, NEW j \in good, f[i] = f[j] PROVE i = j
      BY <1>1, <2>2 DEF OneEach
    <2>3. ASSUME NEW id \in ids PROVE \E i \in good : f[i] = id
      BY DEF BatchedIds
    <2> HIDE DEF f, good, ids
    <2>4. f \in Bijection(good, ids)
      BY <2>1, <2>2, <2>3 DEF Bijection, Injection, Surjection, IsInjective
    <2>5. ExistsBijection(good, ids)
      BY <2>4 DEF ExistsBijection
    <2> QED
      BY <1>6, <2>5, FS_Bijection
  <1>8. Cardinality(1..n \ good) = n - Cardinality(good)
    <2> HIDE DEF good
    <2>1. Cardinality((1..n) \ good) = Cardinality(1..n) - Cardinality((1..n) \cap good)
      BY <1>4, <1>6, FS_Difference
    <2>2. (1..n) \cap good = good
      BY <1>5
    <2> QED
      BY <2>1, <2>2, <1>4
  <1>9. {id \in DOMAIN lineResults' : lineResults'[id]} = ids
    <2>1. DOMAIN lineResults' = BatchedIds /\ \A id \in BatchedIds : lineResults'[id] <=> Succeeded(id)
      BY <1>2 DEF Succeeded
    <2> QED
      BY <2>1
  <1>10. ASSUME NEW id \in BatchedIds
         PROVE  lineResults'[id] <=>
                  \E i \in DOMAIN remote.lines :
                     remote.lines[i] = <<id, "response">> /\ \A j \in DOMAIN remote.lines :
                         j > i => remote.lines[j][1] # id
    BY <1>1, <1>2, SucceededIsTold
  <1> HIDE DEF good, ids
  <1> QED
    <2>1. DOMAIN lineResults' = BatchedIds' /\ DOMAIN lineResults' = BatchedIds
      BY <1>2, <1>3
    <2>2. successes' + failures' = Len(batched')
      BY <1>1, <1>2, <1>6, <1>8
    <2>3. successes' = Cardinality({id \in DOMAIN lineResults' : lineResults'[id]}) /\ totalUsage' = 2 * successes'
      BY <1>2, <1>7, <1>9
    <2> QED
      BY <2>1, <2>2, <2>3, <1>10 DEF Collected

LEMMA OneMore ==
  ASSUME BatchInv, NEW new \in BatchedRequests, jobPhase = "building", batched' = Append(batched, new),
         UNCHANGED <<jobPhase, remote, batchNow, wake, pollInterval>>,
         \A i \in DOMAIN batched : batched[i].id # new.id
  PROVE  BatchInv'
  <1> DEFINE n == Len(batched)
  <1>1. batched \in Seq(BatchedRequests) /\ OneEach /\ remote.state = ""
    BY DEF BatchInv
  <1>3. /\ n \in Nat /\ DOMAIN batched = 1..n
        /\ batched' \in Seq(BatchedRequests) /\ Len(batched') = n + 1 /\ DOMAIN batched' = 1..(n + 1)
        /\ batched'[n + 1] = new /\ \A i \in 1..n : batched'[i] = batched[i]
    <2>1. n \in Nat /\ DOMAIN batched = 1..n
      BY <1>1, LenProperties
    <2>2. /\ batched' \in Seq(BatchedRequests) /\ Len(batched') = n + 1 /\ batched'[n + 1] = new
          /\ \A i \in 1..n : batched'[i] = batched[i]
      <3>1. \A s \in Seq(BatchedRequests) :
              /\ Append(s, new) \in Seq(BatchedRequests) /\ Len(Append(s, new)) = Len(s) + 1
              /\ Append(s, new)[Len(s) + 1] = new /\ \A i \in 1..Len(s) : Append(s, new)[i] = s[i]
        BY AppendProperties
      <3> QED
        BY <1>1, <3>1, Zenon
    <2>3. DOMAIN batched' = 1..(n + 1)
      <3>1. DOMAIN batched' = 1..Len(batched')
        BY <2>2
      <3> QED
        BY <2>2, <3>1
    <2> QED
      BY <2>1, <2>2, <2>3
  <1>4. OneEach'
    <2>1. ASSUME NEW i \in 1..(n + 1), NEW j \in 1..(n + 1), i # j PROVE batched'[i].id # batched'[j].id
      <3>1. CASE i \in 1..n /\ j \in 1..n
        BY <1>1, <1>3, <2>1, <3>1 DEF OneEach
      <3>2. CASE i = n + 1 /\ j \in 1..n
        BY <1>3, <3>2
      <3>3. CASE i \in 1..n /\ j = n + 1
        BY <1>3, <3>3
      <3>4. n \in Nat
        BY <1>3
      <3>5. (i \in 1..n \/ i = n + 1) /\ (j \in 1..n \/ j = n + 1)
        <4> HIDE DEF n
        <4> QED
          BY <3>4
      <3> QED
        BY <2>1, <3>1, <3>2, <3>3, <3>5
    <2> QED
      BY <1>3, <2>1 DEF OneEach
  <1> QED
    BY <1>1, <1>3, <1>4 DEF BatchInv

LEMMA AddKeepsBatch ==
  ASSUME BatchInv, NEW id \in CustomIds, NEW model \in {"", "other"}, NEW text \in BOOLEAN, Add(id, model, text)
  PROVE  BatchInv'
  <1> DEFINE new == [id |-> id, model |-> model, text |-> text]
  <1>1. new \in BatchedRequests /\ new.id = id
    BY DEF BatchedRequests
  <1>2. /\ jobPhase = "building" /\ batched' = Append(batched, new)
        /\ UNCHANGED <<jobPhase, remote, batchNow, wake, pollInterval>> /\ \A i \in DOMAIN batched : batched[i].id # id
    BY DEF Add
  <1> HIDE DEF new
  <1> QED
    BY <1>1, <1>2, OneMore

\* Nothing that was collected changes while the batch stays as it is.
LEMMA BatchStands ==
  ASSUME BatchInv, UNCHANGED batched, remote' \in Remotes,
         remote'.state # "" => remote.state # "" \/ Submittable,
         jobPhase' = "building" => jobPhase = "building" /\ remote' = remote,
         batchNow' \in Nat, wake' \in Nat, pollInterval' \in 1..MaxInterval, wake' <= batchNow' + Furthest,
         jobPhase' = "missing" => batchNow' >= Grace, jobPhase' = "done" => Collected'
  PROVE  BatchInv'
  <1>1. OneEach' /\ (Submittable => Submittable')
    BY DEF BatchInv, OneEach, Submittable, Resolved
  <1> QED
    BY <1>1 DEF BatchInv

LEMMA SubmitKeepsBatch ==
  ASSUME BatchInv, SubmitBatch
  PROVE  BatchInv'
  <1>1. remote \in Remotes /\ jobPhase' \in {"waiting", "error", "refused"}
        /\ UNCHANGED <<batched, batchNow, wake, pollInterval>>
        /\ (remote' = remote \/ (Submittable /\ remote' = [remote EXCEPT !.state = "validating"]))
    BY DEF BatchInv, SubmitBatch
  <1>2. remote' \in Remotes /\ (remote'.state # "" => remote.state # "" \/ Submittable)
    BY <1>1 DEF Remotes
  <1> QED
    BY <1>1, <1>2, BatchStands DEF BatchInv

LEMMA ServiceKeepsBatch ==
  ASSUME BatchInv, Land \/ Finish \/ Purge
  PROVE  BatchInv'
  <1>1. jobPhase = "waiting" /\ UNCHANGED <<batched, jobPhase, batchNow, wake, pollInterval>> /\ remote \in Remotes
    BY DEF BatchInv, Land, Finish, Purge
  <1>2. CASE Land
    <2>1. remote' \in Remotes /\ remote'.state = remote.state
      BY <1>1, <1>2 DEF Land, Remotes
    <2> QED
      BY <1>1, <2>1, BatchStands DEF BatchInv
  <1>3. CASE Finish
    <2>1. remote.state = "validating"
      BY <1>3 DEF Finish
    <2>2. ASSUME NEW n \in 0..Len(batched), NEW ids \in [1..n -> BatchedIds], NEW kinds \in [1..n -> LineKinds],
                 remote' = [remote EXCEPT !.state = "completed", !.lines = [i \in 1..n |-> <<ids[i], kinds[i]>>]]
          PROVE  remote' \in Remotes
      <3> DEFINE lines == [i \in 1..n |-> <<ids[i], kinds[i]>>]
      <3>1. batched \in Seq(BatchedRequests)
        BY DEF BatchInv
      <3>2. n \in Nat
        BY <3>1
      <3>3. BatchedIds \subseteq CustomIds
        <4>1. \A i \in DOMAIN batched : batched[i] \in BatchedRequests
          BY <3>1
        <4>2. \A i \in DOMAIN batched : batched[i].id \in CustomIds
          BY <4>1 DEF BatchedRequests
        <4> QED
          BY <4>2 DEF BatchedIds
      <3>4. \A i \in 1..n : <<ids[i], kinds[i]>> \in Lines
        BY <3>3 DEF Lines
      <3>5. lines \in [1..n -> Lines]
        BY <3>4
      <3>6. lines \in Seq(Lines)
        <4> HIDE DEF lines
        <4> QED
          BY <3>2, <3>5
      <3>7. remote' = [remote EXCEPT !.state = "completed", !.lines = lines]
        BY <2>2
      <3> HIDE DEF lines
      <3> QED
        BY <1>1, <3>6, <3>7 DEF Remotes
    <2>3. ASSUME remote' = [remote EXCEPT !.state = "failed"] PROVE remote' \in Remotes
      BY <1>1, <2>3 DEF Remotes
    <2>4. remote' \in Remotes
      BY <1>3, <2>2, <2>3 DEF Finish
    <2> QED
      BY <1>1, <2>1, <2>4, BatchStands DEF BatchInv
  <1>4. CASE Purge
    <2>1. remote' \in Remotes /\ remote.state # ""
      <3>1. <<>> \in Seq(Lines)
        OBVIOUS
      <3> QED
        BY <1>4, <3>1 DEF Purge, Remotes, BatchTerminal
    <2> QED
      BY <1>1, <2>1, BatchStands DEF BatchInv
  <1> QED
    BY <1>2, <1>3, <1>4

LEMMA TickKeepsBatch ==
  ASSUME BatchInv, BatchTick \/ LeaveBatch
  PROVE  BatchInv'
  <1>1. /\ UNCHANGED <<batched, remote, wake, pollInterval>> /\ jobPhase' \in {"waiting", "left"}
        /\ batchNow' \in {batchNow, batchNow + 1}
    BY DEF BatchTick, LeaveBatch
  <1>2. batchNow \in Nat /\ wake \in Nat /\ wake <= batchNow + Furthest /\ Furthest \in Nat
    BY FurthestIsNatural DEF BatchInv
  <1>3. batchNow' \in Nat /\ wake' <= batchNow' + Furthest
    <2>1. CASE batchNow' = batchNow
      BY <1>1, <1>2, <2>1
    <2>2. CASE batchNow' = batchNow + 1
      BY <1>1, <1>2, <2>2
    <2> QED
      BY <1>1, <2>1, <2>2
  <1> QED
    BY <1>1, <1>2, <1>3, BatchStands DEF BatchInv

LEMMA PollKeepsBatch ==
  ASSUME BatchInv, Poll
  PROVE  BatchInv'
  <1>1. /\ UNCHANGED <<batched, remote, batchNow>> /\ remote \in Remotes /\ jobPhase = "waiting"
        /\ batchNow \in Nat /\ wake \in Nat /\ pollInterval \in 1..MaxInterval /\ wake <= batchNow + Furthest
        /\ MaxInterval \in Nat /\ Grace \in Nat /\ Furthest \in Nat
    BY NativeBatchAssumption, FurthestIsNatural DEF BatchInv, Poll
  <1>2. ASSUME SleepsFor(pollInterval) PROVE wake' \in Nat /\ wake' <= batchNow' + Furthest
    <2>1. PICK pause \in Spread(pollInterval) : wake' = batchNow + pause
      BY <1>2 DEF SleepsFor
    <2>2. pause \in Nat /\ pause <= Furthest
      BY <1>1, JitterIsBounded
    <2> QED
      BY <1>1, <2>1, <2>2
  <1>3. CASE Unreadable
    <2>1. /\ pollInterval' = pollInterval /\ jobPhase' \in {"waiting", "missing"}
          /\ wake' = wake \/ SleepsFor(pollInterval)
          /\ jobPhase' = "missing" => ~(batchNow < Grace)
      BY <1>1, <1>3 DEF Unreadable
    <2>2. wake' \in Nat /\ wake' <= batchNow' + Furthest /\ (jobPhase' = "missing" => batchNow' >= Grace)
      BY <1>1, <1>2, <2>1
    <2> QED
      BY <1>1, <2>1, <2>2, BatchStands
  <1>4. CASE ReadFails
    BY <1>1, <1>4, BatchStands DEF ReadFails
  <1>5. CASE Unfinished
    <2>1. /\ jobPhase' = "waiting" /\ SleepsFor(pollInterval)
          /\ pollInterval' = (IF pollInterval * 2 < MaxInterval THEN pollInterval * 2 ELSE MaxInterval)
      BY <1>1, <1>5 DEF Unfinished
    <2>2. pollInterval' \in 1..MaxInterval
      BY <1>1, <2>1
    <2> QED
      BY <1>1, <1>2, <2>1, <2>2, BatchStands
  <1>6. CASE Finished
    <2>1. UNCHANGED <<wake, pollInterval>> /\ jobPhase' \in {"done", "failed"} /\ (jobPhase' = "done" => Collect)
      BY <1>6 DEF Finished
    <2>2. jobPhase' = "done" => Collected'
      BY <1>1, <2>1, CollectIsTrue
    <2> QED
      BY <1>1, <2>1, <2>2, BatchStands
  <1> QED
    BY <1>3, <1>4, <1>5, <1>6 DEF Poll

LEMMA InitBatch == BatchInit => BatchInv
  <1> SUFFICES ASSUME BatchInit PROVE BatchInv
    OBVIOUS
  <1>1. batched = <<>> /\ <<>> \in Seq(BatchedRequests) /\ <<>> \in Seq(Lines) /\ DOMAIN <<>> = {}
    <2>1. <<>> \in Seq(BatchedRequests) /\ <<>> \in Seq(Lines) /\ DOMAIN <<>> = {}
      OBVIOUS
    <2> QED
      BY <2>1 DEF BatchInit
  <1>2. remote \in Remotes /\ remote.state = ""
    BY <1>1 DEF BatchInit, Remotes
  <1>3. \A asked \in AskedIntervals : StartInterval(asked) \in 1..MaxInterval
    BY NativeBatchAssumption DEF StartInterval
  <1> QED
    <2>1. batchNow = 0 /\ wake = 0 /\ pollInterval \in 1..MaxInterval /\ jobPhase = "building"
      BY <1>3 DEF BatchInit
    <2>2. batchNow \in Nat /\ wake \in Nat /\ wake <= batchNow + Furthest
      BY <2>1, FurthestIsNatural
    <2>3. OneEach
      BY <1>1 DEF OneEach
    <2> QED
      BY <1>1, <1>2, <2>1, <2>2, <2>3 DEF BatchInv

LEMMA NextKeepsBatch == BatchInv /\ [BatchNext]_batchVars => BatchInv'
  <1> SUFFICES ASSUME BatchInv, [BatchNext]_batchVars PROVE BatchInv'
    OBVIOUS
  <1>1. CASE UNCHANGED batchVars
    <2>1. UNCHANGED <<batched, jobPhase, remote, batchNow, wake, pollInterval, lineResults, successes, failures, totalUsage>>
      BY <1>1 DEF batchVars
    <2>2. Collected => Collected'
      <3>1. BatchedIds' = BatchedIds
        BY <2>1 DEF BatchedIds
      <3> QED
        BY <2>1, <3>1 DEF Collected
    <2> QED
      BY <2>1, <2>2, BatchStands DEF BatchInv
  <1> QED
    BY <1>1, AddKeepsBatch, SubmitKeepsBatch, ServiceKeepsBatch, TickKeepsBatch, PollKeepsBatch DEF BatchNext

\* A batch of any size, whatever lines the service returns for it and in whatever order: one
\* result for each request, the counts and the usage those of the results; two models or
\* images are never queued, a batch is not missing within the grace, and whatever interval the
\* caller asks for the next poll is at most the longest interval and a tenth of it away.
THEOREM BatchIsAlwaysAnswered == BatchSpec => []BatchIsAnswered
  <1>1. BatchInv => BatchIsAnswered
    <2> SUFFICES ASSUME BatchInv PROVE BatchIsAnswered
      OBVIOUS
    <2>1. ASSUME remote.state # "", NEW i \in DOMAIN batched, NEW j \in DOMAIN batched
          PROVE  batched[i].text /\ (i # j => batched[i].id # batched[j].id /\ Resolved(batched[i]) = Resolved(batched[j]))
      BY <2>1 DEF BatchInv, OneEach, Submittable
    <2>2. wake <= batchNow + MaxInterval + MaxInterval \div 10
      <3> DEFINE tenth == MaxInterval \div 10
      <3>1. tenth \in Nat /\ MaxInterval \in Nat
        BY NativeBatchAssumption
      <3>2. wake \in Nat /\ batchNow \in Nat /\ wake <= batchNow + (MaxInterval + tenth)
        BY DEF BatchInv, Furthest
      <3> HIDE DEF tenth
      <3>3. wake <= batchNow + MaxInterval + tenth
        BY <3>1, <3>2
      <3> QED
        BY <3>3 DEF tenth
    <2> QED
      BY <2>1, <2>2 DEF BatchInv, BatchIsAnswered, Collected
  <1> QED
    BY <1>1, InitBatch, NextKeepsBatch, PTL DEF BatchSpec

-----------------------------------------------------------------------------
(* Embeddings and rankings.                                                *)

\* An order of n things leaves none of them out.
LEMMA OrderIsOnto ==
    ASSUME NEW n \in Nat, NEW p \in SetToSeqs(1..n)
    PROVE  p \in [1..n -> 1..n] /\ \A k \in 1..n : \E i \in 1..n : p[i] = k
  <1>1. IsFiniteSet(1..n) /\ Cardinality(1..n) = n
    BY FS_Interval
  <1>2. /\ p \in [1..n -> 1..n]
        /\ \A i, j \in 1..n : i # j => p[i] # p[j]
    BY <1>1 DEF SetToSeqs
  <1>3. ASSUME NEW k \in 1..n, ~ \E i \in 1..n : p[i] = k PROVE FALSE
    <2>1. p \in [1..n -> (1..n) \ {k}]
      BY <1>2, <1>3
    <2>2. /\ IsFiniteSet((1..n) \ {k})
          /\ Cardinality((1..n) \ {k}) = n - 1
      BY <1>1, FS_RemoveElement
    <2>3. Cardinality((1..n) \ {k}) < Cardinality(1..n)
      BY <1>1, <2>2
    <2>4. \E x, y \in 1..n : x # y /\ p[x] = p[y]
      BY <1>1, <2>1, <2>2, <2>3, FS_PigeonHole
    <2> QED
      BY <1>2, <2>4
  <1> QED
    BY <1>2, <1>3

\* What is sorted pair by pair is sorted.
LEMMA SortedThroughout ==
    ASSUME NEW n \in Nat, NEW f \in [1..n -> Int],
           \A i \in 1..n - 1 : f[i] >= f[i + 1],
           NEW i \in 1..n, NEW j \in 1..n, i < j
    PROVE  f[i] >= f[j]
  <1> DEFINE T == {k \in 1..n : i < k /\ ~(f[i] >= f[k])}
  <1> SUFFICES ASSUME T # {} PROVE FALSE
    OBVIOUS
  <1>1. T \in SUBSET Nat
    OBVIOUS
  <1>2. PICK k \in T : \A m \in T : k <= m
    BY <1>1, LeastOne
  <1>3. k \in 1..n /\ i < k /\ ~(f[i] >= f[k])
    BY <1>2
  <1>4. k - 1 \in 1..n - 1 /\ (k - 1) + 1 = k /\ k - 1 \in 1..n /\ ~(k <= k - 1)
    BY <1>3
  <1>5. f[k - 1] >= f[k]
    BY <1>4
  <1>6. CASE k - 1 = i
    BY <1>3, <1>5, <1>6
  <1>7. CASE k - 1 # i
    <2>1. k - 1 \notin T
      BY <1>2, <1>4
    <2>2. f[i] >= f[k - 1]
      BY <2>1, <1>3, <1>4, <1>7
    <2>3. f[i] \in Int /\ f[k] \in Int /\ f[k - 1] \in Int
      BY <1>3, <1>4
    <2> QED
      BY <2>2, <2>3, <1>5, <1>3
  <1> QED
    BY <1>6, <1>7

Urls == {"chat", "embed", "other"}
Quests ==
    [provider : Embedders, op : {"embed", "query", "documents", "rerank"}, texts : Texts,
     encoding : {"", "base64"}, tasks : TaskLists, model : {"", "asked"}, default : {"", "default"}]

QuestOK == quest \in Quests /\ (quest.op = "query" => Len(quest.texts) = 1)
RoutesOK ==
    /\ routes = [url |-> routes.url, told |-> routes.told]
    /\ routes.url \in [Hubs -> Urls] /\ routes.told = routes.url

\* What is posted is the call.
PostedOK ==
    \/ posted = NoAnswer /\ listed = NoAnswer
    \/ /\ posted.is = "posted" /\ posted.texts = quest.texts /\ quest.texts # <<>>
       /\ quest.provider = "compat" => posted.route = routes.told["first"]

\* What data of n items lists is what was asked about, each once, in some order.
Lists(q, data, n, order) ==
    /\ order \in [1..n -> 1..n] /\ \A k \in 1..n : \E i \in 1..n : order[i] = k
    /\ q.provider = "gemini" => \A i \in 1..n : order[i] = i
    /\ data \in [1..n -> [index : Int, score : Int, vector : Int]]
    /\ \A i \in 1..n : data[i].index = order[i] /\ data[i].vector = q.texts[order[i]]

ListedOK ==
    \/ listed = NoAnswer \/ listed = [is |-> "error"]
    \/ /\ listed.is = "answer"
       /\ \E n \in {Len(quest.texts), Len(quest.texts) - 1} :
             n \in Nat /\ \E order \in [1..n -> 1..n] : Lists(quest, listed.data, n, order)

EmbedInv ==
    /\ QuestOK /\ RoutesOK /\ PostedOK /\ ListedOK /\ EmbeddingsMatch
    /\ GivenItems => listed # NoAnswer
    /\ outcome # NoAnswer => outcome.is \in {"failed", "given"}

LEMMA TextsAreNumbers ==
    ASSUME NEW t \in Texts
    PROVE  Len(t) \in Nat /\ DOMAIN t = 1..Len(t) /\ t \in [1..Len(t) -> Int] /\ t \in Seq(Int)
  <1>1. PICK n \in 0..MaxTexts : \E hole \in 0..n : t = [i \in 1..n |-> IF i = hole THEN 0 ELSE i]
    BY DEF Texts
  <1>2. n \in Nat
    BY EmbedAssumption
  <1>3. t \in [1..n -> Int]
    BY <1>1, <1>2
  <1>4. t \in Seq(Int)
    BY <1>2, <1>3
  <1>5. Len(t) = n
    BY <1>2, <1>3, <1>4
  <1> QED
    BY <1>2, <1>3, <1>4, <1>5

LEMMA AppendedIsLast ==
    ASSUME NEW T, NEW t \in Seq(T), NEW d \in T
    PROVE  Append(t, d) # <<>> /\ Last(Append(t, d)) = d
  <1>1. /\ Len(t) \in Nat /\ Append(t, d) \in Seq(T) /\ Len(Append(t, d)) = Len(t) + 1
        /\ Append(t, d)[Len(t) + 1] = d
    BY AppendProperties
  <1> QED
    BY <1>1 DEF Last

\* The task of the caller's options is left alone, and one is put where there is none.
LEMMA WithDefaultOfTasks ==
    ASSUME NEW tasks \in TaskLists
    PROVE  TaskOf(WithDefault(tasks)) =
             IF TaskOf(tasks) # "" THEN TaskOf(tasks)
             ELSE IF quest.op = "query" THEN "RETRIEVAL_QUERY"
             ELSE IF quest.op = "documents" THEN "RETRIEVAL_DOCUMENT" ELSE ""
  <1> DEFINE Tasks == {"", "CLUSTERING", "RETRIEVAL_QUERY", "RETRIEVAL_DOCUMENT"}
  <1>1. tasks \in Seq(Tasks)
    <2>1. ASSUME NEW T, NEW a \in T, NEW b \in T
          PROVE  <<>> \in Seq(T) /\ <<a>> \in Seq(T) /\ <<a, b>> \in Seq(T)
      OBVIOUS
    <2>2. "" \in Tasks /\ "CLUSTERING" \in Tasks
      BY Zenon
    <2> HIDE DEF Tasks
    <2>3. <<>> \in Seq(Tasks) /\ <<"CLUSTERING">> \in Seq(Tasks) /\ <<"CLUSTERING", "">> \in Seq(Tasks)
      BY <2>1, <2>2, Zenon
    <2> QED
      BY <2>3, Zenon DEF TaskLists
  <1>2. "RETRIEVAL_QUERY" \in Tasks /\ "RETRIEVAL_DOCUMENT" \in Tasks
    BY Zenon
  <1> HIDE DEF Tasks
  <1>3. ASSUME NEW d \in Tasks PROVE TaskOf(Append(tasks, d)) = d
    BY <1>1, AppendedIsLast, Zenon DEF TaskOf
  <1>4. DefaultTask["query"] = "RETRIEVAL_QUERY" /\ DefaultTask["documents"] = "RETRIEVAL_DOCUMENT"
    BY DEF DefaultTask
  <1>5. CASE quest.op = "query"
    BY <1>2, <1>3, <1>5, <1>4, Zenon DEF WithDefault
  <1>6. CASE quest.op = "documents"
    BY <1>2, <1>3, <1>6, <1>4, Zenon DEF WithDefault
  <1>7. CASE quest.op \notin {"query", "documents"}
    BY <1>7, Zenon DEF WithDefault
  <1> QED
    BY <1>5, <1>6, <1>7, Zenon

LEMMA EmbedInvInit == EmbedInit => EmbedInv
  <1> SUFFICES ASSUME EmbedInit PROVE EmbedInv
    OBVIOUS
  <1>1. PICK url \in {"chat", "embed"}, provider \in Embedders, texts \in Texts, encoding \in {"", "base64"},
             tasks \in TaskLists, model \in {"", "asked"}, default \in {"", "default"} :
             \E op \in Operations(provider) :
                 /\ op = "query" => Len(texts) = 1
                 /\ tasks # <<>> => provider = "gemini"
                 /\ encoding # "" => op # "rerank"
                 /\ default = "" => provider \notin {"infinity", "runpod"}
                 /\ url # "chat" => provider = "compat"
                 /\ EmbedStarts(url, provider, op, texts, encoding, tasks, model, default)
    BY DEF EmbedInit
  <1>2. PICK op \in {"embed", "query", "documents", "rerank"} :
             (op = "query" => Len(texts) = 1) /\ EmbedStarts(url, provider, op, texts, encoding, tasks, model, default)
    BY <1>1 DEF Operations
  <1>3. QuestOK
    BY <1>2 DEF EmbedStarts, QuestOK, Quests
  <1>4. {Cell[h] : h \in Hubs} = Hubs
    BY DEF Cell
  <1>5. RoutesOK
    BY <1>2, <1>4 DEF EmbedStarts, RoutesOK, Urls
  <1>6. posted = NoAnswer /\ listed = NoAnswer /\ outcome = NoAnswer
    BY <1>2 DEF EmbedStarts
  <1> QED
    BY <1>3, <1>5, <1>6
    DEF EmbedInv, PostedOK, ListedOK, EmbeddingsMatch, VectorsKeepTheirText, NoVectorIsMissing, RankingIsSorted,
        OnlyResultsCount, RouteIsOwn, TaskIsAsAsked, GivenItems, NoAnswer

LEMMA SetKeepsEmbedInv ==
    ASSUME EmbedInv, NEW hub \in Hubs, NEW url \in {"", "other"}, SetEmbeddingBaseURL(hub, url)
    PROVE  EmbedInv'
  <1> DEFINE u == IF url = "" THEN "chat" ELSE url
  <1>1. u \in Urls
    BY DEF Urls
  <1>2. RoutesOK'
    <2>1. Cell[hub] = hub
      BY DEF Cell
    <2>2. routes' = [url |-> [routes.url EXCEPT ![hub] = u], told |-> [routes.told EXCEPT ![hub] = u]]
      BY <2>1 DEF SetEmbeddingBaseURL
    <2> QED
      BY <1>1, <2>2 DEF EmbedInv, RoutesOK
  <1>3. UNCHANGED <<quest, posted, listed, outcome>> /\ posted = NoAnswer /\ outcome = NoAnswer
    BY DEF SetEmbeddingBaseURL
  <1>4. QuestOK' /\ PostedOK' /\ RouteIsOwn' /\ TaskIsAsAsked'
    BY <1>3 DEF EmbedInv, QuestOK, PostedOK, RouteIsOwn, TaskIsAsAsked, NoAnswer
  <1>5. ListedOK'
    BY <1>3 DEF EmbedInv, PostedOK, ListedOK, NoAnswer
  <1>6. ~GivenItems'
    BY <1>3 DEF GivenItems, NoAnswer
  <1> QED
    BY <1>2, <1>3, <1>4, <1>5, <1>6
    DEF EmbedInv, EmbeddingsMatch, VectorsKeepTheirText, NoVectorIsMissing, RankingIsSorted, OnlyResultsCount

LEMMA EmbedKeepsEmbedInv == ASSUME EmbedInv, Embed PROVE EmbedInv'
  <1>1. UNCHANGED <<routes, quest, listed>> /\ posted = NoAnswer /\ outcome = NoAnswer
    BY DEF Embed
  <1>2. \/ \E err \in {"ErrEmptyInput", "ErrEmbeddingModelRequired"} : outcome' = Failed(err) /\ posted' = posted
        \/ outcome' = outcome /\ posted' = GeminiRequest /\ quest.provider = "gemini"
        \/ outcome' = outcome /\ posted' = CompatibleRequest /\ quest.provider # "gemini"
    BY DEF Embed
  <1>3. outcome'.is # "given" /\ (outcome' # NoAnswer => outcome'.is \in {"failed", "given"})
    BY <1>1, <1>2 DEF Failed, NoAnswer
  <1>0. listed = NoAnswer /\ (posted' # posted => quest.texts # <<>>)
    <2>1. listed = NoAnswer
      BY <1>1 DEF EmbedInv, PostedOK, NoAnswer
    <2>2. posted' # posted => Valid
      BY DEF Embed
    <2> QED
      BY <2>1, <2>2 DEF Valid, ValidateEmbedInput
  <1>4. PostedOK' /\ RouteIsOwn' /\ TaskIsAsAsked'
    <2>1. CASE posted' = posted
      BY <2>1, <1>0, <1>1 DEF PostedOK, RouteIsOwn, TaskIsAsAsked
    <2>2. CASE posted' = GeminiRequest /\ quest.provider = "gemini"
      <3>1. TaskIsAsAsked'
        BY <1>1, <2>2, WithDefaultOfTasks DEF EmbedInv, QuestOK, Quests, TaskIsAsAsked, GeminiRequest, Request, Task
      <3> QED
        BY <2>2, <3>1, <1>0, <1>1 DEF PostedOK, RouteIsOwn, GeminiRequest, Request, NoAnswer
    <2>3. CASE posted' = CompatibleRequest /\ quest.provider # "gemini"
      <3>1. routes.url[Cell["first"]] = routes.told["first"]
        BY DEF EmbedInv, RoutesOK, Cell, Hubs
      <3> QED
        BY <2>3, <1>0, <1>1, <3>1 DEF PostedOK, RouteIsOwn, TaskIsAsAsked, CompatibleRequest, Request, NoAnswer
    <2> QED
      BY <1>2, <2>1, <2>2, <2>3
  <1>5. QuestOK' /\ RoutesOK'
    BY <1>1 DEF EmbedInv, QuestOK, RoutesOK
  <1>6. ListedOK'
    BY <1>1 DEF EmbedInv, PostedOK, ListedOK, NoAnswer
  <1>7. ~GivenItems'
    BY <1>3 DEF GivenItems
  <1> QED
    BY <1>1, <1>3, <1>4, <1>5, <1>6, <1>7
    DEF EmbedInv, EmbeddingsMatch, VectorsKeepTheirText, NoVectorIsMissing, RankingIsSorted, OnlyResultsCount

\* Whatever the service says, it speaks of what was asked.
LEMMA ServeKeepsEmbedInv == ASSUME EmbedInv, ServeTexts PROVE EmbedInv'
  <1>1. UNCHANGED <<routes, quest, posted, outcome>> /\ posted # NoAnswer /\ listed = NoAnswer
    BY DEF ServeTexts
  <1>2. /\ posted.texts = quest.texts /\ Len(quest.texts) \in Nat
        /\ quest.texts \in [1..Len(quest.texts) -> Int]
        /\ Len(quest.texts) # 0
    <2>1. posted.texts = quest.texts /\ quest.texts # <<>> /\ quest.texts \in Texts
      BY <1>1 DEF EmbedInv, PostedOK, QuestOK, Quests
    <2>2. /\ Len(quest.texts) \in Nat /\ quest.texts \in [1..Len(quest.texts) -> Int]
          /\ quest.texts \in Seq(Int)
      BY <2>1, TextsAreNumbers
    <2>3. Len(quest.texts) # 0
      BY <2>1, <2>2
    <2> QED
      BY <2>1, <2>2, <2>3
  <1>3. ListedOK'
    <2>1. CASE listed' = [is |-> "error"]
      BY <2>1 DEF ListedOK
    <2>2. ASSUME NEW n \in {Len(posted.texts), Len(posted.texts) - 1}, NEW job \in Jobs, NEW shape \in Shapes,
                 NEW form \in Forms, NEW order \in ListOrders(n),
                 NEW score \in [1..n -> IF quest.op = "rerank" THEN {1, 2} ELSE {0}],
                 listed' = [is |-> "answer", job |-> job, shape |-> shape, form |-> form,
                            data |-> [i \in 1..n |-> [index |-> order[i], score |-> score[order[i]],
                                                      vector |-> posted.texts[order[i]]]]]
          PROVE  ListedOK'
      <3> DEFINE data == [i \in 1..n |-> [index |-> order[i], score |-> score[order[i]],
                                          vector |-> posted.texts[order[i]]]]
      <3>1. n \in Nat /\ n \in {Len(quest.texts), Len(quest.texts) - 1} /\ n <= Len(quest.texts)
        BY <1>2
      <3>2. /\ order \in [1..n -> 1..n] /\ \A k \in 1..n : \E i \in 1..n : order[i] = k
            /\ quest.provider = "gemini" => \A i \in 1..n : order[i] = i
        <4>1. CASE quest.provider = "gemini"
          BY <4>1, <3>1 DEF ListOrders
        <4>2. CASE quest.provider # "gemini"
          BY <4>2, <3>1, OrderIsOnto DEF ListOrders
        <4> QED
          BY <4>1, <4>2
      <3>3. score \in [1..n -> Int]
        BY <3>1
      <3>4. data \in [1..n -> [index : Int, score : Int, vector : Int]]
        <4>1. ASSUME NEW i \in 1..n
              PROVE  order[i] \in Int /\ score[order[i]] \in Int /\ quest.texts[order[i]] \in Int
          <5>1. order[i] \in 1..n
            BY <3>2
          <5>2. order[i] \in 1..Len(quest.texts) /\ order[i] \in Int
            BY <3>1, <5>1, <1>2
          <5> QED
            BY <1>2, <3>3, <5>1, <5>2
        <4>2. \A i \in 1..n : [index |-> order[i], score |-> score[order[i]], vector |-> posted.texts[order[i]]]
                               \in [index : Int, score : Int, vector : Int]
          BY <1>2, <4>1
        <4> QED
          BY <4>2
      <3>5. \A i \in 1..n : data[i].index = order[i] /\ data[i].vector = quest.texts[order[i]]
        BY <1>2
      <3>6. listed'.is = "answer" /\ listed'.data = data
        BY <2>2
      <3> HIDE DEF data
      <3>7. Lists(quest, data, n, order)
        BY <1>1, <3>2, <3>4, <3>5 DEF Lists
      <3>8. quest' = quest
        BY <1>1
      <3> QED
        BY <3>1, <3>2, <3>6, <3>7, <3>8 DEF ListedOK
    <2> QED
      BY <1>1, <2>1, <2>2 DEF ServeTexts
  <1>4. QuestOK' /\ RoutesOK' /\ PostedOK' /\ RouteIsOwn' /\ TaskIsAsAsked'
    BY <1>1 DEF EmbedInv, QuestOK, RoutesOK, PostedOK, RouteIsOwn, EmbeddingsMatch, TaskIsAsAsked
  <1>5. ~GivenItems'
    BY <1>1 DEF EmbedInv, GivenItems
  <1> QED
    BY <1>1, <1>3, <1>4, <1>5
    DEF EmbedInv, EmbeddingsMatch, VectorsKeepTheirText, NoVectorIsMissing, RankingIsSorted, OnlyResultsCount

\* What the answer lists, converted: each vector under the index of its text.
LEMMA ConvertedAnswer ==
    ASSUME EmbedInv, listed.is = "answer"
    PROVE  \E n \in {Len(quest.texts), Len(quest.texts) - 1} : n \in Nat /\ \E order \in [1..n -> 1..n] :
             /\ Lists(quest, listed.data, n, order)
             /\ ConvertEmbeddingResponse =
                    [i \in 1..n |-> [index |-> order[i],
                                     vector |-> IF listed.form = "null" THEN 0 ELSE quest.texts[order[i]]]]
  <1>1. PICK n \in {Len(quest.texts), Len(quest.texts) - 1} :
            n \in Nat /\ \E order \in [1..n -> 1..n] : Lists(quest, listed.data, n, order)
    BY DEF EmbedInv, ListedOK, NoAnswer
  <1>2. PICK order \in [1..n -> 1..n] : Lists(quest, listed.data, n, order)
    BY <1>1
  <1>3. DOMAIN listed.data = 1..n
    BY <1>2 DEF Lists
  <1>4. ASSUME NEW i \in 1..n
        PROVE  /\ (IF quest.provider = "gemini" THEN i ELSE listed.data[i].index) = order[i]
               /\ Vector(listed.data[i]) = IF listed.form = "null" THEN 0 ELSE quest.texts[order[i]]
    BY <1>2 DEF Lists, Vector
  <1>5. ConvertEmbeddingResponse =
            [i \in 1..n |-> [index |-> order[i],
                             vector |-> IF listed.form = "null" THEN 0 ELSE quest.texts[order[i]]]]
    BY <1>3, <1>4 DEF ConvertEmbeddingResponse
  <1> QED
    BY <1>1, <1>2, <1>5

\* Vectors alone: one for each text, or the caller is told.
LEMMA VectorsAreAll ==
    ASSUME EmbedInv, listed.is = "answer", quest.op \in {"query", "documents"}, NEW items,
           \/ quest.op = "query" /\ Gives(items) = EmbedQuery(ConvertEmbeddingResponse)
           \/ quest.op = "documents" /\ Gives(items) = EmbedDocuments(ConvertEmbeddingResponse)
    PROVE  /\ Len(items) = Len(quest.texts)
           /\ listed.form # "null" => Range(items) = Range(quest.texts)
           /\ listed.form # "null" /\ InOrder => items = quest.texts
  <1>1. PICK n \in {Len(quest.texts), Len(quest.texts) - 1} : n \in Nat /\ \E order \in [1..n -> 1..n] :
             /\ Lists(quest, listed.data, n, order)
             /\ ConvertEmbeddingResponse =
                    [i \in 1..n |-> [index |-> order[i],
                                     vector |-> IF listed.form = "null" THEN 0 ELSE quest.texts[order[i]]]]
    BY ConvertedAnswer
  <1>2. PICK order \in [1..n -> 1..n] :
             /\ Lists(quest, listed.data, n, order)
             /\ ConvertEmbeddingResponse =
                    [i \in 1..n |-> [index |-> order[i],
                                     vector |-> IF listed.form = "null" THEN 0 ELSE quest.texts[order[i]]]]
    BY <1>1
  <1> DEFINE es == [i \in 1..n |-> [index |-> order[i],
                                   vector |-> IF listed.form = "null" THEN 0 ELSE quest.texts[order[i]]]]
             m == Len(quest.texts)
  <1>3. /\ m \in Nat /\ DOMAIN quest.texts = 1..m
        /\ quest.texts \in [1..m -> Int] /\ quest.texts \in Seq(Int)
    BY TextsAreNumbers DEF EmbedInv, QuestOK, Quests
  <1>4. es \in Seq([index : 1..n, vector : Int]) /\ Len(es) = n
    <2>1. \A i \in 1..n : order[i] \in 1..n
      OBVIOUS
    <2>2. n <= m
      BY <1>1, <1>3
    <2>3. ASSUME NEW i \in 1..n PROVE quest.texts[order[i]] \in Int
      <3>1. order[i] \in 1..m
        BY <1>3, <2>1, <2>2
      <3> QED
        BY <1>3, <3>1
    <2>4. \A i \in 1..n : es[i] \in [index : 1..n, vector : Int]
      BY <2>1, <2>3
    <2>5. es \in [1..n -> [index : 1..n, vector : Int]]
      BY <2>4
    <2>6. es \in Seq([index : 1..n, vector : Int])
      BY <1>1, <2>5
    <2> QED
      BY <1>1, <2>5, <2>6
  <1>5. n = m /\ items = [i \in 1..m |-> es[i].vector]
    <2>1. CASE quest.op = "query"
      <3>1. m = 1
        BY <2>1 DEF EmbedInv, QuestOK
      <3>2. es # <<>> /\ items = <<es[1].vector>>
        BY <2>1, <1>2 DEF EmbedQuery, Gives, Failed
      <3>3. n = 1
        BY <1>1, <1>4, <3>1, <3>2
      <3> QED
        BY <3>1, <3>2, <3>3
    <2>2. CASE quest.op = "documents"
      <3>1. Len(es) = m /\ items = [i \in DOMAIN es |-> es[i].vector]
        BY <2>2, <1>2 DEF EmbedDocuments, Gives, Failed
      <3>2. DOMAIN es = 1..n
        OBVIOUS
      <3> QED
        BY <1>4, <3>1, <3>2
    <2> QED
      BY <2>1, <2>2
  <1>6. items = [i \in 1..m |-> IF listed.form = "null" THEN 0 ELSE quest.texts[order[i]]]
    BY <1>5
  <1>7. Len(items) = m
    <2>1. \A i \in 1..m : (IF listed.form = "null" THEN 0 ELSE quest.texts[order[i]]) \in Int
      BY <1>3, <1>5
    <2>2. items \in Seq(Int)
      BY <1>3, <1>6, <2>1
    <2> QED
      BY <1>3, <1>6, <2>2, LenProperties
  <1>8. ASSUME listed.form # "null" PROVE Range(items) = Range(quest.texts)
    <2>1. items = [i \in 1..m |-> quest.texts[order[i]]]
      BY <1>6, <1>8
    <2>2. \A i \in 1..m : order[i] \in 1..m
      BY <1>5
    <2>3. \A k \in 1..m : \E i \in 1..m : order[i] = k
      BY <1>2, <1>5 DEF Lists
    <2>4. ASSUME NEW v \in Range(items) PROVE v \in Range(quest.texts)
      <3>1. PICK i \in 1..m : v = quest.texts[order[i]]
        BY <2>1 DEF Range
      <3>2. order[i] \in DOMAIN quest.texts
        BY <1>3, <2>2
      <3> QED
        BY <3>1, <3>2 DEF Range
    <2>5. ASSUME NEW v \in Range(quest.texts) PROVE v \in Range(items)
      <3>1. PICK k \in 1..m : v = quest.texts[k]
        BY <1>3 DEF Range
      <3>2. PICK i \in 1..m : order[i] = k
        BY <2>3
      <3>3. i \in DOMAIN items /\ items[i] = v
        BY <2>1, <3>1, <3>2
      <3> QED
        BY <3>3 DEF Range
    <2> QED
      BY <2>4, <2>5
  <1>9. ASSUME listed.form # "null", InOrder PROVE items = quest.texts
    <2>1. \A i \in 1..m : order[i] = i
      BY <1>2, <1>5, <1>9 DEF Lists, InOrder
    <2>2. items = [i \in 1..m |-> quest.texts[i]]
      BY <1>6, <1>9, <2>1
    <2> QED
      BY <1>3, <2>2
  <1> QED
    BY <1>7, <1>8, <1>9

\* A ranking is the service's, sorted.
LEMMA RankedWell ==
    ASSUME EmbedInv, listed.is = "answer", NEW results \in Sorted(listed.data)
    PROVE  /\ \A i, j \in DOMAIN results : i < j => results[i].score >= results[j].score
           /\ Range(results) = Range(listed.data) /\ Len(results) = Len(listed.data)
  <1> DEFINE Item == [index : Int, score : Int, vector : Int]
             data == listed.data
  <1>1. PICK n \in Nat : data \in [1..n -> Item]
    BY ConvertedAnswer DEF Lists
  <1>2. DOMAIN data = 1..n
    BY <1>1
  <1>3. PICK p \in SetToSeqs(1..n) : results = [i \in 1..n |-> data[p[i]]]
    BY <1>2 DEF Sorted
  <1>4. p \in [1..n -> 1..n] /\ \A k \in 1..n : \E i \in 1..n : p[i] = k
    BY OrderIsOnto
  <1>5. results \in [1..n -> Item]
    BY <1>1, <1>3, <1>4
  <1>6. results \in Seq(Item) /\ data \in Seq(Item) /\ Len(results) = n /\ Len(data) = n
    <2> HIDE DEF Item, data
    <2>1. results \in Seq(Item) /\ data \in Seq(Item)
      BY <1>1, <1>5
    <2> QED
      BY <1>1, <1>5, <2>1
  <1>7. ASSUME NEW i \in DOMAIN results, NEW j \in DOMAIN results, i < j
        PROVE  results[i].score >= results[j].score
    <2> DEFINE f == [k \in 1..n |-> results[k].score]
    <2>1. f \in [1..n -> Int]
      BY <1>5
    <2>2. \A k \in 1..n - 1 : results[k].score >= results[k + 1].score
      BY <1>6 DEF Sorted
    <2>3. \A k \in 1..n - 1 : k \in 1..n /\ k + 1 \in 1..n
      OBVIOUS
    <2>4. \A k \in 1..n - 1 : f[k] >= f[k + 1]
      BY <2>2, <2>3
    <2>5. i \in 1..n /\ j \in 1..n
      BY <1>5
    <2> HIDE DEF f
    <2>6. f[i] >= f[j]
      BY <1>7, <2>1, <2>4, <2>5, SortedThroughout
    <2> QED
      BY <2>5, <2>6 DEF f
  <1>8. Range(results) = Range(data)
    <2>1. ASSUME NEW v \in Range(results) PROVE v \in Range(data)
      <3>1. PICK i \in 1..n : v = data[p[i]]
        BY <1>3 DEF Range
      <3>2. p[i] \in DOMAIN data
        BY <1>2, <1>4
      <3> QED
        BY <3>1, <3>2 DEF Range
    <2>2. ASSUME NEW v \in Range(data) PROVE v \in Range(results)
      <3>1. PICK k \in 1..n : v = data[k]
        BY <1>2 DEF Range
      <3>2. PICK i \in 1..n : p[i] = k
        BY <1>4
      <3>3. i \in DOMAIN results /\ results[i] = v
        BY <1>3, <3>1, <3>2
      <3> QED
        BY <3>3 DEF Range
    <2> QED
      BY <2>1, <2>2
  <1> QED
    BY <1>6, <1>7, <1>8

LEMMA ReceiveKeepsEmbedInv == ASSUME EmbedInv, Receive PROVE EmbedInv'
  <1>1. UNCHANGED <<routes, quest, posted, listed>> /\ listed # NoAnswer /\ outcome = NoAnswer
    BY DEF Receive
  <1>2. QuestOK' /\ RoutesOK' /\ PostedOK' /\ RouteIsOwn' /\ TaskIsAsAsked'
    BY <1>1 DEF EmbedInv, QuestOK, RoutesOK, PostedOK, RouteIsOwn, EmbeddingsMatch, TaskIsAsAsked
  <1>3. ListedOK'
    BY <1>1 DEF EmbedInv, ListedOK
  <1>4. CASE \E err \in {"service", "job", "decode", "ErrIncompleteResponse"} : outcome' = Failed(err)
    <2>1. outcome'.is = "failed"
      BY <1>4 DEF Failed
    <2> QED
      BY <1>1, <1>2, <1>3, <2>1
      DEF EmbedInv, EmbeddingsMatch, VectorsKeepTheirText, NoVectorIsMissing, RankingIsSorted, OnlyResultsCount,
          GivenItems
  <1>5. ASSUME listed.is = "answer", Payload, NEW items, outcome' = Gives(items),
               \/ quest.op = "embed" /\ items = ConvertEmbeddingResponse
               \/ quest.op = "query" /\ Gives(items) = EmbedQuery(ConvertEmbeddingResponse)
               \/ quest.op = "documents" /\ Gives(items) = EmbedDocuments(ConvertEmbeddingResponse)
               \/ quest.op = "rerank" /\ items \in Sorted(listed.data)
        PROVE  EmbedInv'
    <2>1. outcome'.is = "given" /\ outcome'.items = items
      BY <1>5 DEF Gives
    <2>2. VectorsKeepTheirText'
      <3>1. ASSUME quest.op = "embed", NEW i \in DOMAIN items
            PROVE  items[i].vector \in {quest.texts[items[i].index], 0}
        BY <1>5, <3>1, ConvertedAnswer
      <3> QED
        BY <1>1, <2>1, <3>1 DEF VectorsKeepTheirText
    <2>3. NoVectorIsMissing'
      <3>1. ASSUME quest.op \in {"query", "documents"}
            PROVE  /\ Len(items) = Len(quest.texts)
                   /\ listed.form # "null" => Range(items) = Range(quest.texts)
                   /\ listed.form # "null" /\ InOrder => items = quest.texts
        BY <1>5, <3>1, VectorsAreAll
      <3> QED
        BY <1>1, <2>1, <3>1 DEF NoVectorIsMissing, InOrder
    <2>4. RankingIsSorted'
      <3>1. ASSUME quest.op = "rerank"
            PROVE  /\ \A i, j \in DOMAIN items : i < j => items[i].score >= items[j].score
                   /\ Range(items) = Range(listed.data) /\ Len(items) = Len(listed.data)
        BY <1>5, <3>1, RankedWell
      <3> QED
        BY <1>1, <2>1, <3>1 DEF RankingIsSorted
    <2>5. OnlyResultsCount'
      BY <1>1, <1>5 DEF OnlyResultsCount, Payload
    <2> QED
      BY <1>1, <1>2, <1>3, <2>1, <2>2, <2>3, <2>4, <2>5 DEF EmbedInv, EmbeddingsMatch
  <1>6. CASE listed.is = "answer" /\ Payload /\ Decodes(listed.form)
    <2>1. CASE quest.op = "embed"
      <3>1. outcome' = Gives(ConvertEmbeddingResponse)
        BY <1>6, <2>1 DEF Receive
      <3> QED
        BY <1>5, <1>6, <2>1, <3>1
    <2>2. CASE quest.op = "query"
      <3>1. outcome' = EmbedQuery(ConvertEmbeddingResponse)
        BY <1>6, <2>2 DEF Receive
      <3> QED
        BY <1>4, <1>5, <1>6, <2>2, <3>1 DEF EmbedQuery
    <2>3. CASE quest.op = "documents"
      <3>1. outcome' = EmbedDocuments(ConvertEmbeddingResponse)
        BY <1>6, <2>3 DEF Receive
      <3> QED
        BY <1>4, <1>5, <1>6, <2>3, <3>1 DEF EmbedDocuments
    <2>4. CASE quest.op = "rerank"
      <3>1. \E results \in Sorted(listed.data) : outcome' = Gives(results)
        BY <1>6, <2>4 DEF Receive
      <3> QED
        BY <1>5, <1>6, <2>4, <3>1
    <2>5. quest.op \in {"embed", "query", "documents", "rerank"}
      BY DEF EmbedInv, QuestOK, Quests
    <2> QED
      BY <2>1, <2>2, <2>3, <2>4, <2>5
  <1>7. \/ \E err \in {"service", "job", "decode"} : outcome' = Failed(err)
        \/ listed.is = "answer" /\ Payload /\ Decodes(listed.form)
    BY DEF Receive
  <1> QED
    BY <1>4, <1>6, <1>7

LEMMA EmbedInvNext == EmbedInv /\ [EmbedNext]_embedVars => EmbedInv'
  <1> SUFFICES ASSUME EmbedInv, [EmbedNext]_embedVars PROVE EmbedInv'
    OBVIOUS
  <1>1. CASE \E hub \in Hubs, url \in {"", "other"} : SetEmbeddingBaseURL(hub, url)
    BY <1>1, SetKeepsEmbedInv
  <1>2. CASE Embed
    BY <1>2, EmbedKeepsEmbedInv
  <1>3. CASE ServeTexts
    BY <1>3, ServeKeepsEmbedInv
  <1>4. CASE Receive
    BY <1>4, ReceiveKeepsEmbedInv
  <1>5. CASE UNCHANGED embedVars
    <2>1. UNCHANGED <<routes, quest, posted, listed, outcome>>
      BY <1>5 DEF embedVars
    <2> QED
      BY <2>1
      DEF EmbedInv, QuestOK, RoutesOK, PostedOK, ListedOK, EmbeddingsMatch, VectorsKeepTheirText, NoVectorIsMissing,
          RankingIsSorted, OnlyResultsCount, RouteIsOwn, TaskIsAsAsked, GivenItems, InOrder
  <1> QED
    BY <1>1, <1>2, <1>3, <1>4, <1>5 DEF EmbedNext

\* Whatever order a service lists its vectors in, and whatever it leaves out, each vector is
\* that of its own text, none is missing where only vectors are given, and a ranking is
\* sorted; for any number of texts, under the task that the options of the call leave and on the
\* route its provider was given.
THEOREM EmbeddingsAlwaysMatch == EmbedSpec => []EmbeddingsMatch
  <1>1. EmbedInv => EmbeddingsMatch
    BY DEF EmbedInv
  <1> QED
    BY <1>1, EmbedInvInit, EmbedInvNext, PTL DEF EmbedSpec
=============================================================================
