---------------------------- MODULE ClientProofs ----------------------------
(***************************************************************************)
(* Proofs about Client, for any number of threads, attempts and answers:   *)
(* the calls use the limiter as RateLimiter's threads do, so that what is  *)
(* proved of the limiter holds of all the traffic, retries included; what  *)
(* becomes of a call is justified by its last attempt; and a call that is  *)
(* under way goes on, and waits no longer than it has to.                  *)
(***************************************************************************)
EXTENDS Client, RateLimiterProofs, FiniteSetTheorems

(* A step of a call is a step of the limiter's thread, or leaves it alone.   *)
LEMMA StepLimits == [ClientNext]_allVars => [Next]_vars
<1> SUFFICES ASSUME [ClientNext]_allVars PROVE Next \/ UNCHANGED vars
  OBVIOUS
<1>1. ASSUME NEW t \in Threads, ClientStep(t) PROVE Next \/ UNCHANGED vars
  <2>1. CASE Get(t)
    BY <2>1 DEF Get
  <2>2. CASE Attempt(t)
    BY <2>2 DEF Attempt, Next, ThreadStep
  <2>3. CASE Answer(t)
    BY <2>3 DEF Answer, Next, ThreadStep
  <2>4. CASE NoAnswerComes(t)
    BY <2>4 DEF NoAnswerComes, Next, ThreadStep
  <2>5. CASE Retry(t)
    BY <2>5 DEF Retry, BeginAgain, vars
  <2> QED BY <1>1, <2>1, <2>2, <2>3, <2>4, <2>5 DEF ClientStep
<1>2. CASE ClientTick
  BY <1>2 DEF ClientTick, Next
<1>3. CASE UNCHANGED allVars
  BY <1>3 DEF allVars
<1> QED BY <1>1, <1>2, <1>3 DEF ClientNext

(* The client is one of the behaviours of the limiter's threads.             *)
THEOREM ClientIsLimited == ClientSpec => Spec
<1>1. ClientInit => Init
  BY DEF ClientInit
<1> QED BY <1>1, StepLimits, PTL DEF ClientSpec, Spec

(* So the API is called no faster than either window allows, retries of      *)
(* failed attempts included.                                                 *)
THEOREM RetriesAreLimited == ClientSpec => []WindowRespected
BY ClientIsLimited, WindowIsRespected, PTL

(* Nor do the requests bunch up at the API by more than they are delayed.    *)
THEOREM RetriesArriveApart == ClientSpec => []ArrivalsRespected
BY ClientIsLimited, ArrivalsAreRespected, PTL

(* And a call sleeps only where there is no slot for it, not for nothing,    *)
(* until there is one unless others use it, and no longer than a window.     *)
THEOREM CallsSleepInNeed ==
  ClientSpec => []NoNeedlessSleep /\ SleepsAreShort /\ SleepsAreEnough
BY ClientIsLimited, SleepIsNeeded, NobodyOversleeps, WakesToASlot, PTL
-----------------------------------------------------------------------------
Answers == Responses \cup {NoAnswer}

(* A call that backs off has attempts left; one that is under way has begun  *)
(* at least one.                                                             *)
TriesCounted ==
  \A t \in Threads :
    /\ call[t] = "backoff" => tries[t] < MaxTries
    /\ call[t] \in {"attempt", "backoff"} => tries[t] >= 1

CInv == ClientTypeOK /\ TriesCounted /\ OutcomeJustified

(* The reference's passing failures are those the retrier tries again.       *)
Passing(a) ==
  a = NoAnswer \/ a.status \in {408, 425, 429} \/ a.status \in 500..599 \/ RateLimited(a)

LEMMA AnswerStatus == \A a \in Answers : a.status \in Nat
BY ClientAssumption DEF Answers, NoAnswer

LEMMA PassingIsRetryable == \A a \in Answers : Passing(a) <=> Retryable(a)
<1> SUFFICES ASSUME NEW a \in Answers PROVE Passing(a) <=> Retryable(a)
  OBVIOUS
<1>1. a.status \in 500..599 <=> ServerError(a)
  BY AnswerStatus DEF ServerError
<1> QED BY <1>1 DEF Passing, Retryable, RETRYABLE_4XX

(* A wait is a time.                                                         *)
LEMMA WaitsType == \A a \in Answers : Waits(a) \subseteq Nat
<1> SUFFICES ASSUME NEW a \in Answers PROVE Waits(a) \subseteq Nat
  OBVIOUS
<1>1. a.hint \in Int \cup {NoHint}
  BY ClientAssumption DEF Answers, NoAnswer
<1>2. RetryAfter(a) = NoHint \/ RetryAfter(a) \in Nat
  BY <1>1 DEF RetryAfter
<1>3. CASE RetryAfter(a) = NoHint
  BY <1>3, ClientAssumption DEF Waits
<1>4. CASE RetryAfter(a) \in Nat
  <2>1. Capped(RetryAfter(a)) \in Nat
    BY <1>4, ClientAssumption DEF Capped
  <2> QED BY <1>3, <2>1 DEF Waits
<1> QED BY <1>2, <1>3, <1>4

(* What the justification says of one thread. *)
Justified(t) ==
  /\ call[t] = "body" => answer[t].status = 200 /\ answer[t].body = {}
  /\ call[t] = "raised" => ~Passing(answer[t]) \/ tries[t] = MaxTries
  /\ call[t] = "backoff" \/ (call[t] = "attempt" /\ tries[t] > 1) => Passing(answer[t])

LEMMA JustifiedEach ==
  /\ OutcomeJustified <=> \A t \in Threads : Justified(t)
  /\ OutcomeJustified' <=> \A t \in Threads : Justified(t)'
BY DEF OutcomeJustified, Justified, Passing

LEMMA InitCounts == ClientInit => CInv
<1> SUFFICES ASSUME ClientInit PROVE CInv
  OBVIOUS
<1>1. TypeOK
  BY InitEstablishes DEF ClientInit, IInv
<1>2. ClientTypeOK
  BY <1>1, ClientAssumption DEF ClientInit, ClientTypeOK, Calls, Init
<1>3. TriesCounted /\ \A t \in Threads : Justified(t)
  BY DEF ClientInit, TriesCounted, Justified
<1> QED BY <1>2, <1>3, JustifiedEach DEF CInv

(* The end of an attempt, whatever it met.                                   *)
LEMMA EndKeeps ==
  ASSUME CInv, TypeOK', NEW t \in Threads, NEW a \in Answers, AttemptEnds(t, a),
         call[t] = "attempt", pc' = [pc EXCEPT ![t] = "ready"]
  PROVE  CInv'
<1>1. /\ now \in Nat /\ call \in [Threads -> Calls] /\ tries \in [Threads -> 0..MaxTries]
      /\ answer \in [Threads -> Answers] /\ until \in [Threads -> Nat]
      /\ failedAt \in [Threads -> Nat] /\ gets \in 0..MaxGets /\ pc \in [Threads -> Points]
  BY DEF CInv, ClientTypeOK, TypeOK, Answers
<1>2. PICK c \in {"body", "backoff", "raised"} :
        /\ call' = [call EXCEPT ![t] = c]
        /\ c = "body" => Accepted(a)
        /\ c = "backoff" => Retryable(a) /\ MayRetry(t)
        /\ c = "raised" => ~(Retryable(a) /\ MayRetry(t))
  BY DEF AttemptEnds
<1>3. answer' = [answer EXCEPT ![t] = a] /\ UNCHANGED <<tries, gets>>
  BY DEF AttemptEnds
<1>4. until' \in [Threads -> Nat] /\ failedAt' \in [Threads -> Nat]
  <2>1. \A d \in Waits(a) : now + d \in Nat
    BY <1>1, WaitsType
  <2> QED BY <1>1, <2>1 DEF AttemptEnds
<1>5. ClientTypeOK'
  <2>1. \A u \in Threads : pc'[u] # "ready" => call'[u] = "attempt"
    BY <1>1, <1>2 DEF CInv, ClientTypeOK
  <2> QED BY <1>1, <1>2, <1>3, <1>4, <2>1 DEF ClientTypeOK, Calls, Answers
<1>6. TriesCounted'
  BY <1>1, <1>2, <1>3, ClientAssumption DEF CInv, TriesCounted, MayRetry
<1>7. Justified(t)'
  <2>1. call'[t] = c /\ answer'[t] = a /\ tries'[t] = tries[t]
    BY <1>1, <1>2, <1>3
  <2>2. Passing(a) <=> Retryable(a)
    BY PassingIsRetryable
  <2>3. ~MayRetry(t) => tries[t] = MaxTries
    BY <1>1, ClientAssumption DEF MayRetry
  <2> QED BY <1>2, <2>1, <2>2, <2>3 DEF Justified, Accepted
<1>8. \A u \in Threads : u # t => Justified(u)'
  BY <1>1, <1>2, <1>3, JustifiedEach DEF CInv, Justified
<1> QED BY <1>5, <1>6, <1>7, <1>8, JustifiedEach DEF CInv

LEMMA ClientKeeps ==
  ASSUME CInv, TypeOK', [ClientNext]_allVars
  PROVE  CInv'
<1>1. /\ call \in [Threads -> Calls] /\ tries \in [Threads -> 0..MaxTries]
      /\ answer \in [Threads -> Answers] /\ until \in [Threads -> Nat]
      /\ failedAt \in [Threads -> Nat] /\ gets \in 0..MaxGets /\ pc \in [Threads -> Points]
      /\ MaxGets \in Nat /\ MaxTries \in Nat \ {0}
  BY ClientAssumption DEF CInv, ClientTypeOK, TypeOK, Answers
<1>2. ASSUME UNCHANGED clientVars,
             \A t \in Threads : pc'[t] = pc[t] \/ call[t] = "attempt"
      PROVE  CInv'
  <2>1. ClientTypeOK'
    BY <1>2 DEF CInv, ClientTypeOK, clientVars
  <2>2. TriesCounted'
    BY <1>2 DEF CInv, TriesCounted, clientVars
  <2>3. \A t \in Threads : Justified(t)'
    BY <1>2, JustifiedEach DEF CInv, Justified, clientVars
  <2> QED BY <2>1, <2>2, <2>3, JustifiedEach DEF CInv
<1>3. ASSUME NEW t \in Threads, Get(t) PROVE CInv'
  <2>1. ClientTypeOK'
    BY <1>1, <1>3 DEF CInv, ClientTypeOK, Get, Calls, vars, Answers
  <2>2. TriesCounted'
    BY <1>1, <1>3 DEF CInv, TriesCounted, Get
  <2>3. \A u \in Threads : Justified(u)'
    BY <1>1, <1>3, JustifiedEach DEF CInv, Justified, Get
  <2> QED BY <2>1, <2>2, <2>3, JustifiedEach DEF CInv
<1>4. ASSUME NEW t \in Threads, Attempt(t) PROVE CInv'
  <2>1. \A u \in Threads : u # t => pc'[u] = pc[u]
    BY <1>1, <1>4 DEF Attempt, Claim, Wait, Send, ObserveLong
  <2> QED BY <1>2, <1>4, <2>1 DEF Attempt
<1>5. ASSUME NEW t \in Threads, Answer(t) PROVE CInv'
  <2>1. PICK r \in Responses : AttemptEnds(t, r)
    BY <1>5 DEF Answer
  <2>2. r \in Answers /\ call[t] = "attempt" /\ pc' = [pc EXCEPT ![t] = "ready"]
    BY <1>5 DEF Answer, ObserveShort, Answers
  <2> QED BY <2>1, <2>2, EndKeeps
<1>6. ASSUME NEW t \in Threads, NoAnswerComes(t) PROVE CInv'
  <2>1. /\ NoAnswer \in Answers /\ AttemptEnds(t, NoAnswer)
        /\ call[t] = "attempt" /\ pc' = [pc EXCEPT ![t] = "ready"]
    BY <1>6 DEF NoAnswerComes, TransportError, Answers
  <2> QED BY <2>1, EndKeeps
<1>7. ASSUME NEW t \in Threads, Retry(t) PROVE CInv'
  <2>1. tries[t] < MaxTries /\ tries[t] >= 1 /\ Passing(answer[t])
    BY <1>7, JustifiedEach DEF Retry, CInv, TriesCounted, Justified
  <2>2. /\ tries' = [tries EXCEPT ![t] = tries[t] + 1]
        /\ tries' \in [Threads -> 0..MaxTries]
        /\ call' = [call EXCEPT ![t] = "attempt"] /\ UNCHANGED <<pc, answer, gets>>
    BY <1>1, <1>7, <2>1 DEF Retry, BeginAgain
  <2>3. ClientTypeOK'
    BY <1>1, <1>7, <2>2 DEF CInv, ClientTypeOK, Retry, Calls, Answers
  <2>4. TriesCounted'
    BY <1>1, <2>2 DEF CInv, TriesCounted
  <2>5. \A u \in Threads : Justified(u)'
    BY <1>1, <2>1, <2>2, JustifiedEach DEF CInv, Justified
  <2> QED BY <2>3, <2>4, <2>5, JustifiedEach DEF CInv
<1>8. CASE ClientTick
  BY <1>2, <1>8 DEF ClientTick, Tick
<1>9. CASE UNCHANGED allVars
  BY <1>2, <1>9 DEF allVars, vars
<1> QED BY <1>3, <1>4, <1>5, <1>6, <1>7, <1>8, <1>9 DEF ClientNext, ClientStep

LEMMA CountsHold == ClientSpec => []CInv
<1>1. TypeOK' /\ CInv /\ [ClientNext]_allVars => CInv'
  BY ClientKeeps
<1> QED BY <1>1, InitCounts, ClientIsLimited, TypeCorrect, PTL DEF ClientSpec

(* The calls' state is well typed: no more attempts than the settings allow, *)
(* no more in the limiter than the calls under way.                          *)
THEOREM ClientTypeCorrect == ClientSpec => []ClientTypeOK
BY CountsHold, PTL DEF CInv

(* A body that is returned is a 200's without errors; a call is given up on  *)
(* only for a permanent failure or after its last attempt; and what is tried *)
(* again had failed in passing.                                              *)
THEOREM OutcomesAreJustified == ClientSpec => []OutcomeJustified
BY CountsHold, PTL DEF CInv
-----------------------------------------------------------------------------
Claimed == {t \in Threads : pc[t] = "claimed"}

LEMMA ClaimedFinite ==
  /\ IsFiniteSet(Claimed) /\ Cardinality(Claimed) \in Nat
  /\ IsFiniteSet(Claimed') /\ Cardinality(Claimed') \in Nat
<1>1. Claimed \subseteq Threads /\ Claimed' \subseteq Threads
  BY DEF Claimed
<1> QED BY <1>1, ClientAssumption, FS_Subset, FS_CardinalityType

(* A slot is claimed by one thread at a time, and used up once.              *)
LEMMA SlotKeeps ==
  ASSUME TypeOK, RequestsHaveSlots, [Next]_vars
  PROVE  RequestsHaveSlots'
<1>1. /\ pc \in [Threads -> Points] /\ Len(arrivals) \in Nat /\ Len(granted) \in Nat
      /\ arrivals \in Seq(Nat) /\ granted \in Seq([at : Nat, pos : [Windows -> Nat]])
      /\ now \in Nat
  BY DEF TypeOK
<1>2. Len(arrivals) + Cardinality(Claimed) <= Len(granted)
  BY DEF RequestsHaveSlots, Claimed
<1>3. ASSUME UNCHANGED <<arrivals, granted>>, Claimed' \subseteq Claimed
      PROVE  RequestsHaveSlots'
  <2>1. Cardinality(Claimed') <= Cardinality(Claimed)
    BY <1>3, ClaimedFinite, FS_Subset
  <2> QED BY <1>1, <1>2, <1>3, <2>1, ClaimedFinite DEF RequestsHaveSlots, Claimed
<1>4. ASSUME NEW t \in Threads, Claim(t) PROVE RequestsHaveSlots'
  <2>1. Claimed' = Claimed \cup {t} /\ t \notin Claimed
    BY <1>1, <1>4 DEF Claim, Acquiring, Claimed
  <2>2. Cardinality(Claimed') = Cardinality(Claimed) + 1
    BY <2>1, ClaimedFinite, FS_AddElement
  <2>3. Len(granted') = Len(granted) + 1 /\ Len(arrivals') = Len(arrivals)
    BY <1>1, <1>4 DEF Claim
  <2>4. Len(arrivals') + Cardinality(Claimed') <= Len(granted')
    BY <1>1, <1>2, <2>2, <2>3, ClaimedFinite
  <2> QED BY <2>4 DEF RequestsHaveSlots, Claimed
<1>5. ASSUME NEW t \in Threads, Send(t) PROVE RequestsHaveSlots'
  <2>1. Claimed' = Claimed \ {t} /\ t \in Claimed
    BY <1>1, <1>5 DEF Send, Claimed
  <2>2. Cardinality(Claimed') = Cardinality(Claimed) - 1
    BY <2>1, ClaimedFinite, FS_RemoveElement
  <2>3. Len(granted') = Len(granted) /\ Len(arrivals') = Len(arrivals) + 1
    BY <1>1, <1>5 DEF Send
  <2>4. Len(arrivals') + Cardinality(Claimed') <= Len(granted')
    BY <1>1, <1>2, <2>2, <2>3, ClaimedFinite
  <2> QED BY <2>4 DEF RequestsHaveSlots, Claimed
<1>6. ASSUME NEW t \in Threads, Wait(t) \/ TransportError(t) \/ ObserveLong(t) \/ ObserveShort(t)
      PROVE  RequestsHaveSlots'
  <2>1. Claimed' \subseteq Claimed
    BY <1>1, <1>6 DEF Wait, TransportError, ObserveLong, ObserveShort, Claimed
  <2>2. UNCHANGED <<arrivals, granted>>
    BY <1>6 DEF Wait, TransportError, ObserveLong, ObserveShort
  <2> QED BY <1>3, <2>1, <2>2
<1>7. CASE Tick \/ UNCHANGED vars
  BY <1>3, <1>7 DEF Tick, vars, Claimed
<1> QED BY <1>4, <1>5, <1>6, <1>7 DEF Next, ThreadStep

(* Whatever fails, is retried or comes late, every request has its own slot. *)
THEOREM RequestsAreSlotted == ClientSpec => []RequestsHaveSlots
<1>1. Init => RequestsHaveSlots
  <2> SUFFICES ASSUME Init PROVE RequestsHaveSlots
    OBVIOUS
  <2>1. {t \in Threads : pc[t] = "claimed"} = {} /\ arrivals = <<>> /\ granted = <<>>
    BY DEF Init
  <2>2. Cardinality({}) = 0
    BY FS_EmptySet
  <2>3. Len(arrivals) = 0 /\ Len(granted) = 0
    BY <2>1
  <2>4. Cardinality({t \in Threads : pc[t] = "claimed"}) = 0
    BY <2>1, <2>2
  <2> QED BY <2>3, <2>4 DEF RequestsHaveSlots
<1>2. TypeOK /\ RequestsHaveSlots /\ [Next]_vars => RequestsHaveSlots'
  BY SlotKeeps
<1> QED BY <1>1, <1>2, ClientIsLimited, TypeCorrect, PTL DEF Spec
-----------------------------------------------------------------------------
(* A thread that backs off on a hint comes back when the hint says.          *)
Hinted(t) ==
  call[t] = "backoff" /\ RetryAfter(answer[t]) # NoHint =>
    until[t] = failedAt[t] + Capped(answer[t].hint)

HintKept == \A t \in Threads : Hinted(t)

LEMMA EndHints ==
  ASSUME ClientTypeOK, HintKept, NEW t \in Threads, NEW a \in Answers, AttemptEnds(t, a)
  PROVE  HintKept'
<1>1. /\ call \in [Threads -> Calls] /\ answer \in [Threads -> Answers]
      /\ until \in [Threads -> Nat] /\ failedAt \in [Threads -> Nat]
  BY DEF ClientTypeOK, Answers
<1>2. answer' = [answer EXCEPT ![t] = a]
  BY DEF AttemptEnds
<1>3. CASE call' = [call EXCEPT ![t] = "backoff"]
  <2>1. PICK d \in Waits(a) : until' = [until EXCEPT ![t] = now + d]
    BY <1>1, <1>3 DEF AttemptEnds, Calls
  <2>2. failedAt' = [failedAt EXCEPT ![t] = now]
    BY <1>1, <1>3 DEF AttemptEnds, Calls
  <2>3. Hinted(t)'
    <3>1. answer'[t] = a /\ until'[t] = now + d /\ failedAt'[t] = now
      BY <1>1, <1>2, <2>1, <2>2
    <3>2. RetryAfter(a) # NoHint => d = Capped(a.hint)
      BY <2>1 DEF Waits, RetryAfter
    <3> QED BY <3>1, <3>2 DEF Hinted
  <2>4. ASSUME NEW u \in Threads, u # t PROVE Hinted(u)'
    BY <1>1, <1>2, <1>3, <2>1, <2>2, <2>4 DEF HintKept, Hinted
  <2> QED BY <2>3, <2>4 DEF HintKept
<1>4. CASE UNCHANGED <<until, failedAt>> /\ call'[t] # "backoff"
           /\ \A u \in Threads : u # t => call'[u] = call[u]
  <2>1. Hinted(t)'
    BY <1>4 DEF Hinted
  <2>2. ASSUME NEW u \in Threads, u # t PROVE Hinted(u)'
    BY <1>1, <1>2, <1>4, <2>2 DEF HintKept, Hinted
  <2> QED BY <2>1, <2>2 DEF HintKept
<1> QED BY <1>1, <1>3, <1>4 DEF AttemptEnds

LEMMA StepHints ==
  ASSUME ClientTypeOK, HintKept, [ClientNext]_allVars
  PROVE  HintKept'
<1>1. call \in [Threads -> Calls] /\ until \in [Threads -> Nat] /\ failedAt \in [Threads -> Nat]
  BY DEF ClientTypeOK
<1>2. CASE UNCHANGED clientVars
  BY <1>2 DEF HintKept, Hinted, clientVars
<1>3. ASSUME NEW t \in Threads, Get(t) PROVE HintKept'
  BY <1>1, <1>3 DEF Get, HintKept, Hinted
<1>4. ASSUME NEW t \in Threads, Answer(t) \/ NoAnswerComes(t) PROVE HintKept'
  <2>1. PICK a \in Answers : AttemptEnds(t, a)
    BY <1>4 DEF Answer, NoAnswerComes, Answers
  <2> QED BY <2>1, EndHints
<1>5. ASSUME NEW t \in Threads, Retry(t) PROVE HintKept'
  BY <1>1, <1>5 DEF Retry, HintKept, Hinted
<1> QED BY <1>2, <1>3, <1>4, <1>5
    DEF ClientNext, ClientStep, Attempt, ClientTick, allVars, clientVars

(* No retry, of any call on any thread, comes before the server said.        *)
THEOREM HintsAreHonoured == ClientSpec => HintHonoured
<1>1. ClientInit => HintKept
  BY DEF ClientInit, HintKept, Hinted
<1>2. ClientTypeOK /\ HintKept /\ [ClientNext]_allVars => HintKept'
  BY StepHints
<1> DEFINE Kept == \A t \in Threads :
      call[t] = "backoff" /\ call'[t] = "attempt" /\ RetryAfter(answer[t]) # NoHint =>
        now >= failedAt[t] + Capped(answer[t].hint)
<1>3. ClientTypeOK /\ HintKept /\ [ClientNext]_allVars => [Kept]_allVars
  <2> SUFFICES ASSUME ClientTypeOK, HintKept, ClientNext, NEW t \in Threads,
                      call[t] = "backoff", call'[t] = "attempt",
                      RetryAfter(answer[t]) # NoHint
               PROVE  now >= failedAt[t] + Capped(answer[t].hint)
    OBVIOUS
  <2>1. call \in [Threads -> Calls]
    BY DEF ClientTypeOK
  <2>2. ASSUME NEW u \in Threads, ClientStep(u) PROVE Retry(t)
    <3>1. CASE u = t
      BY <2>1, <2>2, <3>1
      DEF ClientStep, Get, Attempt, Answer, NoAnswerComes, AttemptEnds, clientVars
    <3>2. CASE u # t
      BY <2>1, <2>2, <3>2
      DEF ClientStep, Get, Attempt, Answer, NoAnswerComes, AttemptEnds, Retry, clientVars
    <3> QED BY <3>1, <3>2
  <2>3. Retry(t)
    BY <2>2 DEF ClientNext, ClientTick, allVars, clientVars
  <2>4. now >= until[t]
    BY <2>3 DEF Retry
  <2> QED BY <2>4 DEF HintKept, Hinted
<1>4. HintHonoured <=> [][Kept]_allVars
  BY DEF HintHonoured
<1> HIDE DEF Kept
<1> QED BY <1>1, <1>2, <1>3, <1>4, ClientTypeCorrect, PTL DEF ClientSpec
-----------------------------------------------------------------------------
(* How long a call backs off, and that it only goes on.                      *)

(* Whatever a server asks for, a call backs off no longer than the cap, or   *)
(* than the retrier's own backoff.                                           *)
BackoffsBounded ==
  \A t \in Threads : call[t] = "backoff" =>
    \E d \in Backoffs \cup 0..HintCap : until[t] = failedAt[t] + d

(* Where an attempt is, in the order it goes. *)
Phase(t) ==
  CASE call[t] \in {"none", "attempt"} /\ pc[t] = "ready" -> 0
    [] pc[t] = "sleeping" -> 1
    [] pc[t] = "claimed" -> 2
    [] pc[t] = "sent" -> 3
    [] pc[t] = "observe_short" -> 4
    [] call[t] = "backoff" -> 5
    [] call[t] \in {"body", "raised"} -> 6

(* A call under way is left as it is, begins another attempt, goes on within *)
(* this one, or finds the slot gone when it wakes and sleeps on.             *)
GoesOn(t) ==
  \/ UNCHANGED <<call[t], tries[t], pc[t], at[t]>>
  \/ tries'[t] > tries[t]
  \/ tries'[t] = tries[t] /\ Phase(t)' > Phase(t)
  \/ /\ tries'[t] = tries[t] /\ pc[t] = "sleeping" /\ pc'[t] = "sleeping"
     /\ now >= at[t] /\ at'[t] > now

CallsOnlyGoOn ==
  [][\A t \in Threads : call[t] \in {"attempt", "backoff"} => GoesOn(t)]_allVars

LEMMA BoundedWaits == \A a \in Answers : Waits(a) \subseteq Backoffs \cup 0..HintCap
<1> SUFFICES ASSUME NEW a \in Answers PROVE Waits(a) \subseteq Backoffs \cup 0..HintCap
  OBVIOUS
<1>1. a.hint \in Int \cup {NoHint}
  BY ClientAssumption DEF Answers, NoAnswer
<1>2. RetryAfter(a) = NoHint \/ RetryAfter(a) \in Nat
  BY <1>1 DEF RetryAfter
<1>3. \A h \in Nat : Capped(h) \in 0..HintCap
  BY ClientAssumption DEF Capped
<1> QED BY <1>2, <1>3, ClientAssumption DEF Waits

LEMMA StepBounds ==
  ASSUME ClientTypeOK, BackoffsBounded, [ClientNext]_allVars
  PROVE  BackoffsBounded'
<1>1. /\ call \in [Threads -> Calls] /\ until \in [Threads -> Nat]
      /\ failedAt \in [Threads -> Nat]
  BY DEF ClientTypeOK
<1>2. CASE UNCHANGED clientVars
  BY <1>2 DEF BackoffsBounded, clientVars
<1>3. ASSUME NEW t \in Threads, Get(t) PROVE BackoffsBounded'
  BY <1>1, <1>3 DEF Get, BackoffsBounded
<1>4. ASSUME NEW t \in Threads, Answer(t) \/ NoAnswerComes(t) PROVE BackoffsBounded'
  <2>1. PICK a \in Answers : AttemptEnds(t, a)
    BY <1>4 DEF Answer, NoAnswerComes, Answers
  <2>2. CASE call' = [call EXCEPT ![t] = "backoff"]
    <3>1. PICK d \in Waits(a) : until' = [until EXCEPT ![t] = now + d]
      BY <1>1, <2>1, <2>2 DEF AttemptEnds, Calls
    <3>2. failedAt' = [failedAt EXCEPT ![t] = now] /\ d \in Backoffs \cup 0..HintCap
      BY <1>1, <2>1, <2>2, BoundedWaits DEF AttemptEnds, Calls
    <3>3. until'[t] = failedAt'[t] + d
      BY <1>1, <3>1, <3>2
    <3>4. \A u \in Threads \ {t} :
            call'[u] = call[u] /\ until'[u] = until[u] /\ failedAt'[u] = failedAt[u]
      BY <1>1, <2>2, <3>1, <3>2
    <3> QED BY <3>2, <3>3, <3>4 DEF BackoffsBounded
  <2>3. CASE UNCHANGED <<until, failedAt>> /\ call'[t] # "backoff"
             /\ \A u \in Threads : u # t => call'[u] = call[u]
    BY <2>3 DEF BackoffsBounded
  <2> QED BY <1>1, <2>1, <2>2, <2>3 DEF AttemptEnds
<1>5. ASSUME NEW t \in Threads, Retry(t) PROVE BackoffsBounded'
  BY <1>1, <1>5 DEF Retry, BackoffsBounded
<1> QED BY <1>2, <1>3, <1>4, <1>5
    DEF ClientNext, ClientStep, Attempt, ClientTick, allVars, clientVars

(* No answer, whatever its Retry-After, parks a thread beyond the cap.       *)
THEOREM NoServerParksUs == ClientSpec => []BackoffsBounded
<1>1. ClientInit => BackoffsBounded
  BY DEF ClientInit, BackoffsBounded
<1>2. ClientTypeOK /\ BackoffsBounded /\ [ClientNext]_allVars => BackoffsBounded'
  BY StepBounds
<1> QED BY <1>1, <1>2, ClientTypeCorrect, PTL DEF ClientSpec

(* A step leaves the other threads' attempts alone. *)
LEMMA OthersStay ==
  ASSUME ClientTypeOK, NEW t \in Threads, ClientStep(t), NEW u \in Threads \ {t}
  PROVE  UNCHANGED <<call[u], tries[u], pc[u], at[u]>>
<1>1. /\ call \in [Threads -> Calls] /\ tries \in [Threads -> 0..MaxTries]
      /\ pc \in [Threads -> Points] /\ at \in [Threads -> Nat]
  BY DEF ClientTypeOK, TypeOK
<1>2. CASE Get(t) \/ Retry(t)
  BY <1>1, <1>2 DEF Get, Retry, BeginAgain, vars
<1>3. CASE Attempt(t)
  BY <1>1, <1>3 DEF Attempt, Claim, Wait, Send, ObserveLong, clientVars
<1>4. CASE Answer(t) \/ NoAnswerComes(t)
  <2>1. \E c \in Calls : call' = [call EXCEPT ![t] = c]
    BY <1>4 DEF Answer, NoAnswerComes, AttemptEnds, Calls
  <2> QED BY <1>1, <1>4, <2>1 DEF Answer, NoAnswerComes, AttemptEnds, ObserveShort, TransportError
<1> QED BY <1>2, <1>3, <1>4 DEF ClientStep

LEMMA ThreadGoesOn ==
  ASSUME IInv, ClientTypeOK, NEW t \in Threads, ClientStep(t),
         call[t] \in {"attempt", "backoff"}
  PROVE  GoesOn(t)
<1>1. /\ call \in [Threads -> Calls] /\ tries \in [Threads -> 0..MaxTries]
      /\ pc \in [Threads -> Points] /\ at \in [Threads -> Nat]
      /\ pc[t] # "ready" => call[t] = "attempt"
      /\ tries[t] \in Nat
  BY ClientAssumption DEF ClientTypeOK, TypeOK
<1>2. ~Get(t)
  BY DEF Get
<1>3. CASE Retry(t)
  <2>1. tries'[t] = tries[t] + 1
    BY <1>1, <1>3 DEF Retry
  <2> QED BY <1>1, <2>1 DEF GoesOn
<1>4. CASE Attempt(t)
  <2>1. call[t] = "attempt" /\ UNCHANGED clientVars
    BY <1>4 DEF Attempt
  <2>2. CASE Claim(t)
    <3>1. pc[t] \in {"ready", "sleeping"} /\ pc'[t] = "claimed"
      BY <1>1, <2>2 DEF Claim, Acquiring
    <3> QED BY <2>1, <3>1 DEF GoesOn, Phase, clientVars
  <2>3. CASE Wait(t)
    <3>1. pc'[t] = "sleeping" /\ at'[t] > now
      BY <1>1, <2>3, WakeAtBounds DEF Wait
    <3>2. pc[t] = "ready" \/ (pc[t] = "sleeping" /\ now >= at[t])
      BY <2>3 DEF Wait, Acquiring
    <3> QED BY <2>1, <3>1, <3>2 DEF GoesOn, Phase, clientVars
  <2>4. CASE Send(t)
    <3>1. pc[t] = "claimed" /\ pc'[t] = "sent"
      BY <1>1, <2>4 DEF Send
    <3> QED BY <2>1, <3>1 DEF GoesOn, Phase, clientVars
  <2>5. CASE ObserveLong(t)
    <3>1. pc[t] = "sent" /\ pc'[t] = "observe_short"
      BY <1>1, <2>5 DEF ObserveLong
    <3> QED BY <2>1, <3>1 DEF GoesOn, Phase, clientVars
  <2> QED BY <1>4, <2>2, <2>3, <2>4, <2>5 DEF Attempt
<1>5. CASE Answer(t) \/ NoAnswerComes(t)
  <2>1. /\ call'[t] \in {"body", "backoff", "raised"} /\ tries' = tries
        /\ pc'[t] = "ready" /\ pc[t] \in {"claimed", "sent", "observe_short"}
    BY <1>1, <1>5 DEF Answer, NoAnswerComes, AttemptEnds, ObserveShort, TransportError
  <2>2. call[t] = "attempt"
    BY <1>1, <2>1
  <2>3. Phase(t) \in {2, 3, 4}
    BY <2>1, <2>2 DEF Phase
  <2>4. Phase(t)' \in {5, 6}
    BY <2>1 DEF Phase
  <2>5. Phase(t)' > Phase(t)
    BY <2>3, <2>4
  <2> QED BY <2>1, <2>5 DEF GoesOn
<1> QED BY <1>2, <1>3, <1>4, <1>5 DEF ClientStep

(* A call that has begun takes its attempts one after the other and each of  *)
(* them from acquire to the answer, and never sleeps twice for the same      *)
(* time: what CallEnds needs of the steps.                                   *)
THEOREM CallsGoOn == ClientSpec => CallsOnlyGoOn
<1>1. ASSUME IInv, ClientTypeOK, ClientNext, NEW t \in Threads,
             call[t] \in {"attempt", "backoff"}
      PROVE  GoesOn(t)
  <2>1. CASE \E u \in Threads : ClientStep(u)
    BY <1>1, <2>1, ThreadGoesOn, OthersStay DEF GoesOn
  <2>2. CASE ClientTick
    BY <2>2 DEF ClientTick, Tick, clientVars, GoesOn
  <2> QED BY <1>1, <2>1, <2>2 DEF ClientNext
<1>2. IInv /\ ClientTypeOK /\ [ClientNext]_allVars =>
        [\A t \in Threads : call[t] \in {"attempt", "backoff"} => GoesOn(t)]_allVars
  BY <1>1
<1> QED BY <1>2, ClientIsLimited, Invariance, ClientTypeCorrect, PTL DEF ClientSpec, CallsOnlyGoOn
=============================================================================
