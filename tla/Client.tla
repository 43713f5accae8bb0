------------------------------- MODULE Client -------------------------------
(***************************************************************************)
(* ApiFootballClient.get (http/client.py) over the shared RateLimiter: an  *)
(* attempt claims a slot, sends the request, lets the limiter observe the  *)
(* answer's headers and has the answer validated (validation.py); the      *)
(* retrier (retry.py) tries again, up to a number of attempts, unless the  *)
(* failure is a permanent one (errors.py).                                 *)
(***************************************************************************)
EXTENDS RateLimiter

CONSTANTS
  MaxTries,    \* settings.http_retry_max_attempts
  Backoffs,    \* what the random exponential backoff may come to
  HintCap,     \* _RETRY_AFTER_CAP_SEC
  Responses,   \* [status, body, hint]: what the API may answer
  NotADict,    \* a body that is no JSON object; else the entries of its `errors`
  LimitNotice, \* an entry of `errors` that looks like a rate limit
  NoHint,      \* no readable Retry-After header
  MaxGets      \* bound on the calls of get

(* A transport error, in the place of an answer. *)
NoAnswer == [status |-> 0, body |-> {}, hint |-> NoHint]

ASSUME ClientAssumption ==
  /\ MaxTries \in Nat \ {0} /\ MaxGets \in Nat
  /\ Backoffs \subseteq Nat /\ Backoffs # {}
  /\ HintCap \in Nat
  /\ \A r \in Responses : r.status \in 100..599 /\ r.hint \in Int \cup {NoHint}
  /\ NoHint \notin Int
  /\ IsFiniteSet(Threads)

VARIABLES
  call,      \* where each thread's get is
  tries,     \* the attempts it has begun
  answer,    \* what its last attempt of this call met
  until,     \* when the next one may begin
  failedAt,  \* history: when the last one failed
  gets       \* the calls of get so far

clientVars == <<call, tries, answer, until, failedAt, gets>>
allVars    == <<vars, clientVars>>

Calls == {"none", "attempt", "backoff", "body", "raised"}

ClientTypeOK ==
  /\ TypeOK
  /\ call \in [Threads -> Calls]
  /\ tries \in [Threads -> 0..MaxTries]
  /\ answer \in [Threads -> Responses \cup {NoAnswer}]
  /\ until \in [Threads -> Nat] /\ failedAt \in [Threads -> Nat]
  /\ gets \in 0..MaxGets
  /\ \A t \in Threads : pc[t] # "ready" => call[t] = "attempt"

ClientInit ==
  /\ Init
  /\ call = [t \in Threads |-> "none"]
  /\ tries = [t \in Threads |-> 0]
  /\ answer = [t \in Threads |-> NoAnswer]
  /\ until = [t \in Threads |-> 0] /\ failedAt = [t \in Threads |-> 0]
  /\ gets = 0

-----------------------------------------------------------------------------
(* validate_response, and what the retrier makes of it.                    *)

(* 408, 425, 429 *)
RETRYABLE_4XX == {408, 425, 429}

ServerError(r) == 500 <= r.status /\ r.status < 600

(* Plausible bug: the body of a 200 is not looked at. *)
AcceptedByStatus(r) == r.status = 200

(* A dict whose `errors` are empty, with a 200. *)
Accepted(r) == r.status = 200 /\ r.body = {}

(* An in-body notice of the rate limit is promoted to a retryable failure. *)
RateLimited(r) == r.status = 200 /\ r.body # NotADict /\ LimitNotice \in r.body

(* RetryableHttpError and httpx.TransportError; all else is permanent. *)
Retryable(a) ==
  a = NoAnswer \/ ServerError(a) \/ a.status \in RETRYABLE_4XX \/ RateLimited(a)

(* _parse_retry_after: seconds, not negative. *)
RetryAfter(a) ==
  IF a.hint = NoHint \/ a.hint < 0 THEN NoHint ELSE a.hint

Capped(h) == IF h < HintCap THEN h ELSE HintCap

(* Plausible bug: the server's hint is dropped. *)
BackoffOnly(a) == Backoffs

(* How long the retrier may wait before the next attempt. *)
Waits(a) == IF RetryAfter(a) = NoHint THEN Backoffs ELSE {Capped(RetryAfter(a))}

-----------------------------------------------------------------------------
Get(t) ==
  /\ call[t] \in {"none", "body", "raised"}
  /\ gets < MaxGets
  /\ gets' = gets + 1
  /\ call' = [call EXCEPT ![t] = "attempt"]
  /\ tries' = [tries EXCEPT ![t] = 1]
  /\ answer' = [answer EXCEPT ![t] = NoAnswer]
  /\ UNCHANGED <<vars, until, failedAt>>

(* Plausible bug: one attempt more than the settings allow. *)
OneMoreTry(t) == tries[t] <= MaxTries

(* stop_after_attempt *)
MayRetry(t) == tries[t] < MaxTries

(* The attempt's answer is returned, or waited out, or raised. *)
AttemptEnds(t, a) ==
  /\ answer' = [answer EXCEPT ![t] = a]
  /\ \/ /\ Accepted(a)
        /\ call' = [call EXCEPT ![t] = "body"]
        /\ UNCHANGED <<until, failedAt>>
     \/ /\ ~Accepted(a) /\ Retryable(a) /\ MayRetry(t)
        /\ call' = [call EXCEPT ![t] = "backoff"]
        /\ \E d \in Waits(a) : until' = [until EXCEPT ![t] = now + d]
        /\ failedAt' = [failedAt EXCEPT ![t] = now]
     \/ /\ ~Accepted(a) /\ ~(Retryable(a) /\ MayRetry(t))
        /\ call' = [call EXCEPT ![t] = "raised"]
        /\ UNCHANGED <<until, failedAt>>
  /\ UNCHANGED <<tries, gets>>

(* acquire, the request, and the first half of observe_headers. *)
Attempt(t) ==
  /\ call[t] = "attempt"
  /\ Claim(t) \/ Wait(t) \/ Send(t) \/ ObserveLong(t)
  /\ UNCHANGED clientVars

Answer(t) ==
  /\ call[t] = "attempt"
  /\ ObserveShort(t)
  /\ \E r \in Responses : AttemptEnds(t, r)

NoAnswerComes(t) ==
  /\ call[t] = "attempt"
  /\ TransportError(t)
  /\ AttemptEnds(t, NoAnswer)

(* Plausible bug: the slot is acquired once, outside the attempt. *)
RetryWithoutSlot(t) == pc' = [pc EXCEPT ![t] = "claimed"] /\ at' = [at EXCEPT ![t] = now]

(* A retried attempt is a whole _attempt: it acquires a slot of its own. *)
BeginAgain(t) == UNCHANGED <<pc, at>>

Retry(t) ==
  /\ call[t] = "backoff" /\ now >= until[t]
  /\ call' = [call EXCEPT ![t] = "attempt"]
  /\ tries' = [tries EXCEPT ![t] = @ + 1]
  /\ BeginAgain(t)
  /\ until' = [until EXCEPT ![t] = 0] /\ failedAt' = [failedAt EXCEPT ![t] = 0]
  /\ UNCHANGED <<now, log, head, granted, arrivals, answer, gets>>

(* Time passes whatever the threads are at: while they sleep, and oversleep, *)
(* while a request is under way, and between any two steps of a call.        *)
ClientTick == Tick /\ UNCHANGED clientVars

ClientStep(t) == Get(t) \/ Attempt(t) \/ Answer(t) \/ NoAnswerComes(t) \/ Retry(t)

ClientNext == (\E t \in Threads : ClientStep(t)) \/ ClientTick

ClientSpec == ClientInit /\ [][ClientNext]_allVars

-----------------------------------------------------------------------------
(* Properties.                                                             *)

(* What becomes of a call is justified by what its last attempt met: a body  *)
(* that is returned, to be landed in bronze, carries no errors although the  *)
(* API sends them with a 200; a call is given up on only for a permanent     *)
(* failure or after all its attempts; a permanent one is not tried again.    *)
OutcomeJustified ==
  \A t \in Threads :
    LET a == answer[t]
        passing == a = NoAnswer \/ a.status \in {408, 425, 429} \/ a.status \in 500..599
                   \/ RateLimited(a)
    IN /\ call[t] = "body" => a.status = 200 /\ a.body = {}
       /\ call[t] = "raised" => ~passing \/ tries[t] = MaxTries
       /\ call[t] = "backoff" \/ (call[t] = "attempt" /\ tries[t] > 1) => passing

(* Every request the API sees, a retry too, has a slot of its own, so that   *)
(* what the limiter promises of claims holds of all the traffic.             *)
RequestsHaveSlots ==
  Len(arrivals) + Cardinality({t \in Threads : pc[t] = "claimed"}) <= Len(granted)

(* A server that says when to come back is not asked again before, up to the *)
(* cap; another wait only makes it later.                                    *)
HintHonoured ==
  [][\A t \in Threads :
       call[t] = "backoff" /\ call'[t] = "attempt" /\ RetryAfter(answer[t]) # NoHint =>
         now >= failedAt[t] + Capped(answer[t].hint)]_allVars

(* Every call of get ends, with a body or an exception: no chain of retries, *)
(* waits for a slot and reconciled headers goes on for ever.                 *)
CallEnds == \A t \in Threads : call[t] = "attempt" ~> call[t] \in {"body", "raised"}
=============================================================================
