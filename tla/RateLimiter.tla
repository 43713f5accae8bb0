---------------------------- MODULE RateLimiter -----------------------------
(***************************************************************************)
(* The sliding-window rate limiter (http/rate_limiter.py) as the threads   *)
(* of a process use it around an API call (_attempt in http/client.py).    *)
(*                                                                         *)
(* Each section under the limiter's lock is one step. Time passes between  *)
(* steps, also between the moment a thread claims a slot and the moment    *)
(* its request reaches the API, and a sleeping thread may oversleep.       *)
(***************************************************************************)
EXTENDS Integers, Sequences, FiniteSets

CONSTANTS
  Threads,
  PerInterval, Interval,   \* at most PerInterval calls per Interval
  DailyQuota, Day,         \* at most DailyQuota calls per Day
  SendDelay,   \* longest time from a claim to its arrival at the API
  Reports      \* what a response may say: [limit, remaining], per window

Windows == {"short", "long"}
Limit   == [w \in Windows |-> IF w = "short" THEN PerInterval ELSE DailyQuota]
Span    == [w \in Windows |-> IF w = "short" THEN Interval ELSE Day]

ASSUME RateLimiterAssumption ==
  /\ {PerInterval, DailyQuota, Interval, Day} \subseteq Nat \ {0}
  /\ SendDelay \in Nat
  /\ Reports \subseteq [limit : Int, remaining : Int]

VARIABLES
  now,      \* the monotonic clock
  log,      \* every timestamp ever appended to a window's deque
  head,     \* how many of them have been popped: the deque is the rest
  pc,       \* where each thread is in _attempt
  at,       \* when it will wake, or when it claimed its slot
  granted,  \* history: the claims, each with its time and log positions
  arrivals  \* history: when requests reached the API

vars == <<now, log, head, pc, at, granted, arrivals>>

Points == {"ready", "sleeping", "claimed", "sent", "observe_short"}

TypeOK ==
  /\ now \in Nat
  /\ log \in [Windows -> Seq(Nat)]
  /\ head \in [Windows -> Nat]
  /\ \A w \in Windows : head[w] <= Len(log[w])
  /\ pc \in [Threads -> Points]
  /\ at \in [Threads -> Nat]
  /\ granted \in Seq([at : Nat, pos : [Windows -> Nat]])
  /\ arrivals \in Seq(Nat)

Init ==
  /\ now = 0
  /\ log = [w \in Windows |-> <<>>]
  /\ head = [w \in Windows |-> 0]
  /\ pc = [t \in Threads |-> "ready"]
  /\ at = [t \in Threads |-> 0]
  /\ granted = <<>> /\ arrivals = <<>>

-----------------------------------------------------------------------------
(* Plausible bug: an entry expires one tick early. *)
ExpiredEarly(w, i) == log[w][i] <= now - Span[w] + 1

(* Plausible bug: only the interval's deque is pruned. *)
ExpiredShortOnly(w, i) == w = "short" /\ log[w][i] <= now - Span[w]

Expired(w, i) == log[w][i] <= now - Span[w]

(* Plausible bug: one entry is popped without a look at the deque. *)
PrunedUnchecked(w) == head[w] + 1

(* _prune: pop from the front while the oldest entry has expired. *)
Pruned(w) ==
  CHOOSE h \in head[w]..Len(log[w]) :
    /\ \A i \in (head[w] + 1)..h : Expired(w, i)
    /\ h < Len(log[w]) => ~Expired(w, h + 1)

Prune == head' = [w \in Windows |-> Pruned(w)]

(* Plausible bug: the daily window is not consulted. *)
FullShortOnly(w) == w = "short" /\ Len(log[w]) - Pruned(w) >= Limit[w]

Full(w) == Len(log[w]) - Pruned(w) >= Limit[w]

Room == \A w \in Windows : ~Full(w)

(* Plausible bug: a whole window is slept, whatever the oldest entry's age. *)
WakeAfterSpan ==
  CHOOSE d \in {now + Span[w] : w \in {v \in Windows : Full(v)}} :
    \A w \in Windows : Full(w) => d >= now + Span[w]

(* The oldest entry of each full window has to age out. *)
WakeAt ==
  CHOOSE d \in {log[w][Pruned(w) + 1] + Span[w] : w \in {v \in Windows : Full(v)}} :
    \A w \in Windows : Full(w) => d >= log[w][Pruned(w) + 1] + Span[w]

(* max(wait, 0.001): should the wait come out as none, a moment is slept. *)
SleepUntil == IF WakeAt > now THEN WakeAt ELSE now + 1

(* In acquire: at the top of the loop, or back there from _sleep. *)
Acquiring(t) ==
  \/ pc[t] = "ready"
  \/ pc[t] = "sleeping" /\ now >= at[t]

(* A slot in both windows: claim it and return. *)
Claim(t) ==
  /\ Acquiring(t) /\ Room
  /\ Prune
  /\ log' = [w \in Windows |-> Append(log[w], now)]
  /\ granted' = Append(granted, [at |-> now, pos |-> [w \in Windows |-> Len(log[w]) + 1]])
  /\ pc' = [pc EXCEPT ![t] = "claimed"]
  /\ at' = [at EXCEPT ![t] = now]
  /\ UNCHANGED <<now, arrivals>>

(* No slot: compute how long to sleep, release the lock, sleep. *)
Wait(t) ==
  /\ Acquiring(t) /\ ~Room
  /\ Prune
  /\ pc' = [pc EXCEPT ![t] = "sleeping"]
  /\ at' = [at EXCEPT ![t] = SleepUntil]
  /\ UNCHANGED <<now, log, granted, arrivals>>

(* The request reaches the API. *)
Send(t) ==
  /\ pc[t] = "claimed"
  /\ pc' = [pc EXCEPT ![t] = "sent"]
  /\ arrivals' = Append(arrivals, now)
  /\ at' = [at EXCEPT ![t] = 0]
  /\ UNCHANGED <<now, log, head, granted>>

(* Transport error: there are no headers to observe. *)
TransportError(t) ==
  /\ pc[t] \in {"claimed", "sent"}
  /\ pc' = [pc EXCEPT ![t] = "ready"]
  /\ at' = [at EXCEPT ![t] = 0]
  /\ UNCHANGED <<now, log, head, granted, arrivals>>

(* `used` scaled to the local limit. The quotient is taken in floating point *)
(* and truncated: when limits differ, an exact result may come out one less. *)
Scaled(w, r) ==
  LET used  == IF r.limit > r.remaining THEN r.limit - r.remaining ELSE 0
      exact == (used * Limit[w]) \div r.limit
      low   == IF r.limit # Limit[w] /\ exact > 0 THEN exact - 1 ELSE exact
      Least(n) == IF n < Limit[w] THEN n ELSE Limit[w]
  IN {Least(n) : n \in low..exact}

Padding(w, n) ==
  IF n > Len(log[w]) - Pruned(w) THEN n - (Len(log[w]) - Pruned(w)) ELSE 0

(* _reconcile: pad the deque up to what the API says was used. A missing or  *)
(* unreadable pair of headers, or a limit below 1, changes nothing.          *)
Reconcile(w) ==
  \/ UNCHANGED <<log, head>>
  \/ \E r \in {q \in Reports : q.limit >= 1} : \E n \in Scaled(w, r) :
       /\ Prune
       /\ log' = [log EXCEPT ![w] = @ \o [i \in 1..Padding(w, n) |-> now]]

(* observe_headers locks twice: the daily pair first, then the interval pair. *)
ObserveLong(t) ==
  /\ pc[t] = "sent"
  /\ Reconcile("long")
  /\ pc' = [pc EXCEPT ![t] = "observe_short"]
  /\ UNCHANGED <<now, at, granted, arrivals>>

ObserveShort(t) ==
  /\ pc[t] = "observe_short"
  /\ Reconcile("short")
  /\ pc' = [pc EXCEPT ![t] = "ready"]
  /\ UNCHANGED <<now, at, granted, arrivals>>

Tick ==
  /\ \A t \in Threads : pc[t] = "claimed" => now < at[t] + SendDelay
  /\ now' = now + 1
  /\ UNCHANGED <<log, head, pc, at, granted, arrivals>>

ThreadStep(t) ==
  \/ Claim(t) \/ Wait(t) \/ Send(t) \/ TransportError(t)
  \/ ObserveLong(t) \/ ObserveShort(t)

Next == (\E t \in Threads : ThreadStep(t)) \/ Tick

Spec == Init /\ [][Next]_vars

-----------------------------------------------------------------------------
(* Properties.                                                             *)

(* Calls are granted no faster than either window allows, whatever the       *)
(* threads' interleaving and whatever the headers made of the deques: any    *)
(* `limit` consecutive claims and the next one are a whole window apart.     *)
WindowRespected ==
  \A w \in Windows : \A i, j \in 1..Len(granted) :
    j - i >= Limit[w] => granted[j].at - granted[i].at >= Span[w]

(* What the API sees: requests that are delayed after their claim bunch up,  *)
(* so it is only promised the limit over a window shortened by the delay.    *)
(* (The shipped settings limit 65 seconds for an API that counts minutes.)   *)
ArrivalsRespected ==
  \A w \in Windows : \A i, j \in 1..Len(arrivals) :
    j - i >= Limit[w] => arrivals[j] - arrivals[i] >= Span[w] - SendDelay

(* A thread only sleeps while a window it needs is truly full: as long as it *)
(* is told to sleep, some window holds `limit` entries that have not expired. *)
NoNeedlessSleep ==
  \A t \in Threads : pc[t] = "sleeping" /\ now < at[t] =>
    \E w \in Windows :
      Cardinality({i \in 1..Len(log[w]) : ~Expired(w, i)}) >= Limit[w]
=============================================================================
