------------------------- MODULE RateLimiterProofs --------------------------
(***************************************************************************)
(* Proofs about RateLimiter, for any limits and windows, any number of     *)
(* threads and any reports of the API.                                     *)
(***************************************************************************)
EXTENDS RateLimiter, FiniteSetTheorems, WellFoundedInduction, TLAPS

(* Entries are appended in the order of the clock. *)
LogSorted ==
  \A w \in Windows :
    /\ \A i \in 1..Len(log[w]) : log[w][i] <= now
    /\ \A i, j \in 1..Len(log[w]) : i <= j => log[w][i] <= log[w][j]

(* What has been popped has expired, and what is left fits the limit. *)
DequeFits ==
  \A w \in Windows :
    /\ \A i \in 1..head[w] : Expired(w, i)
    /\ Len(log[w]) - head[w] <= Limit[w]

(* Entries, padding included, respect the window. *)
LogSpaced ==
  \A w \in Windows : \A i, j \in 1..Len(log[w]) :
    j - i >= Limit[w] => log[w][j] - log[w][i] >= Span[w]

(* Every claim is in both logs, and no two claims share an entry. *)
GrantsLogged ==
  \A w \in Windows :
    /\ \A k \in 1..Len(granted) :
         /\ granted[k].pos[w] \in 1..Len(log[w])
         /\ log[w][granted[k].pos[w]] = granted[k].at
    /\ \A k, m \in 1..Len(granted) :
         k <= m => granted[m].pos[w] - granted[k].pos[w] >= m - k

IInv == TypeOK /\ LogSorted /\ DequeFits /\ LogSpaced /\ GrantsLogged

-----------------------------------------------------------------------------
LEMMA LeastNatural ==
  ASSUME NEW S, S \subseteq Nat, S # {}
  PROVE  \E x \in S : \A y \in S : x <= y
<1> DEFINE R == OpToRel(<, Nat)
<1>1. PICK x \in S : \A y \in S : <<y, x>> \notin R
  <2>1. IsWellFoundedOn(R, Nat)
    BY NatLessThanWellFounded
  <2> HIDE DEF R
  <2> QED BY <2>1, WFMin
<1>2. \A y \in S : ~(y < x)
  BY <1>1 DEF OpToRel
<1> QED BY <1>2

LEMMA LimitsType ==
  ASSUME NEW w \in Windows
  PROVE  Limit[w] \in Nat \ {0} /\ Span[w] \in Nat \ {0}
BY RateLimiterAssumption DEF Limit, Span, Windows

(* _prune stops inside the deque, and everything it popped has expired.      *)
LEMMA PrunedFits ==
  ASSUME IInv, NEW w \in Windows
  PROVE  /\ Pruned(w) \in Nat /\ head[w] <= Pruned(w) /\ Pruned(w) <= Len(log[w])
         /\ \A i \in 1..Pruned(w) : Expired(w, i)
         /\ Pruned(w) < Len(log[w]) => ~Expired(w, Pruned(w) + 1)
<1>0. head[w] \in Nat /\ Len(log[w]) \in Nat /\ head[w] <= Len(log[w])
  BY DEF IInv, TypeOK
<1> DEFINE n == Len(log[w])
           Stop == {h \in head[w]..n : h < n => ~Expired(w, h + 1)}
<1>1. PICK h \in Stop : \A k \in Stop : h <= k
  <2>1. n \in Stop /\ Stop \subseteq Nat
    BY <1>0
  <2> HIDE DEF Stop
  <2> QED BY <2>1, LeastNatural
<1>2. \A i \in (head[w] + 1)..h : Expired(w, i)
  <2> SUFFICES ASSUME NEW i \in (head[w] + 1)..h, ~Expired(w, i) PROVE FALSE
    OBVIOUS
  <2>1. i - 1 \in Stop /\ i - 1 < h
    BY <1>0
  <2> QED BY <1>1, <2>1, <1>0
<1>3. /\ Pruned(w) \in head[w]..n
      /\ \A i \in (head[w] + 1)..Pruned(w) : Expired(w, i)
      /\ Pruned(w) < n => ~Expired(w, Pruned(w) + 1)
  BY <1>1, <1>2 DEF Pruned
<1> QED BY <1>0, <1>3 DEF IInv, DequeFits

(* What is padded never lifts a deque above its limit.                       *)
LEMMA PaddingFits ==
  ASSUME IInv, NEW w \in Windows, NEW r \in Reports, r.limit >= 1, NEW n \in Scaled(w, r)
  PROVE  /\ Padding(w, n) \in Nat
         /\ Len(log[w]) + Padding(w, n) - Pruned(w) <= Limit[w]
<1>1. Len(log[w]) \in Nat /\ Pruned(w) \in Nat /\ Len(log[w]) - Pruned(w) <= Limit[w]
  BY PrunedFits, LimitsType DEF IInv, TypeOK, DequeFits
<1>2. Limit[w] \in Nat
  BY LimitsType
<1>3. n \in Int /\ n <= Limit[w]
  <2> DEFINE used  == IF r.limit > r.remaining THEN r.limit - r.remaining ELSE 0
             exact == (used * Limit[w]) \div r.limit
             low   == IF r.limit # Limit[w] /\ exact > 0 THEN exact - 1 ELSE exact
  <2>1. r.limit \in Int /\ r.remaining \in Int
    BY RateLimiterAssumption
  <2>2. exact \in Int
    BY <1>2, <2>1
  <2>3. PICK m \in low..exact : n = IF m < Limit[w] THEN m ELSE Limit[w]
    BY DEF Scaled
  <2> HIDE DEF exact
  <2> QED BY <1>2, <2>2, <2>3
<1> QED BY <1>1, <1>2, <1>3 DEF Padding

(* What a log looks like once k entries have been appended to it at `now`.   *)
Extends(s, w, k) ==
  /\ s \in Seq(Nat) /\ Len(s) = Len(log[w]) + k
  /\ \A i \in 1..Len(log[w]) : s[i] = log[w][i]
  /\ \A i \in (Len(log[w]) + 1)..Len(s) : s[i] = now

(* Appending entries within the limit of the pruned deque keeps the log      *)
(* sorted and spaced: a new entry that is `limit` places after another comes *)
(* after one that has been popped.                                           *)
LEMMA ExtendKeeps ==
  ASSUME IInv, NEW w \in Windows, NEW k \in Nat, NEW s, Extends(s, w, k),
         Len(log[w]) + k - Pruned(w) <= Limit[w]
  PROVE  /\ \A i \in 1..Len(s) : s[i] <= now
         /\ \A i, j \in 1..Len(s) : i <= j => s[i] <= s[j]
         /\ \A i, j \in 1..Len(s) : j - i >= Limit[w] => s[j] - s[i] >= Span[w]
         /\ \A i \in 1..Pruned(w) : s[i] <= now - Span[w]
<1> DEFINE n == Len(log[w])
<1>1. n \in Nat /\ Len(s) = n + k /\ now \in Nat /\ log[w] \in Seq(Nat)
  BY DEF IInv, TypeOK, Extends
<1>2. Pruned(w) \in Nat /\ Pruned(w) <= n /\ \A i \in 1..Pruned(w) : log[w][i] <= now - Span[w]
  BY PrunedFits DEF Expired
<1>3. Limit[w] \in Nat \ {0} /\ Span[w] \in Nat
  BY LimitsType
<1>4. /\ \A i \in 1..n : s[i] = log[w][i] /\ log[w][i] \in Nat /\ log[w][i] <= now
      /\ \A i \in (n + 1)..(n + k) : s[i] = now
  <2>1. ASSUME NEW i \in 1..n
        PROVE  s[i] = log[w][i] /\ log[w][i] \in Nat /\ log[w][i] <= now
    <3>1. s[i] = log[w][i]
      BY <2>1 DEF Extends
    <3>2. log[w][i] \in Nat
      BY <1>1, <2>1
    <3>3. log[w][i] <= now
      BY <2>1 DEF IInv, LogSorted
    <3> QED BY <3>1, <3>2, <3>3
  <2>2. ASSUME NEW i \in (n + 1)..(n + k) PROVE s[i] = now
    <3>1. Len(s) = n + k
      BY <1>1
    <3> QED BY <2>2, <3>1 DEF Extends
  <2> QED BY <2>1, <2>2
<1>5. \A i, j \in 1..n : i <= j => log[w][i] <= log[w][j]
  BY DEF IInv, LogSorted
<1>6. \A i, j \in 1..n : j - i >= Limit[w] => log[w][j] - log[w][i] >= Span[w]
  BY DEF IInv, LogSpaced
<1> HIDE DEF n
<1>7. \A i \in 1..Len(s) : s[i] \in Nat /\ s[i] <= now
  BY <1>1, <1>4
<1>8. \A i, j \in 1..Len(s) : i <= j => s[i] <= s[j]
  BY <1>1, <1>4, <1>5
<1>9. ASSUME NEW i \in 1..Len(s), NEW j \in 1..Len(s), j - i >= Limit[w]
      PROVE  s[j] - s[i] >= Span[w]
  <2>1. CASE j <= n
    BY <1>1, <1>3, <1>4, <1>6, <1>9, <2>1
  <2>2. CASE j > n
    <3>1. s[j] = now
      BY <1>1, <1>4, <2>2
    <3>2. i \in 1..Pruned(w)
      BY <1>1, <1>2, <1>3, <1>9 DEF n
    <3>3. i \in 1..n
      BY <1>1, <1>2, <3>2
    <3>4. s[i] <= now - Span[w] /\ s[i] \in Nat
      BY <1>2, <1>4, <3>2, <3>3
    <3> QED BY <1>1, <1>3, <3>1, <3>4
  <2> QED BY <1>1, <2>1, <2>2
<1>10. \A i \in 1..Pruned(w) : s[i] <= now - Span[w]
  <2>1. ASSUME NEW i \in 1..Pruned(w) PROVE s[i] <= now - Span[w]
    <3>1. i \in 1..n
      BY <1>1, <1>2, <2>1
    <3>2. s[i] = log[w][i]
      BY <1>4, <3>1
    <3>3. log[w][i] <= now - Span[w]
      BY <1>2, <2>1
    <3> QED BY <3>2, <3>3
  <2> QED BY <2>1
<1> QED BY <1>7, <1>8, <1>9, <1>10

(* A section under the lock that prunes, and then extends the logs within    *)
(* their limits, keeps everything said about the logs.                       *)
LEMMA LockedKeeps ==
  ASSUME IInv, Prune, now' = now,
         NEW k \in [Windows -> Nat],
         log' \in [Windows -> Seq(Nat)],
         \A w \in Windows : /\ Extends(log'[w], w, k[w])
                            /\ Len(log[w]) + k[w] - Pruned(w) <= Limit[w]
  PROVE  /\ head' \in [Windows -> Nat]
         /\ \A w \in Windows : head'[w] <= Len(log'[w])
         /\ LogSorted' /\ DequeFits' /\ LogSpaced'
<1>1. ASSUME NEW w \in Windows
      PROVE  /\ head'[w] = Pruned(w) /\ Pruned(w) \in Nat /\ Pruned(w) <= Len(log[w])
             /\ Len(log[w]) \in Nat /\ Len(log'[w]) = Len(log[w]) + k[w] /\ k[w] \in Nat
             /\ Len(log'[w]) - head'[w] <= Limit[w]
  BY PrunedFits DEF Prune, Extends, IInv, TypeOK
<1>2. head' \in [Windows -> Nat]
  <2>1. \A w \in Windows : Pruned(w) \in Nat
    BY <1>1
  <2> QED BY <2>1 DEF Prune
<1>5. ASSUME NEW w \in Windows PROVE head'[w] <= Len(log'[w])
  <2>1. head'[w] = Pruned(w) /\ Len(log'[w]) = Len(log[w]) + k[w]
    BY <1>1
  <2>2. Pruned(w) \in Nat /\ Pruned(w) <= Len(log[w]) /\ Len(log[w]) \in Nat /\ k[w] \in Nat
    BY <1>1
  <2> QED BY <2>1, <2>2
<1>3. LogSorted' /\ LogSpaced'
  BY ExtendKeeps DEF LogSorted, LogSpaced, Limit, Span
<1>4. DequeFits'
  <2>1. ASSUME NEW w \in Windows
        PROVE  /\ \A i \in 1..head'[w] : log'[w][i] <= now - Span[w]
               /\ Len(log'[w]) - head'[w] <= Limit[w]
    <3>1. \A i \in 1..Pruned(w) : log'[w][i] <= now - Span[w]
      BY <1>1, ExtendKeeps
    <3> QED BY <1>1, <3>1
  <2> QED BY <2>1 DEF DequeFits, Expired, Limit, Span
<1> QED BY <1>2, <1>3, <1>4, <1>5

(* Claims stay where they are in a log that is only extended.                *)
LEMMA GrantsKept ==
  ASSUME IInv, granted' = granted, log' \in [Windows -> Seq(Nat)],
         NEW k \in [Windows -> Nat],
         \A w \in Windows : Extends(log'[w], w, k[w])
  PROVE  GrantsLogged'
<1>1. ASSUME NEW w \in Windows
      PROVE  /\ Len(log[w]) \in Nat /\ Len(log'[w]) = Len(log[w]) + k[w]
             /\ \A i \in 1..Len(log[w]) : log'[w][i] = log[w][i]
  BY DEF Extends, IInv, TypeOK
<1>2. ASSUME NEW w \in Windows, NEW m \in 1..Len(granted)
      PROVE  /\ granted[m].pos[w] \in 1..Len(log'[w])
             /\ log'[w][granted[m].pos[w]] = granted[m].at
  <2>1. granted[m].pos[w] \in 1..Len(log[w]) /\ log[w][granted[m].pos[w]] = granted[m].at
    BY DEF IInv, GrantsLogged
  <2>2. /\ Len(log[w]) \in Nat /\ Len(log'[w]) = Len(log[w]) + k[w] /\ k[w] \in Nat
        /\ \A i \in 1..Len(log[w]) : log'[w][i] = log[w][i]
    BY <1>1
  <2> DEFINE pos == granted[m].pos[w]
  <2>3. pos \in 1..Len(log[w]) /\ log[w][pos] = granted[m].at
    BY <2>1
  <2> HIDE DEF pos
  <2>4. log'[w][pos] = granted[m].at
    BY <2>2, <2>3
  <2>5. pos \in 1..Len(log'[w])
    BY <2>2, <2>3
  <2> QED BY <2>4, <2>5 DEF pos
<1> QED BY <1>2 DEF IInv, GrantsLogged
-----------------------------------------------------------------------------
LEMMA InitEstablishes == Init => IInv
BY RateLimiterAssumption, LimitsType
DEF Init, IInv, TypeOK, LogSorted, DequeFits, LogSpaced, GrantsLogged, Points, Windows

(* A step that leaves the logs, the claims and the clock alone.              *)
LEMMA QuietKeeps ==
  ASSUME IInv, UNCHANGED <<now, log, head, granted>>,
         pc' \in [Threads -> Points], at' \in [Threads -> Nat], arrivals' \in Seq(Nat)
  PROVE  IInv'
<1>1. TypeOK'
  BY DEF IInv, TypeOK
<1>2. LogSorted' /\ DequeFits' /\ LogSpaced' /\ GrantsLogged'
  BY DEF IInv, LogSorted, DequeFits, LogSpaced, GrantsLogged, Expired
<1> QED BY <1>1, <1>2 DEF IInv

LEMMA ClaimKeeps == ASSUME IInv, NEW t \in Threads, Claim(t) PROVE IInv'
<1> DEFINE k == [w \in Windows |-> 1]
           new == [at |-> now, pos |-> [w \in Windows |-> Len(log[w]) + 1]]
<1>1. /\ Prune /\ now' = now
      /\ log' = [w \in Windows |-> Append(log[w], now)]
      /\ granted' = Append(granted, new)
  BY DEF Claim
<1>2. now \in Nat /\ log \in [Windows -> Seq(Nat)]
  BY DEF IInv, TypeOK
<1>3. log' \in [Windows -> Seq(Nat)]
  BY <1>1, <1>2
<1>4. ASSUME NEW w \in Windows
      PROVE  Extends(log'[w], w, 1) /\ Len(log[w]) + 1 - Pruned(w) <= Limit[w]
  <2>1. Extends(log'[w], w, 1)
    BY <1>1, <1>2 DEF Extends
  <2>2. Len(log[w]) - Pruned(w) < Limit[w]
    BY PrunedFits, LimitsType, <1>2 DEF Claim, Room, Full
  <2> QED BY <2>1, <2>2, PrunedFits, LimitsType, <1>2
<1>5. /\ head' \in [Windows -> Nat]
      /\ \A w \in Windows : head'[w] <= Len(log'[w])
      /\ LogSorted' /\ DequeFits' /\ LogSpaced'
  <2>1. k \in [Windows -> Nat] /\ \A w \in Windows : k[w] = 1
    OBVIOUS
  <2> HIDE DEF k
  <2> QED BY <1>1, <1>3, <1>4, <2>1, LockedKeeps
<1>6. new \in [at : Nat, pos : [Windows -> Nat]]
  BY <1>2
<1>7. TypeOK'
  <2>1. granted' \in Seq([at : Nat, pos : [Windows -> Nat]])
    BY <1>1, <1>6 DEF IInv, TypeOK
  <2>2. now' \in Nat /\ pc' \in [Threads -> Points] /\ at' \in [Threads -> Nat]
        /\ arrivals' \in Seq(Nat)
    BY DEF IInv, TypeOK, Claim, Points
  <2> QED BY <1>3, <1>5, <2>1, <2>2 DEF TypeOK
<1>8. GrantsLogged'
  <2> DEFINE g == Len(granted)
  <2>1. /\ granted \in Seq([at : Nat, pos : [Windows -> Nat]]) /\ g \in Nat
        /\ Len(granted') = g + 1 /\ granted'[g + 1] = new
        /\ \A m \in 1..g : granted'[m] = granted[m]
    BY <1>1, <1>6 DEF IInv, TypeOK
  <2>2. ASSUME NEW w \in Windows
        PROVE  /\ Len(log[w]) \in Nat /\ Len(log'[w]) = Len(log[w]) + 1
               /\ \A i \in 1..Len(log[w]) : log'[w][i] = log[w][i]
               /\ log'[w][Len(log[w]) + 1] = now
               /\ new.pos[w] = Len(log[w]) + 1 /\ new.at = now
    BY <1>1, <1>2
  <2>3. ASSUME NEW w \in Windows, NEW m \in 1..g
        PROVE  /\ granted[m].pos[w] \in 1..Len(log[w])
               /\ log[w][granted[m].pos[w]] = granted[m].at
    BY DEF IInv, GrantsLogged
  <2>4. ASSUME NEW w \in Windows, NEW i \in 1..g, NEW m \in 1..g, i <= m
        PROVE  granted[m].pos[w] - granted[i].pos[w] >= m - i
    BY <2>4 DEF IInv, GrantsLogged
  <2> HIDE DEF g, new
  <2>5. ASSUME NEW w \in Windows, NEW m \in 1..Len(granted')
        PROVE  /\ granted'[m].pos[w] \in 1..Len(log'[w])
               /\ log'[w][granted'[m].pos[w]] = granted'[m].at
    <3>1. CASE m = g + 1
      BY <2>1, <2>2, <3>1
    <3>2. CASE m \in 1..g
      <4>1. granted'[m] = granted[m]
        BY <2>1, <3>2
      <4>2. granted[m].pos[w] \in 1..Len(log[w]) /\ log[w][granted[m].pos[w]] = granted[m].at
        BY <2>3, <3>2
      <4> QED BY <2>2, <4>1, <4>2
    <3> QED BY <2>1, <3>1, <3>2
  <2>6. ASSUME NEW w \in Windows, NEW i \in 1..Len(granted'), NEW m \in 1..Len(granted'),
               i <= m
        PROVE  granted'[m].pos[w] - granted'[i].pos[w] >= m - i
    <3>1. CASE m \in 1..g
      <4>1. i \in 1..g
        BY <2>1, <2>6, <3>1
      <4>2. granted'[m] = granted[m] /\ granted'[i] = granted[i]
        BY <2>1, <3>1, <4>1
      <4> QED BY <2>4, <2>6, <3>1, <4>1, <4>2
    <3>2. CASE m = g + 1 /\ i = g + 1
      BY <2>1, <2>2, <3>2
    <3>3. CASE m = g + 1 /\ i \in 1..g
      <4>1. g \in 1..g /\ i <= g
        BY <2>1, <3>3
      <4>2. granted[g].pos[w] - granted[i].pos[w] >= g - i
        BY <2>4, <3>3, <4>1
      <4>3. granted[g].pos[w] \in 1..Len(log[w]) /\ granted[i].pos[w] \in 1..Len(log[w])
        BY <2>3, <3>3, <4>1
      <4>4. granted'[m].pos[w] = Len(log[w]) + 1 /\ granted'[i] = granted[i]
        BY <2>1, <2>2, <3>3
      <4>5. Len(log[w]) \in Nat /\ g \in Nat /\ i \in 1..g /\ m = g + 1
        BY <2>1, <2>2, <3>3
      <4> QED BY <4>2, <4>3, <4>4, <4>5
    <3> QED BY <2>1, <2>6, <3>1, <3>2, <3>3
  <2> QED BY <2>5, <2>6 DEF GrantsLogged
<1> QED BY <1>5, <1>7, <1>8 DEF IInv

(* A thread told to sleep is told until when: some window is full, and the   *)
(* oldest entry of its deque is there to be read.                            *)
(* What decides is an entry that is still in its window: it is never waited  *)
(* for nothing, and never longer than the window; so there is always a wait, *)
(* and the floor of a sleep adds nothing to it.                              *)
LEMMA WakeAtBounds ==
  ASSUME IInv, ~Room
  PROVE  /\ WakeAt \in Nat /\ WakeAt > now
         /\ \E w \in Windows : WakeAt <= now + Span[w]
         /\ \A w \in Windows : Full(w) => WakeAt >= log[w][Pruned(w) + 1] + Span[w]
         /\ SleepUntil = WakeAt
<1> DEFINE Due(w) == log[w][Pruned(w) + 1] + Span[w]
           Dues   == {Due(w) : w \in {v \in Windows : Full(v)}}
<1>1. ASSUME NEW w \in Windows, Full(w)
      PROVE  Due(w) \in Nat /\ Due(w) > now /\ Due(w) <= now + Span[w]
  <2>1. /\ Pruned(w) \in Nat /\ Len(log[w]) \in Nat /\ log[w] \in Seq(Nat)
        /\ Limit[w] \in Nat \ {0} /\ Span[w] \in Nat
    BY PrunedFits, LimitsType DEF IInv, TypeOK
  <2>2. Pruned(w) + 1 \in 1..Len(log[w])
    BY <1>1, <2>1 DEF Full
  <2>3. log[w][Pruned(w) + 1] \in Nat /\ log[w][Pruned(w) + 1] <= now /\ now \in Nat
    BY <2>1, <2>2 DEF IInv, TypeOK, LogSorted
  <2>4. log[w][Pruned(w) + 1] > now - Span[w]
    BY <2>1, <2>2, <2>3, PrunedFits DEF Expired
  <2> HIDE DEF Due
  <2> QED BY <2>1, <2>3, <2>4 DEF Due
<1>2. PICK v \in Windows : Full(v)
  BY DEF Room
<1> HIDE DEF Due
<1>3. \E d \in Dues : \A w \in Windows : Full(w) => d >= Due(w)
  <2>1. PICK u \in Windows : Full(u) /\ \A w \in Windows : Full(w) => Due(u) >= Due(w)
    <3>1. CASE Full("short") /\ Full("long")
      BY <1>1, <3>1 DEF Windows
    <3>2. CASE ~(Full("short") /\ Full("long"))
      BY <1>1, <1>2, <3>2 DEF Windows
    <3> QED BY <3>1, <3>2
  <2> QED BY <2>1
<1>4. WakeAt \in Dues /\ \A w \in Windows : Full(w) => WakeAt >= Due(w)
  BY <1>3 DEF WakeAt, Due
<1>5. WakeAt > now
  BY <1>1, <1>4
<1> QED BY <1>1, <1>4, <1>5 DEF Due, SleepUntil

(* A section under the lock that only prunes.                                *)
LEMMA PruneKeeps ==
  ASSUME IInv, Prune, UNCHANGED <<now, log, granted>>,
         pc' \in [Threads -> Points], at' \in [Threads -> Nat], arrivals' \in Seq(Nat)
  PROVE  IInv'
<1> DEFINE k == [w \in Windows |-> 0]
<1>1. Prune /\ UNCHANGED <<now, log, granted>>
  OBVIOUS
<1>2. log' \in [Windows -> Seq(Nat)]
  BY <1>1 DEF IInv, TypeOK
<1>3. k \in [Windows -> Nat] /\ \A w \in Windows : k[w] = 0
  OBVIOUS
<1>4. ASSUME NEW w \in Windows
      PROVE  Extends(log'[w], w, k[w]) /\ Len(log[w]) + k[w] - Pruned(w) <= Limit[w]
  <2>1. /\ log'[w] = log[w] /\ log[w] \in Seq(Nat) /\ Len(log[w]) \in Nat
        /\ head[w] \in Nat /\ Len(log[w]) - head[w] <= Limit[w]
    BY <1>1 DEF IInv, TypeOK, DequeFits
  <2>2. Pruned(w) \in Nat /\ head[w] <= Pruned(w) /\ Limit[w] \in Nat
    BY PrunedFits, LimitsType
  <2> QED BY <1>3, <2>1, <2>2 DEF Extends
<1> HIDE DEF k
<1>5. /\ head' \in [Windows -> Nat]
      /\ \A w \in Windows : head'[w] <= Len(log'[w])
      /\ LogSorted' /\ DequeFits' /\ LogSpaced'
  BY <1>1, <1>2, <1>3, <1>4, LockedKeeps
<1>6. GrantsLogged'
  BY <1>1, <1>2, <1>3, <1>4, GrantsKept
<1>7. now' \in Nat /\ granted' \in Seq([at : Nat, pos : [Windows -> Nat]])
  BY <1>1 DEF IInv, TypeOK
<1> QED BY <1>2, <1>5, <1>6, <1>7 DEF IInv, TypeOK

LEMMA WaitKeeps == ASSUME IInv, NEW t \in Threads, Wait(t) PROVE IInv'
<1>1. Prune /\ ~Room /\ UNCHANGED <<now, log, granted, arrivals>>
  BY DEF Wait
<1>2. pc' \in [Threads -> Points] /\ at' \in [Threads -> Nat] /\ arrivals' \in Seq(Nat)
  BY <1>1, WakeAtBounds DEF IInv, TypeOK, Wait, Points
<1> QED BY <1>1, <1>2, PruneKeeps

LEMMA Concatenation ==
  ASSUME NEW a \in Seq(Nat), NEW b \in Seq(Nat)
  PROVE  /\ a \o b \in Seq(Nat) /\ Len(a \o b) = Len(a) + Len(b)
         /\ \A i \in 1..Len(a) : (a \o b)[i] = a[i]
         /\ \A i \in 1..(Len(a) + Len(b)) : i > Len(a) => (a \o b)[i] = b[i - Len(a)]
OBVIOUS

LEMMA ReconcileKeeps ==
  ASSUME IInv, NEW v \in Windows, Reconcile(v), UNCHANGED <<now, at, granted, arrivals>>,
         pc' \in [Threads -> Points]
  PROVE  IInv'
<1>1. CASE UNCHANGED <<log, head>>
  BY <1>1, QuietKeeps DEF IInv, TypeOK
<1>2. ASSUME NEW r \in Reports, r.limit >= 1, NEW n \in Scaled(v, r), Prune,
             log' = [log EXCEPT ![v] = @ \o [i \in 1..Padding(v, n) |-> now]]
      PROVE  IInv'
  <2> DEFINE k == [w \in Windows |-> IF w = v THEN Padding(v, n) ELSE 0]
  <2>1. Padding(v, n) \in Nat /\ Len(log[v]) + Padding(v, n) - Pruned(v) <= Limit[v]
    BY <1>2, PaddingFits
  <2>2. now \in Nat /\ log \in [Windows -> Seq(Nat)]
    BY DEF IInv, TypeOK
  <2>3. k \in [Windows -> Nat] /\ k[v] = Padding(v, n)
        /\ \A w \in Windows : w # v => k[w] = 0
    BY <2>1
  <2>4. Extends(log'[v], v, k[v])
    <3> DEFINE p   == Padding(v, n)
               pad == [i \in 1..p |-> now]
    <3>1. p \in Nat /\ k[v] = p /\ log'[v] = log[v] \o pad /\ log[v] \in Seq(Nat)
      BY <1>2, <2>1, <2>2, <2>3
    <3> HIDE DEF p
    <3>2. pad \in Seq(Nat) /\ Len(pad) = p /\ \A i \in 1..p : pad[i] = now
      BY <2>2, <3>1
    <3> HIDE DEF pad, k
    <3>3. /\ log'[v] \in Seq(Nat) /\ Len(log'[v]) = Len(log[v]) + p
          /\ \A i \in 1..Len(log[v]) : log'[v][i] = log[v][i]
      <4>1. /\ log[v] \o pad \in Seq(Nat)
            /\ Len(log[v] \o pad) = Len(log[v]) + Len(pad)
            /\ \A i \in 1..Len(log[v]) : (log[v] \o pad)[i] = log[v][i]
        BY <3>1, <3>2, Concatenation
      <4> QED BY <3>1, <3>2, <4>1
    <3>4. ASSUME NEW i \in (Len(log[v]) + 1)..Len(log'[v]) PROVE log'[v][i] = now
      <4>1. /\ i - Len(log[v]) \in 1..p /\ i \in 1..(Len(log[v]) + Len(pad))
            /\ i > Len(log[v])
        BY <3>1, <3>2, <3>3
      <4>2. log'[v][i] = pad[i - Len(log[v])]
        BY <3>1, <3>2, <4>1, Concatenation
      <4> QED BY <3>2, <4>1, <4>2
    <3> QED BY <3>1, <3>3, <3>4 DEF Extends
  <2>5. log' \in [Windows -> Seq(Nat)]
    <3>1. log'[v] \in Seq(Nat)
      BY <2>4 DEF Extends
    <3> QED BY <1>2, <2>2, <3>1
  <2>6. ASSUME NEW w \in Windows
        PROVE  Extends(log'[w], w, k[w]) /\ Len(log[w]) + k[w] - Pruned(w) <= Limit[w]
    <3>1. CASE w = v
      BY <2>1, <2>3, <2>4, <3>1
    <3>2. CASE w # v
      <4>1. /\ log'[w] = log[w] /\ log[w] \in Seq(Nat) /\ Len(log[w]) \in Nat
            /\ head[w] \in Nat /\ Len(log[w]) - head[w] <= Limit[w] /\ k[w] = 0
        BY <1>2, <2>2, <2>3, <3>2 DEF IInv, TypeOK, DequeFits
      <4>2. Pruned(w) \in Nat /\ head[w] <= Pruned(w) /\ Limit[w] \in Nat
        BY PrunedFits, LimitsType
      <4> QED BY <4>1, <4>2 DEF Extends
    <3> QED BY <3>1, <3>2
  <2> HIDE DEF k
  <2>7. /\ head' \in [Windows -> Nat]
        /\ \A w \in Windows : head'[w] <= Len(log'[w])
        /\ LogSorted' /\ DequeFits' /\ LogSpaced'
    BY <1>2, <2>3, <2>5, <2>6, LockedKeeps
  <2>8. GrantsLogged'
    BY <2>3, <2>5, <2>6, GrantsKept
  <2> QED BY <2>5, <2>7, <2>8 DEF IInv, TypeOK
<1> QED BY <1>1, <1>2 DEF Reconcile

LEMMA TickKeeps == ASSUME IInv, Tick PROVE IInv'
<1>1. /\ now' = now + 1 /\ now \in Nat
      /\ UNCHANGED <<log, head, pc, at, granted, arrivals>>
  BY DEF Tick, IInv, TypeOK
<1>2. TypeOK'
  BY <1>1 DEF IInv, TypeOK
<1>3. LogSorted'
  BY <1>1 DEF IInv, TypeOK, LogSorted
<1>4. DequeFits'
  <2>1. ASSUME NEW w \in Windows, NEW i \in 1..head'[w] PROVE log'[w][i] <= now' - Span[w]
    <3>1. /\ head[w] \in Nat /\ head[w] <= Len(log[w]) /\ log[w] \in Seq(Nat)
          /\ i \in 1..head[w]
      BY <1>1 DEF IInv, TypeOK
    <3>2. log[w][i] <= now - Span[w] /\ log[w][i] \in Nat
      BY <3>1 DEF IInv, DequeFits, Expired
    <3> QED BY <1>1, <3>2, LimitsType
  <2>2. \A w \in Windows : Len(log'[w]) - head'[w] <= Limit[w]
    BY <1>1 DEF IInv, DequeFits
  <2> QED BY <1>1, <2>1, <2>2 DEF DequeFits, Expired, Limit, Span
<1>5. LogSpaced' /\ GrantsLogged'
  BY <1>1 DEF IInv, LogSpaced, GrantsLogged
<1> QED BY <1>2, <1>3, <1>4, <1>5 DEF IInv

LEMMA StepKeeps == ASSUME IInv, [Next]_vars PROVE IInv'
<1>1. ASSUME NEW t \in Threads, ThreadStep(t) PROVE IInv'
  <2>1. CASE Claim(t)
    BY <2>1, ClaimKeeps
  <2>2. CASE Wait(t)
    BY <2>2, WaitKeeps
  <2>3. CASE Send(t) \/ TransportError(t)
    <3>1. /\ pc \in [Threads -> Points] /\ at \in [Threads -> Nat]
          /\ arrivals \in Seq(Nat) /\ now \in Nat
      BY DEF IInv, TypeOK
    <3>2. CASE Send(t)
      BY <3>1, <3>2, QuietKeeps DEF Send, Points
    <3>3. CASE TransportError(t)
      BY <3>1, <3>3, QuietKeeps DEF TransportError, Points
    <3> QED BY <2>3, <3>2, <3>3
  <2>4. CASE ObserveLong(t) \/ ObserveShort(t)
    <3>1. PICK v \in Windows : Reconcile(v)
      BY <2>4 DEF ObserveLong, ObserveShort, Windows
    <3>2. UNCHANGED <<now, at, granted, arrivals>> /\ pc' \in [Threads -> Points]
      BY <2>4 DEF ObserveLong, ObserveShort, IInv, TypeOK, Points
    <3> QED BY <3>1, <3>2, ReconcileKeeps
  <2> QED BY <1>1, <2>1, <2>2, <2>3, <2>4 DEF ThreadStep
<1>2. CASE UNCHANGED vars
  BY <1>2, QuietKeeps DEF vars, IInv, TypeOK
<1> QED BY <1>1, <1>2, TickKeeps DEF Next

-----------------------------------------------------------------------------
(* Every reachable state satisfies the inductive invariant: what the deques  *)
(* hold and have dropped, and where each claim of acquire stands in them.    *)
THEOREM Invariance == Spec => []IInv
BY InitEstablishes, StepKeeps, PTL DEF Spec

(* The limiter's state is well typed; in particular _prune never pops more    *)
(* than the deque holds, and the oldest entry _sleep is computed from exists. *)
THEOREM TypeCorrect == Spec => []TypeOK
BY Invariance, PTL DEF IInv

(* For every number of threads, every pair of limits and windows and whatever *)
(* the API's headers say: claims of acquire respect both windows.             *)
THEOREM WindowIsRespected == Spec => []WindowRespected
<1>1. IInv => WindowRespected
  <2> SUFFICES ASSUME IInv, NEW w \in Windows, NEW i \in 1..Len(granted),
                      NEW j \in 1..Len(granted), j - i >= Limit[w]
               PROVE  granted[j].at - granted[i].at >= Span[w]
    BY DEF WindowRespected
  <2>1. i <= j
    BY LimitsType
  <2>2. /\ granted[i].pos[w] \in 1..Len(log[w]) /\ log[w][granted[i].pos[w]] = granted[i].at
        /\ granted[j].pos[w] \in 1..Len(log[w]) /\ log[w][granted[j].pos[w]] = granted[j].at
        /\ granted[j].pos[w] - granted[i].pos[w] >= j - i
    BY <2>1 DEF IInv, GrantsLogged
  <2>3. granted[j].pos[w] - granted[i].pos[w] >= Limit[w]
    BY <2>2, LimitsType
  <2> QED BY <2>2, <2>3 DEF IInv, LogSpaced
<1> QED BY <1>1, Invariance, PTL
-----------------------------------------------------------------------------
(* A thread is told to sleep until an entry expires that has the whole limit *)
(* of entries from itself on.                                                *)
DueAfter(w, p, d) ==
  /\ p \in 1..Len(log[w]) /\ p + Limit[w] - 1 <= Len(log[w])
  /\ log[w][p] + Span[w] = d

SleepBacked ==
  \A t \in Threads : pc[t] = "sleeping" =>
    \E w \in Windows : \E p \in Nat : DueAfter(w, p, at[t])

(* Entries stay where they are.                                              *)
LEMMA LogGrows ==
  ASSUME IInv, [Next]_vars, NEW w \in Windows
  PROVE  /\ Len(log[w]) \in Nat /\ Len(log'[w]) \in Nat /\ Len(log'[w]) >= Len(log[w])
         /\ \A i \in 1..Len(log[w]) : log'[w][i] = log[w][i]
<1> DEFINE Grown == /\ Len(log[w]) \in Nat /\ Len(log'[w]) \in Nat
                    /\ Len(log'[w]) >= Len(log[w])
                    /\ \A i \in 1..Len(log[w]) : log'[w][i] = log[w][i]
<1>1. log \in [Windows -> Seq(Nat)] /\ log[w] \in Seq(Nat) /\ now \in Nat
  BY DEF IInv, TypeOK
<1>2. ASSUME UNCHANGED log PROVE Grown
  BY <1>1, <1>2
<1>3. ASSUME log' = [v \in Windows |-> Append(log[v], now)] PROVE Grown
  <2>1. log'[w] = Append(log[w], now)
    BY <1>3
  <2> QED BY <1>1, <2>1
<1>4. ASSUME NEW v \in Windows, NEW n \in Nat,
             log' = [log EXCEPT ![v] = @ \o [i \in 1..n |-> now]]
      PROVE  Grown
  <2>1. CASE w # v
    BY <1>1, <1>4, <2>1
  <2>2. CASE w = v
    <3> DEFINE pad == [i \in 1..n |-> now]
    <3>1. pad \in Seq(Nat) /\ Len(pad) = n
      BY <1>1, <1>4
    <3>2. log'[w] = log[w] \o pad
      BY <1>1, <1>4, <2>2
    <3> HIDE DEF pad
    <3>3. /\ Len(log[w] \o pad) = Len(log[w]) + Len(pad)
          /\ \A i \in 1..Len(log[w]) : (log[w] \o pad)[i] = log[w][i]
      BY <1>1, <3>1, Concatenation
    <3> QED BY <1>1, <1>4, <3>1, <3>2, <3>3
  <2> QED BY <2>1, <2>2
<1>5. ASSUME NEW t \in Threads, ThreadStep(t)
      PROVE  \/ UNCHANGED log
             \/ log' = [v \in Windows |-> Append(log[v], now)]
             \/ \E v \in Windows, n \in Nat :
                  log' = [log EXCEPT ![v] = @ \o [i \in 1..n |-> now]]
  <2>1. CASE Claim(t)
    BY <2>1 DEF Claim
  <2>2. CASE Wait(t) \/ Send(t) \/ TransportError(t)
    BY <2>2 DEF Wait, Send, TransportError
  <2>3. CASE ObserveLong(t) \/ ObserveShort(t)
    <3>1. PICK v \in Windows : Reconcile(v)
      BY <2>3 DEF ObserveLong, ObserveShort, Windows
    <3>2. CASE UNCHANGED <<log, head>>
      BY <3>2
    <3>3. ASSUME NEW r \in Reports, r.limit >= 1, NEW n \in Scaled(v, r),
                 log' = [log EXCEPT ![v] = @ \o [i \in 1..Padding(v, n) |-> now]]
          PROVE  \E u \in Windows, m \in Nat :
                   log' = [log EXCEPT ![u] = @ \o [i \in 1..m |-> now]]
      <4>1. Padding(v, n) \in Nat
        BY <3>3, PaddingFits
      <4> QED BY <3>3, <4>1
    <3> QED BY <3>1, <3>2, <3>3 DEF Reconcile
  <2> QED BY <1>5, <2>1, <2>2, <2>3 DEF ThreadStep
<1>6. ASSUME NEW t \in Threads, ThreadStep(t) PROVE Grown
  <2>1. CASE UNCHANGED log
    BY <1>2, <2>1
  <2>2. CASE log' = [v \in Windows |-> Append(log[v], now)]
    BY <1>3, <2>2
  <2>3. ASSUME NEW v \in Windows, NEW n \in Nat,
               log' = [log EXCEPT ![v] = @ \o [i \in 1..n |-> now]]
        PROVE  Grown
    BY <1>4, <2>3
  <2> HIDE DEF Grown
  <2> QED BY <1>5, <1>6, <2>1, <2>2, <2>3
<1>7. CASE Tick \/ UNCHANGED vars
  BY <1>2, <1>7 DEF Tick, vars
<1> QED BY <1>6, <1>7 DEF Next

LEMMA DueStays ==
  ASSUME IInv, [Next]_vars, NEW w \in Windows, NEW p \in Nat, NEW d, DueAfter(w, p, d)
  PROVE  DueAfter(w, p, d)'
<1>1. Limit[w] \in Nat \ {0}
  BY LimitsType
<1> QED BY <1>1, LogGrows DEF DueAfter, Limit, Span

(* The window that decides how long to sleep is full from its oldest entry.  *)
LEMMA WakeAtDue ==
  ASSUME IInv, ~Room
  PROVE  \E w \in Windows : \E p \in Nat : DueAfter(w, p, WakeAt)
<1> DEFINE Due(w) == log[w][Pruned(w) + 1] + Span[w]
           Dues   == {Due(w) : w \in {v \in Windows : Full(v)}}
<1>1. ASSUME NEW w \in Windows, Full(w)
      PROVE  DueAfter(w, Pruned(w) + 1, Due(w)) /\ Pruned(w) + 1 \in Nat /\ Due(w) \in Nat
  <2>1. /\ Pruned(w) \in Nat /\ Len(log[w]) \in Nat /\ log[w] \in Seq(Nat)
        /\ Limit[w] \in Nat \ {0} /\ Span[w] \in Nat
    BY PrunedFits, LimitsType DEF IInv, TypeOK
  <2>2. Pruned(w) + 1 \in 1..Len(log[w]) /\ Pruned(w) + 1 + Limit[w] - 1 <= Len(log[w])
    BY <1>1, <2>1 DEF Full
  <2>3. Pruned(w) + 1 \in Nat
    BY <2>1
  <2>4. log[w][Pruned(w) + 1] \in Nat
    BY <2>1, <2>2
  <2>5. Due(w) = log[w][Pruned(w) + 1] + Span[w]
    OBVIOUS
  <2>6. Due(w) \in Nat
    BY <2>1, <2>4, <2>5
  <2> HIDE DEF Due
  <2>7. DueAfter(w, Pruned(w) + 1, Due(w))
    BY <2>2, <2>5 DEF DueAfter
  <2> QED BY <2>3, <2>6, <2>7
<1>2. PICK v \in Windows : Full(v)
  BY DEF Room
<1> HIDE DEF Due
<1>3. \E d \in Dues : \A w \in Windows : Full(w) => d >= Due(w)
  <2>1. PICK u \in Windows : Full(u) /\ \A w \in Windows : Full(w) => Due(u) >= Due(w)
    <3>1. CASE Full("short") /\ Full("long")
      BY <1>1, <3>1 DEF Windows
    <3>2. CASE ~(Full("short") /\ Full("long"))
      BY <1>1, <1>2, <3>2 DEF Windows
    <3> QED BY <3>1, <3>2
  <2> QED BY <2>1
<1>4. WakeAt \in Dues
  BY <1>3 DEF WakeAt, Due
<1> QED BY <1>1, <1>4

LEMMA SleepKeeps ==
  ASSUME IInv, SleepBacked, [Next]_vars
  PROVE  SleepBacked'
<1>1. pc \in [Threads -> Points] /\ at \in [Threads -> Nat]
  BY DEF IInv, TypeOK
<1> SUFFICES ASSUME NEW t \in Threads, pc'[t] = "sleeping"
             PROVE  \E w \in Windows : \E p \in Nat : DueAfter(w, p, at[t])'
  BY DEF SleepBacked
<1>2. CASE Wait(t)
  <2>1. PICK w \in Windows, p \in Nat : DueAfter(w, p, WakeAt)
    BY <1>2, WakeAtDue DEF Wait
  <2>2. at'[t] = WakeAt /\ log' = log
    BY <1>1, <1>2, WakeAtBounds DEF Wait
  <2> QED BY <2>1, <2>2 DEF DueAfter, Limit, Span
<1>3. CASE pc[t] = "sleeping" /\ at'[t] = at[t]
  <2>1. PICK w \in Windows, p \in Nat : DueAfter(w, p, at[t])
    BY <1>3 DEF SleepBacked
  <2>2. DueAfter(w, p, at[t])'
    BY <2>1, <1>3, LogGrows, LimitsType DEF DueAfter, Limit, Span
  <2> QED BY <2>2
<1>4. Wait(t) \/ (pc[t] = "sleeping" /\ at'[t] = at[t])
  <2>1. ASSUME NEW u \in Threads, ThreadStep(u)
        PROVE  Wait(t) \/ (pc[t] = "sleeping" /\ at'[t] = at[t])
    <3>1. CASE u = t
      BY <1>1, <2>1, <3>1
      DEF ThreadStep, Claim, Send, TransportError, ObserveLong, ObserveShort
    <3>2. CASE u # t
      BY <1>1, <2>1, <3>2
      DEF ThreadStep, Claim, Wait, Send, TransportError, ObserveLong, ObserveShort
    <3> QED BY <3>1, <3>2
  <2>2. CASE Tick \/ UNCHANGED vars
    BY <2>2 DEF Tick, vars
  <2> QED BY <2>1, <2>2 DEF Next
<1> QED BY <1>2, <1>3, <1>4

LEMMA EntryType ==
  ASSUME NEW s \in Seq(Nat), NEW p \in 1..Len(s)
  PROVE  s[p] \in Nat
OBVIOUS

LEMMA LaterEntry ==
  ASSUME NEW s \in Seq(Nat), NEW p \in 1..Len(s), NEW i \in 1..Len(s), p <= i,
         \A k, m \in 1..Len(s) : k <= m => s[k] <= s[m],
         NEW a \in Int, s[p] > a
  PROVE  s[i] > a /\ s[i] \in Nat
<1>1. s[p] <= s[i] /\ s[p] \in Nat /\ s[i] \in Nat
  OBVIOUS
<1> QED BY <1>1

(* From the entry a sleeper waits for, the whole limit is still in the       *)
(* window: nobody sleeps while there is a slot, for any limits and windows.   *)
THEOREM SleepIsNeeded == Spec => []NoNeedlessSleep
<1>1. Init => SleepBacked
  BY DEF Init, SleepBacked
<1>2. IInv /\ SleepBacked /\ [Next]_vars => SleepBacked'
  BY SleepKeeps
<1>3. IInv /\ SleepBacked => NoNeedlessSleep
  <2> SUFFICES ASSUME IInv, SleepBacked, NEW t \in Threads, pc[t] = "sleeping", now < at[t]
               PROVE  \E w \in Windows :
                        Cardinality({i \in 1..Len(log[w]) : ~Expired(w, i)}) >= Limit[w]
    BY DEF NoNeedlessSleep
  <2>1. PICK w \in Windows, p \in Nat : DueAfter(w, p, at[t])
    BY DEF SleepBacked
  <2> DEFINE n     == Len(log[w])
             fresh == {i \in 1..n : ~Expired(w, i)}
             run   == p..(p + Limit[w] - 1)
  <2>2. /\ n \in Nat /\ log[w] \in Seq(Nat) /\ now \in Nat /\ at[t] \in Nat
        /\ Limit[w] \in Nat \ {0} /\ Span[w] \in Nat
        /\ p \in 1..n /\ p + Limit[w] - 1 <= n /\ log[w][p] + Span[w] = at[t]
    BY <2>1, LimitsType DEF IInv, TypeOK, DueAfter
  <2>3. ASSUME NEW i \in run PROVE i \in fresh
    <3>1. i \in 1..n /\ p <= i
      BY <2>2, <2>3
    <3>2. log[w][p] > now - Span[w]
      <4>1. log[w] \in Seq(Nat) /\ p \in 1..Len(log[w])
        BY <2>2
      <4>2. log[w][p] \in Nat
        BY <4>1, EntryType
      <4>3. /\ now \in Nat /\ at[t] \in Nat /\ Span[w] \in Nat
            /\ log[w][p] + Span[w] = at[t] /\ now < at[t]
        BY <2>2
      <4> HIDE DEF n, fresh, run
      <4> QED BY <4>2, <4>3
    <3>3. \A k, m \in 1..Len(log[w]) : k <= m => log[w][k] <= log[w][m]
      BY DEF IInv, LogSorted
    <3>4. now - Span[w] \in Int
      BY <2>2
    <3>5. log[w] \in Seq(Nat) /\ p \in 1..Len(log[w]) /\ i \in 1..Len(log[w]) /\ p <= i
      BY <2>2, <3>1
    <3>6. log[w][i] > now - Span[w] /\ log[w][i] \in Nat
      BY <3>2, <3>3, <3>4, <3>5, LaterEntry
    <3> QED BY <3>1, <3>4, <3>6 DEF Expired
  <2>4. IsFiniteSet(fresh)
    <3>1. fresh \subseteq 1..n
      OBVIOUS
    <3>2. 1 \in Int /\ n \in Int
      BY <2>2
    <3> HIDE DEF fresh, n
    <3>3. IsFiniteSet(1..n)
      BY <3>2, FS_Interval
    <3> QED BY <3>1, <3>3, FS_Subset
  <2>5. Cardinality(run) = Limit[w]
    <3> DEFINE q == p + Limit[w] - 1
    <3>1. p \in Int /\ Limit[w] \in Nat \ {0}
      BY <2>2
    <3>2. q \in Int /\ ~(p > q) /\ q - p + 1 = Limit[w]
      BY <3>1
    <3> HIDE DEF q
    <3>3. Cardinality(p..q) = Limit[w]
      BY <3>1, <3>2, FS_Interval
    <3> QED BY <3>3 DEF q
  <2>6. Cardinality(run) <= Cardinality(fresh)
    <3> HIDE DEF run, fresh
    <3> QED BY <2>3, <2>4, FS_Subset
  <2>7. Cardinality(fresh) \in Nat
    BY <2>4, FS_CardinalityType
  <2> QED BY <2>2, <2>5, <2>6, <2>7
<1> QED BY <1>1, <1>2, <1>3, Invariance, PTL DEF Spec
-----------------------------------------------------------------------------
ArrivalsSorted ==
  /\ \A i \in 1..Len(arrivals) : arrivals[i] <= now
  /\ \A i, j \in 1..Len(arrivals) : i <= j => arrivals[i] <= arrivals[j]

(* What arrived has a claim of its own (f), made at most SendDelay before,   *)
(* and so has what is under way (h).                                         *)
UnderWay(f, h, t) ==
  /\ h[t] \in 1..Len(granted) /\ granted[h[t]].at = at[t]
  /\ at[t] <= now /\ now <= at[t] + SendDelay
  /\ \A k \in 1..Len(arrivals) : f[k] # h[t]
  /\ \A u \in Threads : pc[u] = "claimed" /\ h[u] = h[t] => u = t

Traces(f, h) ==
  /\ f \in [1..Len(arrivals) -> 1..Len(granted)]
  /\ h \in [Threads -> Nat]
  /\ \A k, m \in 1..Len(arrivals) : f[k] = f[m] => k = m
  /\ \A k \in 1..Len(arrivals) :
       granted[f[k]].at <= arrivals[k] /\ arrivals[k] <= granted[f[k]].at + SendDelay
  /\ \A t \in Threads : pc[t] = "claimed" => UnderWay(f, h, t)

AInv == ArrivalsSorted /\ \E f, h : Traces(f, h)

LEMMA InitTraces == Init => AInv
<1> SUFFICES ASSUME Init PROVE AInv
  OBVIOUS
<1>1. Len(arrivals) = 0 /\ Len(granted) = 0 /\ \A t \in Threads : pc[t] = "ready"
  BY DEF Init
<1> DEFINE f == [k \in 1..Len(arrivals) |-> 0]
           h == [t \in Threads |-> 0]
<1>2. f \in [1..Len(arrivals) -> 1..Len(granted)] /\ h \in [Threads -> Nat]
  BY <1>1
<1>3. Traces(f, h)
  <2> HIDE DEF f, h
  <2> QED BY <1>1, <1>2 DEF Traces
<1>4. ArrivalsSorted
  BY <1>1 DEF ArrivalsSorted
<1> QED BY <1>3, <1>4 DEF AInv

(* A thread that is under way and stays so, or is no longer.                 *)
LEMMA QuietTraces ==
  ASSUME AInv, UNCHANGED <<arrivals, granted>>, now' >= now, now \in Nat, now' \in Nat,
         arrivals \in Seq(Nat),
         \A t \in Threads : pc'[t] = "claimed" =>
           pc[t] = "claimed" /\ at'[t] = at[t] /\ (now' = now \/ now' <= at[t] + SendDelay),
         at \in [Threads -> Nat]
  PROVE  AInv'
<1>1. PICK f, h : Traces(f, h)
  BY DEF AInv
<1>2. Traces(f, h)'
  <2>1. ASSUME NEW t \in Threads, pc'[t] = "claimed"
        PROVE  at'[t] <= now' /\ now' <= at'[t] + SendDelay
    <3>1. /\ pc[t] = "claimed" /\ at'[t] = at[t]
          /\ now' = now \/ now' <= at[t] + SendDelay
      BY <2>1
    <3>2. at[t] <= now /\ now <= at[t] + SendDelay /\ at[t] \in Nat
      BY <1>1, <3>1 DEF Traces, UnderWay
    <3> QED BY <3>1, <3>2
  <2>2. ASSUME NEW t \in Threads, pc'[t] = "claimed" PROVE UnderWay(f, h, t)'
    <3>1. UnderWay(f, h, t) /\ at'[t] = at[t]
      BY <1>1, <2>2 DEF Traces
    <3>2. \A u \in Threads : pc'[u] = "claimed" => pc[u] = "claimed"
      OBVIOUS
    <3> QED BY <2>1, <2>2, <3>1, <3>2 DEF UnderWay
  <2> QED BY <1>1, <2>2 DEF Traces
<1>3. ArrivalsSorted'
  <2>1. \A i \in 1..Len(arrivals) : arrivals[i] \in Nat /\ arrivals[i] <= now
    BY DEF AInv, ArrivalsSorted
  <2>2. \A i \in 1..Len(arrivals) : arrivals[i] <= now'
    BY <2>1
  <2> QED BY <2>2 DEF AInv, ArrivalsSorted
<1> QED BY <1>2, <1>3 DEF AInv

LEMMA ClaimTraces ==
  ASSUME TypeOK, AInv, NEW t \in Threads, Claim(t)
  PROVE  AInv'
<1>1. PICK f, h : Traces(f, h)
  BY DEF AInv
<1> DEFINE g == Len(granted)
<1>2. /\ granted \in Seq([at : Nat, pos : [Windows -> Nat]]) /\ g \in Nat /\ now \in Nat
      /\ log \in [Windows -> Seq(Nat)] /\ SendDelay \in Nat
      /\ pc \in [Threads -> Points] /\ at \in [Threads -> Nat]
  BY RateLimiterAssumption DEF TypeOK
<1>3. /\ Len(granted') = g + 1 /\ granted'[g + 1].at = now
      /\ \A i \in 1..g : granted'[i] = granted[i]
  <2> DEFINE new == [at |-> now, pos |-> [w \in Windows |-> Len(log[w]) + 1]]
  <2>1. granted' = Append(granted, new) /\ new.at = now
    BY DEF Claim
  <2> HIDE DEF new
  <2> QED BY <1>2, <2>1
<1>4. /\ pc' = [pc EXCEPT ![t] = "claimed"] /\ at' = [at EXCEPT ![t] = now]
      /\ UNCHANGED <<now, arrivals>>
  BY DEF Claim
<1>5. /\ f \in [1..Len(arrivals) -> 1..g] /\ h \in [Threads -> Nat]
  BY <1>1 DEF Traces
<1>6. PICK h2 : /\ h2 \in [Threads -> Nat] /\ h2[t] = g + 1
                /\ \A u \in Threads : u # t => h2[u] = h[u]
  <2> DEFINE e == [h EXCEPT ![t] = g + 1]
  <2>1. e \in [Threads -> Nat] /\ e[t] = g + 1 /\ \A u \in Threads : u # t => e[u] = h[u]
    BY <1>2, <1>5
  <2> QED BY <2>1
<1> HIDE DEF g
<1>7. f \in [1..Len(arrivals') -> 1..Len(granted')]
  <2>1. 1..g \subseteq 1..(g + 1)
    BY <1>2
  <2> QED BY <1>3, <1>4, <1>5, <2>1
<1>8. ASSUME NEW k \in 1..Len(arrivals)
      PROVE  /\ f[k] \in 1..g /\ f[k] # g + 1
             /\ granted'[f[k]].at <= arrivals[k]
             /\ arrivals[k] <= granted'[f[k]].at + SendDelay
  <2>1. f[k] \in 1..g
    BY <1>5
  <2>2. granted'[f[k]] = granted[f[k]]
    BY <1>3, <2>1
  <2>3. granted[f[k]].at <= arrivals[k] /\ arrivals[k] <= granted[f[k]].at + SendDelay
    BY <1>1 DEF Traces
  <2> QED BY <1>2, <2>1, <2>2, <2>3
<1>9. ASSUME NEW u \in Threads, pc'[u] = "claimed"
      PROVE  /\ h2[u] \in 1..(g + 1) /\ granted'[h2[u]].at = at'[u]
             /\ at'[u] <= now /\ now <= at'[u] + SendDelay
             /\ \A k \in 1..Len(arrivals) : f[k] # h2[u]
             /\ u # t => h2[u] \in 1..g /\ h2[u] = h[u] /\ pc[u] = "claimed"
  <2>1. CASE u = t
    <3>1. h2[u] = g + 1 /\ at'[u] = now
      BY <1>2, <1>4, <1>6, <2>1
    <3> QED BY <1>2, <1>3, <1>8, <2>1, <3>1
  <2>2. CASE u # t
    <3>1. h2[u] = h[u] /\ at'[u] = at[u] /\ pc[u] = "claimed"
      BY <1>2, <1>4, <1>6, <1>9, <2>2
    <3>2. /\ h[u] \in 1..g /\ granted[h[u]].at = at[u]
          /\ at[u] <= now /\ now <= at[u] + SendDelay
          /\ \A k \in 1..Len(arrivals) : f[k] # h[u]
      BY <1>1, <3>1 DEF Traces, UnderWay, g
    <3>3. granted'[h[u]] = granted[h[u]] /\ h[u] \in 1..(g + 1)
      BY <1>2, <1>3, <3>2
    <3> QED BY <2>2, <3>1, <3>2, <3>3
  <2> QED BY <2>1, <2>2
<1>10. ASSUME NEW u \in Threads, NEW v \in Threads, pc'[u] = "claimed", pc'[v] = "claimed",
              h2[u] = h2[v]
       PROVE  u = v
  <2>1. CASE u # t /\ v # t
    <3>1. pc[u] = "claimed" /\ pc[v] = "claimed" /\ h[u] = h[v]
      BY <1>9, <1>10, <2>1
    <3> QED BY <1>1, <3>1 DEF Traces, UnderWay
  <2>2. CASE u = t \/ v = t
    BY <1>2, <1>6, <1>9, <1>10, <2>2
  <2> QED BY <2>1, <2>2
<1>11. \A k, m \in 1..Len(arrivals) : f[k] = f[m] => k = m
  BY <1>1 DEF Traces
<1>12. Traces(f, h2)'
  <2>1. arrivals' = arrivals /\ now' = now /\ Len(granted') = g + 1
    BY <1>3, <1>4
  <2>2. \A k \in 1..Len(arrivals') :
          /\ granted'[f[k]].at <= arrivals'[k]
          /\ arrivals'[k] <= granted'[f[k]].at + SendDelay
    BY <1>8, <2>1
  <2>3. \A k, m \in 1..Len(arrivals') : f[k] = f[m] => k = m
    BY <1>11, <2>1
  <2>4. ASSUME NEW u \in Threads, pc'[u] = "claimed"
        PROVE  UnderWay(f, h2, u)'
    BY <1>9, <1>10, <2>1, <2>4 DEF UnderWay
  <2> QED BY <1>6, <1>7, <2>2, <2>3, <2>4 DEF Traces
<1>13. ArrivalsSorted'
  BY <1>4 DEF AInv, ArrivalsSorted
<1> QED BY <1>12, <1>13 DEF AInv

LEMMA SendTraces ==
  ASSUME TypeOK, AInv, NEW t \in Threads, Send(t)
  PROVE  AInv'
<1>1. PICK f, h : Traces(f, h)
  BY DEF AInv
<1> DEFINE n == Len(arrivals)
<1>2. /\ arrivals \in Seq(Nat) /\ n \in Nat /\ now \in Nat
      /\ pc \in [Threads -> Points] /\ at \in [Threads -> Nat]
  BY DEF TypeOK
<1>3. /\ Len(arrivals') = n + 1 /\ arrivals'[n + 1] = now
      /\ \A i \in 1..n : arrivals'[i] = arrivals[i]
  BY <1>2 DEF Send
<1>4. /\ pc[t] = "claimed" /\ pc' = [pc EXCEPT ![t] = "sent"] /\ at' = [at EXCEPT ![t] = 0]
      /\ UNCHANGED <<now, granted>>
  BY DEF Send
<1>5. /\ f \in [1..n -> 1..Len(granted)] /\ h \in [Threads -> Nat]
      /\ h[t] \in 1..Len(granted) /\ granted[h[t]].at = at[t]
      /\ at[t] <= now /\ now <= at[t] + SendDelay
      /\ \A k \in 1..n : f[k] # h[t]
  BY <1>1, <1>4 DEF Traces, UnderWay
<1>6. PICK f2 : /\ f2 \in [1..(n + 1) -> 1..Len(granted)] /\ f2[n + 1] = h[t]
                /\ \A k \in 1..n : f2[k] = f[k]
  <2> DEFINE e == [k \in 1..(n + 1) |-> IF k = n + 1 THEN h[t] ELSE f[k]]
  <2>1. n + 1 \in 1..(n + 1) /\ \A k \in 1..n : k \in 1..(n + 1) /\ k # n + 1
    BY <1>2
  <2>2. \A k \in 1..(n + 1) : k = n + 1 \/ k \in 1..n
    BY <1>2
  <2>3. e \in [1..(n + 1) -> 1..Len(granted)] /\ e[n + 1] = h[t] /\ \A k \in 1..n : e[k] = f[k]
    BY <1>5, <2>1, <2>2
  <2> QED BY <2>3
<1> HIDE DEF n
<1>7. \A k \in 1..(n + 1) : k = n + 1 \/ k \in 1..n
  BY <1>2
<1>8. \A k, m \in 1..(n + 1) : f2[k] = f2[m] => k = m
  <2>1. \A k, m \in 1..n : f[k] = f[m] => k = m
    BY <1>1 DEF Traces, n
  <2> QED BY <1>5, <1>6, <1>7, <2>1
<1>9. ASSUME NEW k \in 1..(n + 1)
      PROVE  granted[f2[k]].at <= arrivals'[k] /\ arrivals'[k] <= granted[f2[k]].at + SendDelay
  <2>1. CASE k = n + 1
    BY <1>3, <1>5, <1>6, <2>1
  <2>2. CASE k \in 1..n
    <3>1. granted[f[k]].at <= arrivals[k] /\ arrivals[k] <= granted[f[k]].at + SendDelay
      BY <1>1, <2>2 DEF Traces, n
    <3> QED BY <1>3, <1>6, <2>2, <3>1
  <2> QED BY <1>7, <2>1, <2>2
<1>10. ASSUME NEW u \in Threads, pc'[u] = "claimed"
       PROVE  u # t /\ pc[u] = "claimed" /\ at'[u] = at[u]
  BY <1>2, <1>4, <1>10
<1>11. ASSUME NEW u \in Threads, pc'[u] = "claimed"
       PROVE  /\ h[u] \in 1..Len(granted) /\ granted[h[u]].at = at'[u]
              /\ at'[u] <= now /\ now <= at'[u] + SendDelay
              /\ \A k \in 1..(n + 1) : f2[k] # h[u]
              /\ \A v \in Threads : pc'[v] = "claimed" /\ h[v] = h[u] => v = u
  <2>1. u # t /\ pc[u] = "claimed" /\ at'[u] = at[u]
    BY <1>10, <1>11
  <2>2. /\ h[u] \in 1..Len(granted) /\ granted[h[u]].at = at[u]
        /\ at[u] <= now /\ now <= at[u] + SendDelay
        /\ \A k \in 1..n : f[k] # h[u]
        /\ \A v \in Threads : pc[v] = "claimed" /\ h[v] = h[u] => v = u
    BY <1>1, <2>1 DEF Traces, UnderWay, n
  <2>3. h[t] # h[u]
    BY <1>4, <2>1, <2>2
  <2>4. \A k \in 1..(n + 1) : f2[k] # h[u]
    BY <1>6, <1>7, <2>2, <2>3
  <2>5. \A v \in Threads : pc'[v] = "claimed" /\ h[v] = h[u] => v = u
    BY <1>10, <2>2
  <2> QED BY <2>1, <2>2, <2>4, <2>5
<1>12. Traces(f2, h)'
  <2>1. granted' = granted /\ now' = now /\ Len(arrivals') = n + 1
    BY <1>3, <1>4
  <2>2. \A k \in 1..Len(arrivals') :
          /\ granted'[f2[k]].at <= arrivals'[k]
          /\ arrivals'[k] <= granted'[f2[k]].at + SendDelay
    BY <1>9, <2>1
  <2>3. /\ \A k, m \in 1..Len(arrivals') : f2[k] = f2[m] => k = m
        /\ f2 \in [1..Len(arrivals') -> 1..Len(granted')] /\ h \in [Threads -> Nat]
    BY <1>5, <1>6, <1>8, <2>1
  <2>4. ASSUME NEW u \in Threads, pc'[u] = "claimed"
        PROVE  UnderWay(f2, h, u)'
    BY <1>11, <2>1, <2>4 DEF UnderWay
  <2> QED BY <2>2, <2>3, <2>4 DEF Traces
<1>13. ArrivalsSorted'
  <2>1. \A i \in 1..n : arrivals[i] <= now /\ arrivals[i] \in Nat
    BY <1>2 DEF AInv, ArrivalsSorted, n
  <2>2. \A i, j \in 1..n : i <= j => arrivals[i] <= arrivals[j]
    BY DEF AInv, ArrivalsSorted, n
  <2>3. \A i \in 1..(n + 1) : arrivals'[i] <= now
    BY <1>2, <1>3, <1>7, <2>1
  <2>4. ASSUME NEW i \in 1..(n + 1), NEW j \in 1..(n + 1), i <= j
        PROVE  arrivals'[i] <= arrivals'[j]
    <3>1. CASE j = n + 1
      BY <1>3, <2>3, <3>1
    <3>2. CASE j \in 1..n
      <4>1. i \in 1..n
        BY <1>2, <2>4, <3>2
      <4> QED BY <1>3, <2>2, <2>4, <3>2, <4>1
    <3> QED BY <1>7, <3>1, <3>2
  <2> QED BY <1>3, <1>4, <2>3, <2>4 DEF ArrivalsSorted
<1> QED BY <1>12, <1>13 DEF AInv

LEMMA StepTraces ==
  ASSUME TypeOK, AInv, [Next]_vars
  PROVE  AInv'
<1>1. /\ now \in Nat /\ arrivals \in Seq(Nat) /\ at \in [Threads -> Nat]
      /\ pc \in [Threads -> Points]
  BY DEF TypeOK
<1>2. ASSUME NEW t \in Threads, Wait(t) \/ TransportError(t) \/ ObserveLong(t) \/ ObserveShort(t)
      PROVE  AInv'
  <2>1. UNCHANGED <<now, arrivals, granted>>
    BY <1>2 DEF Wait, TransportError, ObserveLong, ObserveShort
  <2>2. ASSUME NEW u \in Threads, pc'[u] = "claimed"
        PROVE  pc[u] = "claimed" /\ at'[u] = at[u]
    BY <1>1, <1>2, <2>2 DEF Wait, TransportError, ObserveLong, ObserveShort
  <2> QED BY <1>1, <2>1, <2>2, QuietTraces
<1>3. CASE Tick
  <2>1. UNCHANGED <<pc, at, arrivals, granted>> /\ now' = now + 1
    BY <1>3 DEF Tick
  <2>2. ASSUME NEW u \in Threads, pc'[u] = "claimed"
        PROVE  pc[u] = "claimed" /\ at'[u] = at[u] /\ now' <= at[u] + SendDelay
    <3>1. now < at[u] + SendDelay
      BY <1>3, <2>1, <2>2 DEF Tick
    <3>2. at[u] + SendDelay \in Nat
      BY <1>1, RateLimiterAssumption
    <3> QED BY <1>1, <2>1, <2>2, <3>1, <3>2
  <2> QED BY <1>1, <2>1, <2>2, QuietTraces
<1>4. CASE UNCHANGED vars
  BY <1>1, <1>4, QuietTraces DEF vars
<1> QED BY <1>2, <1>3, <1>4, ClaimTraces, SendTraces DEF Next, ThreadStep

(* `limit` arrivals after another, some two of the claims they come from are *)
(* `limit` apart: they are distinct, and so many do not fit in less.         *)
LEMMA ClaimsApart ==
  ASSUME NEW L \in Nat \ {0}, NEW i \in Nat, NEW j \in Nat, j - i >= L,
         NEW f \in [i..j -> Nat], \A k, m \in i..j : f[k] = f[m] => k = m
  PROVE  \E k, m \in i..j : f[k] - f[m] >= L
<1> DEFINE S == {f[k] : k \in i..j}
<1>1. i \in i..j
  OBVIOUS
<1>2. S \subseteq Nat /\ S # {}
  BY <1>1
<1>3. PICK x \in S : \A y \in S : x <= y
  <2> HIDE DEF S
  <2> QED BY <1>2, LeastNatural
<1>4. PICK m \in i..j : f[m] = x
  BY <1>3
<1>5. \A k \in i..j : f[m] <= f[k]
  BY <1>3, <1>4
<1> HIDE DEF S
<1> SUFFICES ASSUME \A k \in i..j : ~(f[k] - f[m] >= L) PROVE FALSE
  BY <1>4
<1> DEFINE a == f[m]
           b == f[m] + L - 1
<1>6. a \in Int /\ b \in Int /\ b - a + 1 = L /\ ~(a > b)
  BY <1>4
<1>7. ASSUME NEW k \in i..j PROVE f[k] \in a..b
  <2>1. f[k] \in Nat /\ f[m] \in Nat
    BY <1>4
  <2> QED BY <1>5, <2>1
<1> HIDE DEF a, b
<1>8. IsFiniteSet(i..j) /\ Cardinality(i..j) = j - i + 1
  <2>1. i \in Int /\ j \in Int /\ ~(i > j)
    OBVIOUS
  <2> QED BY <2>1, FS_Interval
<1>9. IsFiniteSet(a..b) /\ Cardinality(a..b) = L
  BY <1>6, FS_Interval
<1>10. Cardinality(a..b) < Cardinality(i..j)
  BY <1>8, <1>9
<1>11. f \in [i..j -> a..b]
  BY <1>7
<1> QED BY <1>8, <1>9, <1>10, <1>11, FS_PigeonHole

(* Requests may be held up between their claim and the API, in any order: it *)
(* sees no more than the limit over a window shortened by the longest delay.  *)
THEOREM ArrivalsAreRespected == Spec => []ArrivalsRespected
<1>1. WindowRespected /\ TypeOK /\ AInv => ArrivalsRespected
  <2> SUFFICES ASSUME WindowRespected, TypeOK, AInv,
                      NEW w \in Windows, NEW i \in 1..Len(arrivals),
                      NEW j \in 1..Len(arrivals), j - i >= Limit[w]
               PROVE  arrivals[j] - arrivals[i] >= Span[w] - SendDelay
    BY DEF ArrivalsRespected
  <2>1. PICK f, h : Traces(f, h)
    BY DEF AInv
  <2> DEFINE g == [k \in i..j |-> f[k]]
  <2>2. i \in Nat /\ j \in Nat /\ i..j \subseteq 1..Len(arrivals)
    BY DEF TypeOK
  <2>3. /\ \A k \in 1..Len(arrivals) : f[k] \in 1..Len(granted)
        /\ \A k, m \in 1..Len(arrivals) : f[k] = f[m] => k = m
        /\ \A k \in 1..Len(arrivals) :
             granted[f[k]].at <= arrivals[k] /\ arrivals[k] <= granted[f[k]].at + SendDelay
    BY <2>1 DEF Traces
  <2>4. g \in [i..j -> Nat] /\ \A k, m \in i..j : g[k] = g[m] => k = m
    BY <2>2, <2>3
  <2>5. \A k \in i..j : g[k] = f[k]
    OBVIOUS
  <2> HIDE DEF g
  <2>6. PICK k \in i..j, m \in i..j : g[k] - g[m] >= Limit[w]
    BY <2>2, <2>4, ClaimsApart, LimitsType
  <2>7. f[k] \in 1..Len(granted) /\ f[m] \in 1..Len(granted) /\ f[k] - f[m] >= Limit[w]
    BY <2>2, <2>3, <2>5, <2>6
  <2>8. granted[f[k]].at - granted[f[m]].at >= Span[w]
    BY <2>7 DEF WindowRespected
  <2>9. /\ granted[f[k]].at <= arrivals[k] /\ arrivals[m] <= granted[f[m]].at + SendDelay
        /\ arrivals[k] <= arrivals[j] /\ arrivals[i] <= arrivals[m]
    <3>1. k \in 1..Len(arrivals) /\ m \in 1..Len(arrivals) /\ k <= j /\ i <= m
      BY <2>2
    <3> QED BY <2>3, <3>1 DEF AInv, ArrivalsSorted
  <2>10. /\ granted[f[k]].at \in Nat /\ granted[f[m]].at \in Nat
         /\ arrivals[k] \in Nat /\ arrivals[m] \in Nat
         /\ arrivals[i] \in Nat /\ arrivals[j] \in Nat
    <3>1. granted \in Seq([at : Nat, pos : [Windows -> Nat]]) /\ arrivals \in Seq(Nat)
      BY DEF TypeOK
    <3>2. k \in 1..Len(arrivals) /\ m \in 1..Len(arrivals)
      BY <2>2
    <3>3. \A p \in 1..Len(granted) : granted[p].at \in Nat
      <4>1. \A p \in 1..Len(granted) : granted[p] \in [at : Nat, pos : [Windows -> Nat]]
        <5> DEFINE R == [at : Nat, pos : [Windows -> Nat]]
        <5>1. granted \in Seq(R)
          BY <3>1
        <5> HIDE DEF R
        <5>2. \A p \in 1..Len(granted) : granted[p] \in R
          BY <5>1
        <5> QED BY <5>2 DEF R
      <4> QED BY <4>1
    <3>4. \A p \in 1..Len(arrivals) : arrivals[p] \in Nat
      BY <3>1
    <3> QED BY <2>7, <3>2, <3>3, <3>4
  <2>11. Span[w] \in Nat /\ SendDelay \in Nat
    BY LimitsType, RateLimiterAssumption
  <2> DEFINE x == granted[f[k]].at
             y == granted[f[m]].at
             p == arrivals[i]
             q == arrivals[j]
             r == arrivals[k]
             s == arrivals[m]
  <2>12. /\ x \in Nat /\ y \in Nat /\ p \in Nat /\ q \in Nat /\ r \in Nat /\ s \in Nat
         /\ x - y >= Span[w] /\ x <= r /\ s <= y + SendDelay /\ r <= q /\ p <= s
    BY <2>8, <2>9, <2>10
  <2> HIDE DEF x, y, p, q, r, s
  <2>13. q - p >= Span[w] - SendDelay
    BY <2>11, <2>12
  <2> QED BY <2>13 DEF p, q
<1>2. TypeOK /\ AInv /\ [Next]_vars => AInv'
  BY StepTraces
<1> QED BY <1>1, <1>2, InitTraces, WindowIsRespected, TypeCorrect, PTL DEF Spec
-----------------------------------------------------------------------------
(* The bounds on what the limiter keeps, and on how long it makes one wait. *)

(* A deque never holds more than its limit and drops nothing that counts,    *)
(* whatever usage the headers report.                                        *)
THEOREM DequesAreBounded == Spec => []DequeFits
BY Invariance, PTL DEF IInv

(* A thread that must wait sleeps for some time, and no longer than a window *)
(* from now: no loop spins on a full deque, none sleeps on a padded one's    *)
(* account beyond the time that empties it.                                  *)
SleepsAreShort ==
  [][\A t \in Threads : Wait(t) =>
       at'[t] > now /\ \E w \in Windows : at'[t] <= now + Span[w]]_vars

THEOREM NobodyOversleeps == Spec => SleepsAreShort
<1>1. ASSUME IInv, NEW t \in Threads, Wait(t)
      PROVE  at'[t] > now /\ \E w \in Windows : at'[t] <= now + Span[w]
  <2>1. at'[t] = WakeAt
    BY <1>1, WakeAtBounds DEF Wait, IInv, TypeOK
  <2> QED BY <1>1, <2>1, WakeAtBounds DEF Wait
<1>2. IInv =>
        [\A t \in Threads : Wait(t) =>
           at'[t] > now /\ \E w \in Windows : at'[t] <= now + Span[w]]_vars
  BY <1>1
<1> QED BY <1>2, Invariance, PTL DEF Spec, SleepsAreShort

(* A thread that must wait sleeps long enough: when it wakes there is a slot *)
(* in both windows, unless others have used it meanwhile.                    *)
SleepsAreEnough ==
  [][\A t \in Threads, w \in Windows : Wait(t) =>
       Cardinality({i \in 1..Len(log[w]) : log[w][i] > at'[t] - Span[w]}) < Limit[w]]_vars

LEMMA FewLater ==
  ASSUME NEW s \in Seq(Nat), NEW k \in 0..Len(s), NEW a \in Int,
         \A i \in 1..k : s[i] <= a
  PROVE  /\ Cardinality({i \in 1..Len(s) : s[i] > a}) \in Nat
         /\ Cardinality({i \in 1..Len(s) : s[i] > a}) <= Len(s) - k
<1> DEFINE n     == Len(s)
           Later == {i \in 1..n : s[i] > a}
           Rest  == (k + 1)..n
<1>1. n \in Nat /\ k \in Nat /\ k <= n /\ \A i \in 1..n : s[i] \in Nat
  OBVIOUS
<1> HIDE DEF n
<1>2. Later \subseteq Rest
  <2> SUFFICES ASSUME NEW i \in Later PROVE i \in Rest
    OBVIOUS
  <2>1. i \in 1..n /\ s[i] > a /\ s[i] \in Nat
    BY <1>1
  <2>2. ~(i <= k)
    BY <1>1, <2>1
  <2> QED BY <1>1, <2>1, <2>2
<1>3. IsFiniteSet(Rest) /\ Cardinality(Rest) = IF k + 1 > n THEN 0 ELSE n - (k + 1) + 1
  <2>1. k + 1 \in Int /\ n \in Int
    BY <1>1
  <2> QED BY <2>1, FS_Interval
<1> HIDE DEF Rest, Later
<1>4. IsFiniteSet(Later) /\ Cardinality(Later) <= Cardinality(Rest) /\ Cardinality(Later) \in Nat
  BY <1>2, <1>3, FS_Subset, FS_CardinalityType
<1>5. Cardinality(Rest) = n - k
  BY <1>1, <1>3
<1> QED BY <1>4, <1>5 DEF Later, n

LEMMA EnoughSlept ==
  ASSUME IInv, ~Room, NEW w \in Windows
  PROVE  Cardinality({i \in 1..Len(log[w]) : log[w][i] > WakeAt - Span[w]}) < Limit[w]
<1> DEFINE s == log[w]
           a == WakeAt - Span[w]
           h == Pruned(w)
<1>1. /\ s \in Seq(Nat) /\ h \in Nat /\ h <= Len(s)
      /\ Limit[w] \in Nat \ {0} /\ Span[w] \in Nat /\ now \in Nat
      /\ WakeAt \in Nat /\ WakeAt > now
      /\ a = WakeAt - Span[w] /\ \A i \in 1..h : s[i] <= now - Span[w]
  <2>1. s \in Seq(Nat) /\ now \in Nat
    BY DEF IInv, TypeOK
  <2>2. h \in Nat /\ h <= Len(s) /\ \A i \in 1..h : s[i] <= now - Span[w]
    BY PrunedFits DEF Expired
  <2> QED BY <2>1, <2>2, LimitsType, WakeAtBounds
<1>2. Len(s) \in Nat /\ h \in 0..Len(s) /\ a \in Int /\ \A i \in 1..h : s[i] <= a
  <2> HIDE DEF s, a, h
  <2>1. Len(s) \in Nat /\ h \in 0..Len(s) /\ a \in Int /\ now - Span[w] < a
    BY <1>1
  <2>2. ASSUME NEW i \in 1..h PROVE s[i] <= a
    <3>1. s[i] \in Nat /\ s[i] <= now - Span[w] /\ now - Span[w] \in Int
      BY <1>1
    <3> QED BY <2>1, <3>1
  <2> QED BY <2>1, <2>2
<1>3. Full(w) <=> Len(s) - h >= Limit[w]
  BY DEF Full
<1>4. CASE ~Full(w)
  <2> HIDE DEF s, a, h
  <2>1. /\ Cardinality({i \in 1..Len(s) : s[i] > a}) \in Nat
        /\ Cardinality({i \in 1..Len(s) : s[i] > a}) <= Len(s) - h
    BY <1>1, <1>2, FewLater
  <2>2. Cardinality({i \in 1..Len(s) : s[i] > a}) < Limit[w]
    BY <1>1, <1>2, <1>3, <1>4, <2>1
  <2> QED BY <2>2 DEF s, a
<1>5. CASE Full(w)
  <2>1. Len(s) - h <= Limit[w]
    <3>1. head[w] \in Nat /\ head[w] <= h /\ Len(s) - head[w] <= Limit[w]
      BY PrunedFits DEF IInv, TypeOK, DequeFits
    <3> HIDE DEF s, h
    <3> QED BY <1>1, <1>2, <3>1
  <2>2. h + 1 \in 1..Len(s)
    <3> HIDE DEF s, h
    <3> QED BY <1>1, <1>2, <1>3, <1>5
  <2>3. s[h + 1] <= a
    <3>1. WakeAt >= s[h + 1] + Span[w]
      BY <1>5, WakeAtBounds
    <3>2. s[h + 1] \in Nat
      <4> HIDE DEF s, h
      <4> QED BY <1>1, <2>2
    <3> HIDE DEF s, h
    <3> QED BY <1>1, <3>1, <3>2
  <2> HIDE DEF s, a, h
  <2>4. h + 1 \in 0..Len(s) /\ \A i \in 1..(h + 1) : s[i] <= a
    <3>1. \A i \in 1..(h + 1) : i \in 1..h \/ i = h + 1
      BY <1>1
    <3> QED BY <1>1, <1>2, <2>2, <2>3, <3>1
  <2>5. /\ Cardinality({i \in 1..Len(s) : s[i] > a}) \in Nat
        /\ Cardinality({i \in 1..Len(s) : s[i] > a}) <= Len(s) - (h + 1)
    BY <1>1, <1>2, <2>4, FewLater
  <2>6. Cardinality({i \in 1..Len(s) : s[i] > a}) < Limit[w]
    BY <1>1, <1>2, <2>1, <2>5
  <2> QED BY <2>6 DEF s, a
<1> QED BY <1>4, <1>5

THEOREM WakesToASlot == Spec => SleepsAreEnough
<1>1. ASSUME IInv, NEW t \in Threads, NEW w \in Windows, Wait(t)
      PROVE  Cardinality({i \in 1..Len(log[w]) : log[w][i] > at'[t] - Span[w]}) < Limit[w]
  <2>1. at'[t] = WakeAt /\ ~Room
    BY <1>1, WakeAtBounds DEF Wait, IInv, TypeOK
  <2> QED BY <1>1, <2>1, EnoughSlept
<1>2. IInv =>
        [\A t \in Threads, w \in Windows : Wait(t) =>
           Cardinality({i \in 1..Len(log[w]) : log[w][i] > at'[t] - Span[w]}) < Limit[w]]_vars
  BY <1>1
<1> QED BY <1>2, Invariance, PTL DEF Spec, SleepsAreEnough
=============================================================================
