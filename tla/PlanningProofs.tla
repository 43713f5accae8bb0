--------------------------- MODULE PlanningProofs ---------------------------
(***************************************************************************)
(* Proofs about Planning, for any catalogues, fixtures, settings, command  *)
(* lines and length of a day.                                              *)
(***************************************************************************)
EXTENDS Planning, TLAPS

(* What there is of a process, and that its command line was let through.    *)
Process ==
  /\ pc \in {"off", "leagues"} => DOMAIN works = {} /\ todo = {} /\ asof = Unknown
  /\ pc # "planned" => ids = {}
  /\ pc = "off" <=> args = None
  /\ pc # "off" => args \in Commands /\ InOrder(args) /\ Guarded(args)

(* Its leagues are those it was to keep, and only theirs are its payloads.   *)
Kept ==
  /\ \A i \in DOMAIN works : Keeps(works[i])
  /\ todo \subseteq PairsOf(works)
  /\ \A p \in Pairs : asof[p] # None => p \in PairsOf(works)

(* Its list is of what Phase A got, and is covered.                          *)
Chosen ==
  /\ \A f \in Fixtures : f.id \in ids => f \in Records /\ Eligible(f)
  /\ pc = "planned" /\ Ranged(args) =>
       \A f \in Records : Eligible(f) => (f.id \in ids <=> InWindow(f.start))

PlanInv == TypeOK /\ Process /\ Kept /\ Chosen

-----------------------------------------------------------------------------
(* Days and seconds. *)

LEMMA DayOrder ==
  ASSUME NEW a \in Nat, NEW b \in Nat, NEW d \in Nat \ {0}, a * d <= b * d + (d - 1)
  PROVE  a <= b
<1> SUFFICES ASSUME a >= b + 1 PROVE FALSE
  OBVIOUS
<1>1. a * d >= (b + 1) * d
  OBVIOUS
<1>2. (b + 1) * d = b * d + d
  OBVIOUS
<1> QED BY <1>1, <1>2

LEMMA DayOf ==
  ASSUME NEW s \in Nat, NEW d \in Nat \ {0}
  PROVE  /\ s \div d \in Nat
         /\ \E r \in 0..(d - 1) : s = (s \div d) * d + r
<1>1. \E q \in Nat, r \in 0..(d - 1) : s = q * d + r /\ q = s \div d
  OBVIOUS
<1> QED BY <1>1

(* A day begins with its first second, and ends with its last. *)
LEMMA DayBegins ==
  ASSUME NEW s \in Nat, NEW d \in Nat \ {0}, NEW a \in Nat
  PROVE  s >= a * d <=> s \div d >= a
<1> DEFINE q == s \div d
<1>1. PICK r \in 0..(d - 1) : s = q * d + r
  BY DayOf
<1>2. q \in Nat
  BY DayOf
<1>3. q * d \in Nat /\ a * d \in Nat
  BY <1>2
<1> HIDE DEF q
<1>4. ASSUME s >= a * d PROVE q >= a
  <2>1. a * d <= q * d + (d - 1)
    BY <1>1, <1>3, <1>4
  <2> QED BY <1>2, <2>1, DayOrder
<1>5. ASSUME q >= a PROVE s >= a * d
  <2>1. q * d >= a * d
    BY <1>2, <1>5
  <2> QED BY <1>1, <1>3, <2>1
<1> QED BY <1>4, <1>5 DEF q

LEMMA DayEnds ==
  ASSUME NEW s \in Nat, NEW d \in Nat \ {0}, NEW b \in Nat
  PROVE  s <= b * d + (d - 1) <=> s \div d <= b
<1> DEFINE q == s \div d
<1>1. PICK r \in 0..(d - 1) : s = q * d + r
  BY DayOf
<1>2. q \in Nat
  BY DayOf
<1>3. q * d \in Nat /\ b * d \in Nat
  BY <1>2
<1> HIDE DEF q
<1>4. ASSUME s <= b * d + (d - 1) PROVE q <= b
  <2>1. q * d <= b * d + (d - 1)
    BY <1>1, <1>3, <1>4
  <2> QED BY <1>2, <2>1, DayOrder
<1>5. ASSUME q <= b PROVE s <= b * d + (d - 1)
  <2>1. q * d <= b * d
    BY <1>2, <1>5
  <2> QED BY <1>1, <1>3, <2>1
<1> QED BY <1>4, <1>5 DEF q

-----------------------------------------------------------------------------
(* The invariant. *)

LEMMA PlanInit == Init => PlanInv
BY PlanningAssumption
DEF Init, PlanInv, TypeOK, Process, Kept, Chosen, Unknown, PairsOf, Time

LEMMA LaunchKeeps == PlanInv /\ Launch => PlanInv'
<1> SUFFICES ASSUME PlanInv, Launch PROVE PlanInv'
  OBVIOUS
<1> USE PlanningAssumption DEF PlanInv, Launch
<1>1. PICK c \in Commands : InOrder(c) /\ Guarded(c) /\ args' = c
  OBVIOUS
<1>2. c \in Command /\ c # None
  BY DEF Process, Command
<1>3. None \notin {c.from, c.to} => c.from <= c.to
  BY <1>1, <1>2, DayOrder DEF InOrder, FromTs, ToTs, Command
<1>4. TypeOK'
  BY <1>1, <1>2, <1>3 DEF TypeOK
<1>5. Process'
  BY <1>1, <1>2 DEF Process, InOrder, Guarded, FromTs, ToTs, MergedSeasons, Ranged
<1>6. Kept'
  BY DEF Process, Kept, PairsOf, Unknown
<1>7. Chosen'
  BY DEF Process, Chosen
<1> QED BY <1>4, <1>5, <1>6, <1>7

LEMMA FetchLeaguesKeeps == PlanInv /\ FetchLeagues => PlanInv'
<1> SUFFICES ASSUME PlanInv, FetchLeagues PROVE PlanInv'
  OBVIOUS
<1> USE PlanningAssumption DEF PlanInv, FetchLeagues
<1>1. PICK catalogue \in Catalogues :
        works' = [i \in {j \in DOMAIN catalogue : Keeps(catalogue[j])} |-> catalogue[i]]
  OBVIOUS
<1>2. \A i \in DOMAIN works' : Keeps(works'[i]) /\ works'[i] = catalogue[i] /\ i \in DOMAIN catalogue
  BY <1>1
<1>3. \A i \in DOMAIN catalogue :
        catalogue[i].league \in Leagues \cup {None} /\ catalogue[i].season \in Years \cup {None}
  <2>1. catalogue \in Seq(Season)
    OBVIOUS
  <2>2. \A i \in DOMAIN catalogue : catalogue[i] \in Season
    BY <2>1
  <2> QED BY <2>2 DEF Season
<1>4. \A i \in DOMAIN works' : Pair(works'[i]) \in Pairs
  BY <1>2, <1>3 DEF Keeps, Pair, Pairs
<1>5. PairsOf(works') \subseteq Pairs
  BY <1>4 DEF PairsOf
<1>6. TypeOK'
  BY <1>5 DEF TypeOK, PairsOf
<1>7. Process'
  BY DEF Process, InOrder, Guarded, FromTs, ToTs, MergedSeasons, Ranged
<1>8. \A p \in Pairs : asof'[p] = None
  BY DEF Process, Unknown
<1>9. Kept'
  BY <1>2, <1>8 DEF Kept, Keeps, Subset, MergedSeasons
<1>10. Chosen'
  BY DEF Process, Chosen
<1> QED BY <1>6, <1>7, <1>9, <1>10

LEMMA LeagueTaskKeeps ==
  ASSUME PlanInv, NEW p \in Pairs, LeagueTask(p)
  PROVE  PlanInv'
<1> USE PlanningAssumption DEF PlanInv, LeagueTask
<1>1. p \in PairsOf(works) /\ pc = "phase_a"
  BY DEF Kept
<1>2. asof' \in [Pairs -> Time \cup {None}] /\ bronze' \in [Pairs -> Time \cup {None}]
  BY DEF TypeOK
<1>3. \A q \in Pairs : q # p => asof'[q] = asof[q]
  BY DEF TypeOK
<1>4. done' \subseteq done \cup {p} /\ \A q \in done' : bronze'[q] # None
  <2>1. now # None
    BY DEF TypeOK, Time
  <2>2. \A q \in done : q \in Pairs /\ bronze[q] # None
    BY DEF TypeOK
  <2> QED BY <2>1, <2>2 DEF TypeOK
<1>5. TypeOK'
  BY <1>2, <1>4 DEF TypeOK, PairsOf
<1>6. Process'
  BY <1>1 DEF Process, InOrder, Guarded, FromTs, ToTs, MergedSeasons, Ranged
<1>7. Kept'
  <2>1. PairsOf(works)' = PairsOf(works)
    BY DEF PairsOf
  <2>2. \A i \in DOMAIN works' : Keeps(works[i])'
    BY DEF Kept, Keeps, Subset, MergedSeasons
  <2>3. todo' \subseteq PairsOf(works)
    BY DEF Kept
  <2>4. \A q \in Pairs : asof'[q] # None => q \in PairsOf(works)
    BY <1>1, <1>3 DEF Kept
  <2> QED BY <2>1, <2>2, <2>3, <2>4 DEF Kept
<1>8. Chosen'
  BY <1>1 DEF Process, Chosen
<1> QED BY <1>5, <1>6, <1>7, <1>8

(* The list, as it is made. *)
LEMMA DeriveKeeps == PlanInv /\ Derive => PlanInv'
<1> SUFFICES ASSUME PlanInv, Derive PROVE PlanInv'
  OBVIOUS
<1> USE PlanningAssumption DEF PlanInv, Derive
<1>1. \A f \in Fixtures : f.id \in ids' <=> f \in Records /\ Eligible(f) /\ InWindow(f.start)
  BY DEF Records
<1>2. Records' = Records /\ \A f \in Fixtures : Eligible(f)' <=> Eligible(f)
  BY DEF Records, Eligible, Covered
<1>3. \A f \in Fixtures : InWindow(f.start)' <=> InWindow(f.start)
  BY DEF InWindow, Ranged, FromTs, ToTs, Rolling, Lookback
<1>4. TypeOK'
  <2>1. ids' \subseteq {f.id : f \in Fixtures}
    BY DEF Records
  <2>2. seen' \in [Pairs -> Time \cup {None}]
    BY DEF TypeOK
  <2> QED BY <2>1, <2>2 DEF TypeOK, PairsOf
<1>5. Process'
  BY DEF Process, InOrder, Guarded, FromTs, ToTs, MergedSeasons, Ranged
<1>6. Kept'
  BY DEF Kept, Keeps, Subset, MergedSeasons, PairsOf
<1>7. Chosen'
  BY <1>1, <1>2, <1>3 DEF Chosen, Records
<1> QED BY <1>4, <1>5, <1>6, <1>7

LEMMA EndKeeps == PlanInv /\ End => PlanInv'
<1> SUFFICES ASSUME PlanInv, End PROVE PlanInv'
  OBVIOUS
<1> USE PlanningAssumption DEF PlanInv, End
<1>1. TypeOK'
  BY DEF TypeOK, PairsOf, Unknown
<1>2. Process' /\ Kept' /\ Chosen'
  BY DEF Process, Kept, Chosen, Unknown
<1> QED BY <1>1, <1>2

(* What a range of dates lets in does not move with the clock. *)
LEMMA TickKeeps == PlanInv /\ (Tick \/ UNCHANGED vars) => PlanInv'
<1> SUFFICES ASSUME PlanInv, Tick \/ UNCHANGED vars PROVE PlanInv'
  OBVIOUS
<1> USE PlanningAssumption DEF PlanInv, Tick, vars
<1>1. now' \in Time
  BY DEF TypeOK, Time
<1>2. TypeOK'
  BY <1>1 DEF TypeOK, PairsOf
<1>3. Process' /\ Kept'
  BY DEF Process, Kept, InOrder, Guarded, FromTs, ToTs, MergedSeasons, Ranged, Keeps, Subset, PairsOf
<1>4. Records' = Records /\ \A f \in Fixtures : Eligible(f)' <=> Eligible(f)
  BY DEF Records, Eligible, Covered
<1>5. Ranged(args)' <=> Ranged(args)
  BY DEF Ranged, FromTs, ToTs
<1>6. Ranged(args) => \A f \in Fixtures : InWindow(f.start)' <=> InWindow(f.start)
  BY DEF InWindow, Ranged, FromTs, ToTs
<1>7. Chosen'
  BY <1>4, <1>5, <1>6 DEF Chosen, Records
<1> QED BY <1>2, <1>3, <1>7

LEMMA PlanStep == PlanInv /\ [Next]_vars => PlanInv'
BY LaunchKeeps, FetchLeaguesKeeps, LeagueTaskKeeps, DeriveKeeps, EndKeeps, TickKeeps DEF Next

LEMMA PlanInvariance == Spec => []PlanInv
BY PlanInit, PlanStep, PTL DEF Spec

-----------------------------------------------------------------------------
(* What a process has done is typed, and its dates are in order.             *)
THEOREM TypeCorrect == Spec => []TypeOK
BY PlanInvariance, PTL DEF PlanInv

(* Nothing on the list is of a league or a season that was not asked for.    *)
THEOREM ScopeIsRespected == Spec => []ScopeRespected
<1>1. PlanInv => ScopeRespected
  <2> SUFFICES ASSUME PlanInv, NEW f \in Fixtures, f.id \in ids
               PROVE  /\ args.leagues # {} => f.league \in args.leagues
                      /\ args.leagues = {} /\ settings.subset # {} =>
                           f.league \in settings.subset
                      /\ args.seasons # {} \/ args.season # None =>
                           f.season \in args.seasons \/ f.season = args.season
    BY DEF ScopeRespected
  <2> USE PlanningAssumption
  <2>1. args \in Command
    BY DEF PlanInv, Process
  <2>2. Of(f) \in PairsOf(works)
    BY DEF PlanInv, Chosen, Records, Kept, Of, Pairs
  <2>3. PICK i \in DOMAIN works : works[i].league = f.league /\ works[i].season = f.season
    BY <2>2 DEF PairsOf, Pair, Of
  <2>4. Keeps(works[i])
    BY DEF PlanInv, Kept
  <2>5. args.seasons # {} \/ args.season # None => MergedSeasons(args) # {}
    BY <2>1 DEF MergedSeasons, Command
  <2> QED BY <2>3, <2>4, <2>5 DEF Keeps, Subset, MergedSeasons
<1> QED BY <1>1, PlanInvariance, PTL

(* No calls for seasons that are over without a window, or a deliberate no.  *)
THEOREM PastSeasonsAreGuarded == Spec => []PastSeasonsHaveWindow
<1>1. PlanInv => PastSeasonsHaveWindow
  <2> SUFFICES ASSUME PlanInv, NEW i \in DOMAIN works, ~works[i].current
               PROVE  \/ args.bypass
                      \/ args.lookback # None \/ args.from # None \/ args.to # None
    BY DEF PastSeasonsHaveWindow
  <2>1. MergedSeasons(args) # {} /\ pc # "off"
    BY DEF PlanInv, Kept, Keeps, Process
  <2>2. Guarded(args)
    BY <2>1 DEF PlanInv, Process
  <2> QED BY <2>1, <2>2 DEF Guarded, Ranged, FromTs, ToTs
<1> QED BY <1>1, PlanInvariance, PTL

(* The list is of what was asked for, in both respects.                      *)
THEOREM AskedForOnly == Spec => []OnlyAskedFor
BY ScopeIsRespected, PastSeasonsAreGuarded, PTL DEF OnlyAskedFor

(* A range of dates takes whole days, for any length of a day.               *)
THEOREM DaysAreWhole == Spec => []WholeDays
<1>1. PlanInv => WholeDays
  <2> SUFFICES ASSUME PlanInv, pc = "planned", Ranged(args), NEW f \in Records, Eligible(f)
               PROVE  f.id \in ids <=> /\ args.from # None => f.start \div Day >= args.from
                                       /\ args.to # None => f.start \div Day <= args.to
    BY DEF WholeDays
  <2> USE PlanningAssumption
  <2>1. args \in Command
    BY DEF PlanInv, Process
  <2>2. f.start \in Nat
    BY DEF Records
  <2>3. f.id \in ids <=> InWindow(f.start)
    BY DEF PlanInv, Chosen
  <2>4. ASSUME args.from # None
        PROVE  FromTs(args) # None /\ (f.start >= FromTs(args) <=> f.start \div Day >= args.from)
    <3>1. args.from \in Nat /\ Day \in Nat \ {0}
      BY <2>1, <2>4 DEF Command
    <3>2. args.from * Day \in Nat
      BY <3>1
    <3>3. FromTs(args) = args.from * Day
      BY <2>4 DEF FromTs
    <3>4. f.start >= args.from * Day <=> f.start \div Day >= args.from
      BY <2>2, <3>1, DayBegins
    <3> QED BY <3>2, <3>3, <3>4
  <2>5. ASSUME args.to # None
        PROVE  ToTs(args) # None /\ (f.start <= ToTs(args) <=> f.start \div Day <= args.to)
    <3>1. args.to \in Nat /\ Day \in Nat \ {0}
      BY <2>1, <2>5 DEF Command
    <3>2. args.to * Day + (Day - 1) \in Nat
      BY <3>1
    <3>3. ToTs(args) = args.to * Day + (Day - 1)
      BY <2>5 DEF ToTs
    <3>4. f.start <= args.to * Day + (Day - 1) <=> f.start \div Day <= args.to
      BY <2>2, <3>1, DayEnds
    <3> QED BY <3>2, <3>3, <3>4
  <2>6. (args.from = None => FromTs(args) = None) /\ (args.to = None => ToTs(args) = None)
    BY DEF FromTs, ToTs
  <2> QED BY <2>3, <2>4, <2>5, <2>6 DEF InWindow
<1> QED BY <1>1, PlanInvariance, PTL

(* With one season of a league on the list, it is its own coverage that      *)
(* counts.                                                                   *)
THEOREM CoverageIsOwn == Spec => []CoverageOfItsSeason
<1>1. PlanInv => CoverageOfItsSeason
  <2> SUFFICES ASSUME PlanInv, OneSeasonEach, NEW f \in Fixtures, f.id \in ids
               PROVE  \E i \in DOMAIN works : Pair(works[i]) = Of(f) /\ works[i].covered
    BY DEF CoverageOfItsSeason
  <2> USE PlanningAssumption
  <2>1. Of(f) \in PairsOf(works)
    BY DEF PlanInv, Chosen, Records, Kept, Of, Pairs
  <2>2. PICK i \in DOMAIN works : Pair(works[i]) = Of(f)
    BY <2>1 DEF PairsOf
  <2>3. PICK j \in DOMAIN works : works[j].league = f.league /\ works[j].covered
    BY DEF PlanInv, Chosen, Eligible, Covered
  <2>4. i = j
    BY <2>2, <2>3 DEF OneSeasonEach, Pair, Of
  <2> QED BY <2>2, <2>3, <2>4
<1> QED BY <1>1, PlanInvariance, PTL

-----------------------------------------------------------------------------
(* Nothing slips between two lists with a rolling window.                    *)
THEOREM NoneSlips == Spec => NothingSlips
<1>1. ASSUME PlanInv, Derive, ~Ranged(args), NEW f \in Records,
             seen[Of(f)] # None,
             now - seen[Of(f)] <= Lookback * Day - Duration,
             StatusAt(f, seen[Of(f)]) # "FT",
             StatusAt(f, asof[Of(f)]) = "FT", "FT" \in settings.statuses,
             Covered(f.league)
      PROVE  f.id \in ids'
  <2> USE PlanningAssumption
  <2>1. f.start \in Nat /\ Of(f) \in Pairs
    BY <1>1 DEF Records, Of, Pairs
  <2>2. seen[Of(f)] \in Nat /\ now \in Nat
    BY <1>1, <2>1 DEF PlanInv, TypeOK, Time
  <2>3. f.start + Duration > seen[Of(f)]
    BY <1>1, <2>1, <2>2 DEF StatusAt
  <2>4. Lookback \in Nat
    BY <1>1 DEF PlanInv, TypeOK, Process, Lookback, Command, Config, Derive
  <2>5. Lookback * Day \in Nat
    BY <2>4
  <2>6. f.start >= Rolling
    BY <1>1, <2>1, <2>2, <2>3, <2>5 DEF Rolling
  <2>7. InWindow(f.start) /\ Eligible(f)
    BY <1>1, <2>6 DEF InWindow, Eligible
  <2> QED BY <1>1, <2>7 DEF Derive
<1>2. ASSUME PlanInv, [Next]_vars, pc = "phase_a", pc' = "planned"
      PROVE  Derive
  BY <1>2 DEF Next, vars, Launch, FetchLeagues, LeagueTask, End, Tick
<1>3. PlanInv /\ [Next]_vars =>
        [pc = "phase_a" /\ pc' = "planned" /\ ~Ranged(args) =>
           \A f \in Records :
             /\ seen[Of(f)] # None
             /\ now - seen[Of(f)] <= Lookback * Day - Duration
             /\ StatusAt(f, seen[Of(f)]) # "FT"
             /\ StatusAt(f, asof[Of(f)]) = "FT" /\ "FT" \in settings.statuses
             /\ Covered(f.league)
             => f.id \in ids']_vars
  BY <1>1, <1>2
<1> QED BY <1>3, PlanInvariance, PTL DEF Spec, NothingSlips
=============================================================================
