------------------------------ MODULE Planning ------------------------------
(***************************************************************************)
(* From a command line to the work list of Phase B, by processes that run  *)
(* one after the other while time passes and fixtures are played: cli.py,  *)
(* the settings, select_leagues, Phase A as far as the payloads go, and    *)
(* select_fixture_ids. Runner is about the tables and failures on the way; *)
(* this is about what ends up on the list, and what never does.            *)
(*                                                                         *)
(* A payload is told by the time it was fetched at: it has the fixtures of *)
(* its league and season, each with the status it had then. (The bronze    *)
(* row of an unchanged payload is an older one, with the same statuses.)   *)
(***************************************************************************)
EXTENDS Integers, Sequences

CONSTANTS
  Leagues, Years,
  None,         \* no argument, no value, no payload
  Fixtures,     \* [id, league, season, start]; None for what is not filled in
  Catalogues,   \* the /leagues payloads: sequences of seasons, see Season
  Commands,     \* the command lines, see Command
  Configs,      \* the settings, see Config
  Day,          \* how long a day is, in ticks of the clock
  Duration,     \* how long a fixture is played
  MaxTime       \* bound on the clock

Time   == 0..MaxTime
Pairs  == Leagues \X Years

(* Lists of ids are sets: an empty one and None are treated alike.          *)
Command == [season : Years \cup {None}, seasons : SUBSET Years, leagues : SUBSET Leagues,
            from : Nat \cup {None}, to : Nat \cup {None}, lookback : Nat \cup {None},
            bypass : BOOLEAN, resume : BOOLEAN]

Config  == [subset : SUBSET Leagues, lookback : Nat,
            statuses : SUBSET {"NS", "1H", "FT"}]

(* An entry of the catalogue; None for what is not filled in.               *)
Season  == [league : Leagues \cup {None}, season : Years \cup {None},
            current : BOOLEAN, covered : BOOLEAN]

ASSUME PlanningAssumption ==
  /\ None \notin Leagues \cup Years \cup Int \cup Commands
  /\ {Day, Duration} \subseteq Nat \ {0}
  /\ MaxTime \in Nat
  /\ Fixtures \subseteq [id : Nat, league : Leagues, season : Years, start : Nat \cup {None}]
  /\ \A f, g \in Fixtures : f.id = g.id => f = g
  /\ Catalogues \subseteq Seq(Season)
  /\ Commands \subseteq Command
  /\ Configs \subseteq Config

VARIABLES
  settings,  \* the environment
  now,       \* the clock
  pc,        \* where the process is, if there is one
  args,      \* its command line
  works,     \* its leagues and seasons, by their places in the catalogue
  todo,      \* those Phase A is not through with
  asof,      \* when the payload was fetched that Phase A got for each
  ids,       \* the fixtures it selects for Phase B
  bronze,    \* when the newest payload in bronze_fixtures was fetched
  done,      \* what the run has checkpointed 'succeeded'
  seen       \* history: asof, of the last list with a rolling window

vars == <<settings, now, pc, args, works, todo, asof, ids, bronze, done, seen>>

Unknown == [p \in Pairs |-> None]

Init ==
  /\ settings \in Configs
  /\ now = 0
  /\ pc = "off"
  /\ args = None
  /\ works = <<>> /\ todo = {} /\ asof = Unknown /\ ids = {}
  /\ bronze = Unknown /\ done = {}
  /\ seen = Unknown

-----------------------------------------------------------------------------
(* The command line.                                                       *)

MergedSeasons(c) == (c.seasons \cup {c.season}) \ {None}

FromTs(c) == IF c.from = None THEN None ELSE c.from * Day

(* Plausible bug: the last day ends where it begins. *)
ToTsAtMidnight(c) == IF c.to = None THEN None ELSE c.to * Day

(* The last second of the day. *)
ToTs(c) == IF c.to = None THEN None ELSE c.to * Day + (Day - 1)

Ranged(c) == FromTs(c) # None \/ ToTs(c) # None

(* Plausible bug: the dates are not compared. *)
AnyRange(c) == TRUE

InOrder(c) == None \notin {FromTs(c), ToTs(c)} => FromTs(c) <= ToTs(c)

(* Plausible bug: the shorthand --season is not guarded. *)
GuardedListOnly(c) == c.seasons = {} \/ c.bypass \/ Ranged(c) \/ c.lookback # None

Guarded(c) == MergedSeasons(c) = {} \/ c.bypass \/ Ranged(c) \/ c.lookback # None

(* A command line that is refused leaves nothing behind. *)
Launch ==
  /\ pc = "off"
  /\ \E c \in Commands :
       /\ InOrder(c) /\ Guarded(c)
       /\ args' = c
       /\ done' = IF c.resume THEN done ELSE {}
  /\ pc' = "leagues"
  /\ UNCHANGED <<settings, now, works, todo, asof, ids, bronze, seen>>

-----------------------------------------------------------------------------
(* The leagues, and Phase A.                                               *)

Subset(c) == IF c.leagues # {} THEN c.leagues ELSE settings.subset

(* select_leagues *)
Keeps(entry) ==
  /\ entry.league # None /\ entry.season # None
  /\ Subset(args) = {} \/ entry.league \in Subset(args)
  /\ IF MergedSeasons(args) # {} THEN entry.season \in MergedSeasons(args)
     ELSE entry.current

Pair(entry)     == <<entry.league, entry.season>>
PairsOf(listed) == {Pair(listed[i]) : i \in DOMAIN listed}

FetchLeagues ==
  /\ pc = "leagues"
  /\ \E catalogue \in Catalogues :
       works' = [i \in {j \in DOMAIN catalogue : Keeps(catalogue[j])} |-> catalogue[i]]
  /\ todo' = PairsOf(works')
  /\ pc' = "phase_a"
  /\ UNCHANGED <<settings, now, args, asof, ids, bronze, done, seen>>

(* The task of a league and season, in any order: reloaded if the run has    *)
(* it, otherwise fetched, or failed, before its payload landed or after.     *)
LeagueTask(p) ==
  /\ pc = "phase_a" /\ p \in todo
  /\ todo' = todo \ {p}
  /\ \/ /\ p \in done
        /\ asof' = [asof EXCEPT ![p] = bronze[p]]
        /\ UNCHANGED <<bronze, done>>
     \/ /\ p \notin done
        /\ asof' = [asof EXCEPT ![p] = now]
        /\ bronze' = [bronze EXCEPT ![p] = now]
        /\ done' = done \cup {p}
     \/ /\ p \notin done
        /\ bronze' \in {bronze, [bronze EXCEPT ![p] = now]}
        /\ UNCHANGED <<asof, done>>
  /\ UNCHANGED <<settings, now, pc, args, works, ids, seen>>

-----------------------------------------------------------------------------
(* Phase B's list.                                                         *)

Of(f) == <<f.league, f.season>>

(* What the API says of a fixture at a time. *)
StatusAt(f, t) ==
  IF t < f.start THEN "NS" ELSE IF t < f.start + Duration THEN "1H" ELSE "FT"

(* extract_fixture_records: the fixtures that have all they need, of the     *)
(* payloads there are.                                                       *)
Records == {f \in Fixtures : f.start # None /\ asof[Of(f)] # None}

(* Plausible bug: a league that is on the list counts as covered. *)
Listed(l) == \E i \in DOMAIN works : works[i].league = l

(* coverage_by_league: the last entry of a league speaks for all its seasons. *)
Covered(l) ==
  \E i \in DOMAIN works :
    /\ works[i].league = l /\ works[i].covered
    /\ \A j \in DOMAIN works : works[j].league = l => j <= i

Lookback == IF args.lookback # None THEN args.lookback ELSE settings.lookback

(* Plausible bug: today counts as one of the days. *)
RollingFromToday == now - (Lookback - 1) * Day

(* The clock is read here, when Phase A is over. *)
Rolling == now - Lookback * Day

InWindow(t) ==
  IF Ranged(args)
  THEN /\ FromTs(args) # None => t >= FromTs(args)
       /\ ToTs(args) # None => t <= ToTs(args)
  ELSE t >= Rolling

Eligible(f) ==
  StatusAt(f, asof[Of(f)]) \in settings.statuses /\ Covered(f.league)

(* select_fixture_ids *)
Derive ==
  /\ pc = "phase_a" /\ todo = {}
  /\ ids' = {f.id : f \in {g \in Records : Eligible(g) /\ InWindow(g.start)}}
  /\ seen' = IF Ranged(args) THEN seen
             ELSE [p \in Pairs |-> IF asof[p] # None THEN asof[p] ELSE seen[p]]
  /\ pc' = "planned"
  /\ UNCHANGED <<settings, now, args, works, todo, asof, bronze, done>>

(* The process ends, or dies: its variables are gone. *)
End ==
  /\ pc # "off"
  /\ pc' = "off" /\ args' = None
  /\ works' = <<>> /\ todo' = {} /\ asof' = Unknown /\ ids' = {}
  /\ UNCHANGED <<settings, now, bronze, done, seen>>

Tick ==
  /\ now < MaxTime
  /\ now' = now + 1
  /\ UNCHANGED <<settings, pc, args, works, todo, asof, ids, bronze, done, seen>>

Next ==
  \/ Launch \/ FetchLeagues \/ (\E p \in Pairs : LeagueTask(p)) \/ Derive \/ End
  \/ Tick

Spec == Init /\ [][Next]_vars

-----------------------------------------------------------------------------
(* Properties.                                                             *)

(* The state is well typed; a process that runs has a range of dates that is *)
(* not upside down, and a league it has checkpointed has its payload.        *)
TypeOK ==
  /\ settings \in Configs
  /\ now \in Time
  /\ pc \in {"off", "leagues", "phase_a", "planned"}
  /\ args \in Commands \cup {None}
  /\ {todo, done, PairsOf(works)} \subseteq SUBSET Pairs
  /\ {asof, bronze, seen} \subseteq [Pairs -> Time \cup {None}]
  /\ ids \subseteq {f.id : f \in Fixtures}
  /\ pc # "off" => args \in Commands
  /\ args # None /\ None \notin {args.from, args.to} => args.from <= args.to
  /\ \A p \in done : bronze[p] # None

(* The list stays within what was asked for: of the leagues and seasons that *)
(* the command line names, by whichever option, whatever the settings say;   *)
(* and of the settings' leagues where the command line names none.           *)
ScopeRespected ==
  \A f \in Fixtures : f.id \in ids =>
    /\ args.leagues # {} => f.league \in args.leagues
    /\ args.leagues = {} /\ settings.subset # {} => f.league \in settings.subset
    /\ args.seasons # {} \/ args.season # None =>
         f.season \in args.seasons \/ f.season = args.season

(* Calls are spent on a season that is over only if the command line has its *)
(* own window for Phase B, or says that it can do without.                   *)
PastSeasonsHaveWindow ==
  \A i \in DOMAIN works : ~works[i].current =>
    \/ args.bypass
    \/ args.lookback # None \/ args.from # None \/ args.to # None

(* No call is spent on what the command line did not ask for: the options    *)
(* narrow each other, and an empty one narrows nothing.                      *)
OnlyAskedFor == ScopeRespected /\ PastSeasonsHaveWindow

(* A range of dates takes its first and its last day in whole, and nothing   *)
(* of the days around them, or of the rolling window.                        *)
WholeDays ==
  pc = "planned" /\ Ranged(args) =>
    \A f \in Records : Eligible(f) =>
      (f.id \in ids <=> /\ args.from # None => f.start \div Day >= args.from
                        /\ args.to # None => f.start \div Day <= args.to)

(* With one season of each league on the list, no call of Phase B is spent   *)
(* on a fixture whose season the API does not cover. (With several, the last *)
(* one's coverage decides for all.)                                          *)
OneSeasonEach ==
  \A i, j \in DOMAIN works : works[i].league = works[j].league => i = j

CoverageOfItsSeason ==
  OneSeasonEach => \A f \in Fixtures : f.id \in ids =>
    \E i \in DOMAIN works : Pair(works[i]) = Of(f) /\ works[i].covered

(* Nothing slips between two lists with a rolling window, however long their *)
(* Phases A took and whatever was reloaded: a fixture that was not over when *)
(* its league was last looked at, and now is, is on the list, as long as the *)
(* two are no further apart than the window, less the time it is played.     *)
NothingSlips ==
  [][pc = "phase_a" /\ pc' = "planned" /\ ~Ranged(args) =>
       \A f \in Records :
         /\ seen[Of(f)] # None
         /\ now - seen[Of(f)] <= Lookback * Day - Duration
         /\ StatusAt(f, seen[Of(f)]) # "FT"
         /\ StatusAt(f, asof[Of(f)]) = "FT" /\ "FT" \in settings.statuses
         /\ Covered(f.league)
         => f.id \in ids']_vars
=============================================================================
