------------------------------- MODULE Runner -------------------------------
(***************************************************************************)
(* One ingestor process at a time, as run by `ingestor ingest`: the runner *)
(* (orchestrator/runner.py), its two phases (phase_a.py, phase_b.py), the  *)
(* checkpoint store, the dead letter table and the bronze rows they write. *)
(*                                                                         *)
(* Every call on Postgres is a short transaction of its own and is one     *)
(* atomic step here, so that the tasks of a phase interleave between their *)
(* calls, a call may fail, and the process may die between any two calls.  *)
(* A later process starts a fresh run or resumes an old one.               *)
(***************************************************************************)
EXTENDS Naturals, Sequences, FiniteSets

CONSTANTS
  RunIds,            \* run identifiers (uuid4, or given to --resume)
  NoRun,             \* `rid` while no process is up
  Leagues,           \* the (league, season) pairs of the /leagues catalogue
  Fixtures,          \* fixture ids
  FixturesOf,        \* the fixtures a pair's catalogue may list as eligible
  MaxWorkers,        \* settings.thread_pool_size
  MaxAttempts,       \* bound on the number of processes started
  DbOutcomes,        \* how a Postgres transaction may end (see Committed)
  HttpMayFail,       \* may client.get raise, retries included?
  CanCrash,          \* may the process be killed?
  MatcherConfigured  \* settings.matcher_db_dsn is non-empty

ASSUME RunnerAssumption ==
  /\ NoRun \notin RunIds
  /\ IsFiniteSet(Leagues) /\ IsFiniteSet(Fixtures)
  /\ FixturesOf \in [Leagues -> SUBSET Fixtures]
  /\ MaxWorkers \in Nat \ {0} /\ MaxAttempts \in Nat
  /\ "ok" \in DbOutcomes /\ DbOutcomes \subseteq {"ok", "error", "lost"}
  /\ {HttpMayFail, CanCrash, MatcherConfigured} \subseteq BOOLEAN

-----------------------------------------------------------------------------
(* Task keys: the rows of ingestion_checkpoints.                           *)

ck_league(l) == [scope |-> "league", key |-> l, endpoint |-> "fixtures_by_league"]
ck_fixture(f, e) == [scope |-> "fixture", key |-> f, endpoint |-> e]

FETCHERS == {"fixture_details", "halftime_stats"}

LeagueTasks  == {ck_league(l) : l \in Leagues}
FixtureTasks == {ck_fixture(f, e) : f \in Fixtures, e \in FETCHERS}
Tasks        == LeagueTasks \cup FixtureTasks

LeaguesCall  == [scope |-> "run", key |-> "leagues", endpoint |-> "leagues"]

(* What a fetch may return. Of a league's catalogue only the set of fixtures *)
(* that pass the status filter matters downstream; the body of a             *)
(* fixture-grain response is never read back, so one value stands for it.    *)
Payloads(t) == IF t \in LeagueTasks THEN SUBSET FixturesOf[t.key] ELSE {{}}

(* How `with pool.connection()` may end: committed; rolled back, raising;    *)
(* or committed by the server with the acknowledgement lost, raising.        *)
Committed(o) == o \in {"ok", "lost"}
Raised(o)    == o # "ok"

VARIABLES
  \* Postgres
  runs,        \* ingestion_runs.status of each run id
  ck,          \* ingestion_checkpoints.status of each run id and task
  bronze,      \* the bronze rows of each task, oldest first
  deadLetter,  \* the (run, task) pairs dead_letter has a row for
  snapshot,    \* the attempt that built apifootball_events (0: none yet)
  \* the process
  attempts,    \* processes started so far
  pc,          \* where the main thread is
  rid,         \* its run id
  works,       \* leagues selected for Phase A
  window,      \* fixtures that this attempt's time window and coverage let in
  fixtureIds,  \* fixtures selected for Phase B
  tpc,         \* where each task is
  payload,     \* the catalogue a Phase A task got, for the Phase B work list
  faulted      \* history: a transaction has raised, or a process was killed

db    == <<runs, ck, bronze, deadLetter, snapshot>>
plan  == <<works, window, fixtureIds>>
vars  == <<runs, ck, bronze, deadLetter, snapshot, attempts, pc, rid,
           works, window, fixtureIds, tpc, payload, faulted>>

RunStatus  == {"absent", "running", "succeeded", "partial", "failed"}
CkStatus   == {"absent", "pending", "succeeded", "failed"}
Phases     == {"phaseA", "phaseB"}
MainPoints == {"off", "leagues", "project", "crashed"} \cup Phases
Running    == {"load", "mark_pending", "fetch", "mark_succeeded",
               "mark_failed", "dead_letter"}
Finished   == {"landed", "skipped", "failed"}
TaskPoints == {"out", "queued", "raised", "cancelled"} \cup Running \cup Finished

TypeOK ==
  /\ runs \in [RunIds -> RunStatus]
  /\ ck \in [RunIds -> [Tasks -> CkStatus]]
  /\ bronze \in [Tasks -> Seq(SUBSET Fixtures)]
  /\ deadLetter \subseteq RunIds \X (Tasks \cup {LeaguesCall})
  /\ snapshot \in Nat /\ attempts \in Nat
  /\ pc \in MainPoints
  /\ IF pc = "off" THEN rid = NoRun ELSE rid \in RunIds
  /\ works \subseteq Leagues
  /\ window \subseteq Fixtures /\ fixtureIds \subseteq Fixtures
  /\ tpc \in [Tasks -> TaskPoints]
  /\ payload \in [LeagueTasks -> SUBSET Fixtures]
  /\ faulted \in BOOLEAN

Note(o) == IF Raised(o) THEN faulted' = TRUE ELSE UNCHANGED faulted

NoTasks   == [t \in Tasks |-> "out"]
NoPayload == [t \in LeagueTasks |-> {}]

Init ==
  /\ runs = [r \in RunIds |-> "absent"]
  /\ ck = [r \in RunIds |-> [t \in Tasks |-> "absent"]]
  /\ bronze = [t \in Tasks |-> <<>>]
  /\ deadLetter = {}
  /\ snapshot = 0 /\ attempts = 0
  /\ pc = "off" /\ rid = NoRun
  /\ works = {} /\ window = {} /\ fixtureIds = {}
  /\ tpc = NoTasks /\ payload = NoPayload
  /\ faulted = FALSE

-----------------------------------------------------------------------------
(* The main thread.                                                        *)

(* Plausible bug: the run id outlives its process. *)
ExitKeepingRid ==
  /\ pc' = "off" /\ rid' = rid
  /\ works' = {} /\ window' = {} /\ fixtureIds' = {}
  /\ tpc' = NoTasks /\ payload' = NoPayload
  /\ UNCHANGED attempts

(* The process ends: what it held in memory is gone. *)
Exit ==
  /\ pc' = "off" /\ rid' = NoRun
  /\ works' = {} /\ window' = {} /\ fixtureIds' = {}
  /\ tpc' = NoTasks /\ payload' = NoPayload
  /\ UNCHANGED attempts

Launch ==
  /\ pc = "off"
  /\ attempts < MaxAttempts
  /\ attempts' = attempts + 1

(* A fresh run: start_run inserts its row. If that raises, the process ends  *)
(* before the handler that records a failed run is in place.                 *)
StartRun(r) ==
  /\ Launch
  /\ runs[r] = "absent" /\ \A t \in Tasks : ck[r][t] = "absent"
  /\ \E o \in DbOutcomes :
       /\ runs' = IF Committed(o) THEN [runs EXCEPT ![r] = "running"] ELSE runs
       /\ IF Raised(o) THEN UNCHANGED <<pc, rid>> ELSE pc' = "leagues" /\ rid' = r
       /\ Note(o)
  /\ UNCHANGED <<ck, bronze, deadLetter, snapshot, plan, tpc, payload>>

(* --resume takes the given id as it is: no row is looked up, none updated.  *)
ResumeRun(r) ==
  /\ Launch
  /\ pc' = "leagues" /\ rid' = r
  /\ UNCHANGED <<db, plan, tpc, payload, faulted>>

(* fetch_leagues, then select_leagues: which pairs are selected depends on   *)
(* the catalogue and on this invocation's --leagues and --seasons. A failure *)
(* of the call or of its bronze write is not caught below run_ingestion.     *)
(* (bronze_leagues itself is left out: nothing in the program reads it.)     *)
FetchLeagues ==
  /\ pc = "leagues"
  /\ \/ /\ \/ HttpMayFail /\ UNCHANGED faulted
           \/ \E o \in DbOutcomes : Raised(o) /\ Note(o)
        /\ pc' = "crashed"
        /\ UNCHANGED <<works, tpc>>
     \/ \E w \in SUBSET Leagues :
          /\ works' = w
          /\ tpc' = [t \in Tasks |-> IF t \in {ck_league(l) : l \in w}
                                     THEN "queued" ELSE "out"]
          /\ pc' = "phaseA"
          /\ UNCHANGED faulted
  /\ UNCHANGED <<db, attempts, rid, window, fixtureIds, payload>>

(* Plausible bug: a failed task is never seen as done. *)
SettledUnlessFailed == \A t \in Tasks : tpc[t] \in {"landed", "skipped", "out"}

(* list(ex.map(...)) has consumed every result, none of them an exception.   *)
Settled == \A t \in Tasks : tpc[t] \in Finished \cup {"out"}

(* Phase A is over: select_fixture_ids keeps, of the catalogues the Phase A  *)
(* outcomes carry, the fixtures of covered leagues in the time window, which *)
(* moves with the clock and with --from, --to and --lookback-days.           *)
DerivePhaseB ==
  /\ pc = "phaseA" /\ Settled
  /\ \E w \in SUBSET Fixtures :
       LET listed == UNION {payload[t] : t \in
                            {u \in LeagueTasks : tpc[u] \in {"landed", "skipped"}}}
       IN /\ window' = w
          /\ fixtureIds' = listed \cap w
  /\ tpc' = [t \in Tasks |-> IF t \in FixtureTasks /\ t.key \in fixtureIds'
                             THEN "queued" ELSE tpc[t]]
  /\ pc' = "phaseB"
  /\ UNCHANGED <<db, attempts, rid, works, payload, faulted>>

(* Plausible bug: the status is written only when the run succeeded. *)
FinishSucceededOnly(o, status) ==
  runs' = IF Committed(o) /\ runs[rid] # "absent" /\ status = "succeeded"
          THEN [runs EXCEPT ![rid] = status] ELSE runs

(* finish_run is an UPDATE: without a row for the run it changes nothing.    *)
Finish(o, status) ==
  runs' = IF Committed(o) /\ runs[rid] # "absent"
          THEN [runs EXCEPT ![rid] = status] ELSE runs

(* Plausible bug: only Phase B's failures are counted. *)
TerminalStatusOfPhaseB ==
  IF \A t \in FixtureTasks : tpc[t] # "failed" THEN "succeeded" ELSE "partial"

TerminalStatus == IF \A t \in Tasks : tpc[t] # "failed" THEN "succeeded" ELSE "partial"

(* Plausible bug: the projection is not gated on the verdict. *)
ProjectWheneverConfigured == MatcherConfigured

ShouldProject == TerminalStatus = "succeeded" /\ MatcherConfigured

FinishRun ==
  /\ pc = "phaseB" /\ Settled
  /\ \E o \in DbOutcomes :
       /\ Finish(o, TerminalStatus) /\ Note(o)
       /\ \/ /\ Raised(o) /\ pc' = "crashed"
             /\ UNCHANGED <<attempts, rid, plan, tpc, payload>>
          \/ /\ ~Raised(o) /\ ShouldProject
             /\ pc' = "project"
             /\ UNCHANGED <<attempts, rid, plan, tpc, payload>>
          \/ /\ ~Raised(o) /\ ~ShouldProject
             /\ Exit
  /\ UNCHANGED <<ck, bronze, deadLetter, snapshot>>

(* _project_events: one transaction on the sources database replaces the     *)
(* table. An exception lands in the handler that records a failed run.       *)
ProjectEvents ==
  /\ pc = "project"
  /\ \E o \in DbOutcomes :
       /\ snapshot' = IF Committed(o) THEN attempts ELSE snapshot
       /\ Note(o)
       /\ IF Raised(o) THEN /\ pc' = "crashed"
                            /\ UNCHANGED <<attempts, rid, plan, tpc, payload>>
                       ELSE Exit
  /\ UNCHANGED <<runs, ck, bronze, deadLetter>>

(* `except Exception`: record the run as failed and re-raise. *)
HandleCrash ==
  /\ pc = "crashed"
  /\ \E o \in DbOutcomes : Finish(o, "failed") /\ Note(o)
  /\ Exit
  /\ UNCHANGED <<ck, bronze, deadLetter, snapshot>>

(* The process is killed. *)
Crash ==
  /\ CanCrash /\ pc # "off"
  /\ faulted' = TRUE
  /\ Exit
  /\ UNCHANGED db

-----------------------------------------------------------------------------
(* The tasks of a phase, on a ThreadPoolExecutor. The queue is unordered     *)
(* here: the order of the work list is the API's.                            *)

Workers == {t \in Tasks : tpc[t] \in Running}
Local   == <<attempts, pc, rid, works, window, fixtureIds>>

Goto(t, there) == tpc' = [tpc EXCEPT ![t] = there]

Upsert(t, status, o) ==
  ck' = IF Committed(o) THEN [ck EXCEPT ![rid][t] = status] ELSE ck

(* Plausible bug: checkpoints are not consulted. *)
NeverSucceeded(t) == FALSE

IsSucceeded(t) == ck[rid][t] = "succeeded"

(* A worker takes the task and asks is_succeeded. *)
TakeTask(t) ==
  /\ tpc[t] = "queued" /\ Cardinality(Workers) < MaxWorkers
  /\ \E o \in DbOutcomes :
       /\ Goto(t, IF Raised(o) THEN "raised"
                  ELSE IF ~IsSucceeded(t) THEN "mark_pending"
                  ELSE IF t \in LeagueTasks THEN "load" ELSE "skipped")
       /\ Note(o)
  /\ UNCHANGED <<db, Local, payload>>

(* Plausible bug: the oldest bronze row is read instead of the newest. *)
ReloadedOldest(t) ==
  IF bronze[t] = <<>> THEN payload ELSE [payload EXCEPT ![t] = bronze[t][1]]

Reloaded(t) ==
  IF bronze[t] = <<>> THEN payload
  ELSE [payload EXCEPT ![t] = bronze[t][Len(bronze[t])]]

(* A skipped league's catalogue is read back from its newest bronze row. *)
LoadLatestPayload(t) ==
  /\ tpc[t] = "load"
  /\ \E o \in DbOutcomes :
       /\ IF Raised(o)
          THEN Goto(t, "raised") /\ UNCHANGED payload
          ELSE Goto(t, "skipped") /\ payload' = Reloaded(t)
       /\ Note(o)
  /\ UNCHANGED <<db, Local>>

MarkPending(t) ==
  /\ tpc[t] = "mark_pending"
  /\ \E o \in DbOutcomes :
       /\ Upsert(t, "pending", o)
       /\ Goto(t, IF Raised(o) THEN "raised" ELSE "fetch")
       /\ Note(o)
  /\ UNCHANGED <<runs, bronze, deadLetter, snapshot, Local, payload>>

(* write_bronze: append unless the newest row already has this payload. *)
WriteBronze(t, p) ==
  IF bronze[t] # <<>> /\ bronze[t][Len(bronze[t])] = p THEN bronze
  ELSE [bronze EXCEPT ![t] = Append(@, p)]

(* Plausible bug: the outcome of the bronze transaction is not looked at. *)
AfterFetchUnchecked(o) == "mark_succeeded"

AfterFetch(o) == IF Raised(o) THEN "mark_failed" ELSE "mark_succeeded"

(* The fetch function: the API call, then the bronze transaction. *)
Fetch(t) ==
  /\ tpc[t] = "fetch"
  /\ \/ /\ HttpMayFail
        /\ Goto(t, "mark_failed")
        /\ UNCHANGED <<bronze, payload, faulted>>
     \/ \E p \in Payloads(t), o \in DbOutcomes :
          /\ bronze' = IF Committed(o) THEN WriteBronze(t, p) ELSE bronze
          /\ Goto(t, AfterFetch(o)) /\ Note(o)
          /\ payload' = IF ~Raised(o) /\ t \in LeagueTasks
                        THEN [payload EXCEPT ![t] = p] ELSE payload
  /\ UNCHANGED <<runs, ck, deadLetter, snapshot, Local>>

MarkSucceeded(t) ==
  /\ tpc[t] = "mark_succeeded"
  /\ \E o \in DbOutcomes :
       /\ Upsert(t, "succeeded", o)
       /\ Goto(t, IF Raised(o) THEN "mark_failed" ELSE "landed")
       /\ Note(o)
  /\ UNCHANGED <<runs, bronze, deadLetter, snapshot, Local, payload>>

(* Plausible bug: a failure is recorded in the checkpoint table only. *)
AfterMarkFailedSilently(o) == IF Raised(o) THEN "raised" ELSE "failed"

AfterMarkFailed(o) == IF Raised(o) THEN "raised" ELSE "dead_letter"

MarkFailed(t) ==
  /\ tpc[t] = "mark_failed"
  /\ \E o \in DbOutcomes :
       /\ Upsert(t, "failed", o)
       /\ Goto(t, AfterMarkFailed(o))
       /\ Note(o)
  /\ UNCHANGED <<runs, bronze, deadLetter, snapshot, Local, payload>>

(* record_failure is best effort: what it raises is logged and dropped. *)
RecordFailure(t) ==
  /\ tpc[t] = "dead_letter"
  /\ \E o \in DbOutcomes :
       /\ deadLetter' = IF Committed(o) THEN deadLetter \cup {<<rid, t>>} ELSE deadLetter
       /\ Note(o)
  /\ Goto(t, "failed")
  /\ UNCHANGED <<runs, ck, bronze, snapshot, Local, payload>>

SomeRaised == \E t \in Tasks : tpc[t] = "raised"

(* list(ex.map(...)) meets the exception of a task: the futures that have not *)
(* started are cancelled ...                                                  *)
CancelQueued ==
  /\ pc \in Phases /\ SomeRaised
  /\ \E t \in Tasks : tpc[t] = "queued"
  /\ tpc' = [t \in Tasks |-> IF tpc[t] = "queued" THEN "cancelled" ELSE tpc[t]]
  /\ UNCHANGED <<db, Local, payload, faulted>>

(* ... those that have are awaited, and the exception leaves the phase. *)
AbortPhase ==
  /\ pc \in Phases /\ SomeRaised
  /\ \A t \in Tasks : tpc[t] # "queued"
  /\ Workers = {}
  /\ pc' = "crashed"
  /\ UNCHANGED <<db, attempts, rid, plan, tpc, payload, faulted>>

-----------------------------------------------------------------------------
MainStep ==
  \/ FetchLeagues \/ DerivePhaseB \/ FinishRun \/ ProjectEvents \/ HandleCrash
  \/ CancelQueued \/ AbortPhase

TaskStep(t) ==
  \/ TakeTask(t) \/ LoadLatestPayload(t) \/ MarkPending(t) \/ Fetch(t)
  \/ MarkSucceeded(t) \/ MarkFailed(t) \/ RecordFailure(t)

(* The last process allowed by the bound has ended. *)
AllDone == pc = "off" /\ attempts = MaxAttempts /\ UNCHANGED vars

Next ==
  \/ \E r \in RunIds : StartRun(r) \/ ResumeRun(r)
  \/ MainStep
  \/ \E t \in Tasks : TaskStep(t)
  \/ Crash
  \/ AllDone

Spec == Init /\ [][Next]_vars

(* A process that is up keeps running its own threads; launching a process, *)
(* and killing one, is up to the operator.                                  *)
FairSpec == Spec /\ WF_vars(MainStep) /\ \A t \in Tasks : WF_vars(TaskStep(t))
-----------------------------------------------------------------------------
(* Properties.                                                             *)

(* What the current process set out to land: run_phase_a's leagues and the   *)
(* product of fixture_ids and _FETCHERS of run_phase_b.                       *)
Planned == {ck_league(l) : l \in works}
           \cup {ck_fixture(f, e) : f \in fixtureIds, e \in FETCHERS}

Backed(r, t) == ck[r][t] = "succeeded" /\ bronze[t] # <<>>

(* A checkpoint that says 'succeeded' is never ahead of the data: whatever    *)
(* failed or died in between, its payload has been in bronze since. Resume    *)
(* depends on it: a skipped league is read back from bronze, and a skipped    *)
(* task is never fetched again.                                               *)
SucceededLanded ==
  \A r \in RunIds, t \in Tasks : ck[r][t] = "succeeded" => bronze[t] # <<>>

(* The verdict finish_run records is true of the tables at that moment: a run *)
(* is 'succeeded' only if every task this process planned is checkpointed so  *)
(* and has its payload in bronze; it is 'partial' only if some planned task   *)
(* is checkpointed 'failed' and none was left half done.                      *)
VerdictHonest ==
  [][\A r \in RunIds : runs'[r] # runs[r] =>
       /\ runs'[r] = "succeeded" => \A t \in Planned : Backed(r, t)
       /\ runs'[r] = "partial" =>
            /\ \E t \in Planned : ck[r][t] = "failed"
            /\ \A t \in Planned : ck[r][t] = "failed" \/ Backed(r, t)]_vars

(* The matcher's table is only rebuilt by a process all of whose planned      *)
(* tasks have landed: a partial or failed run leaves the prior snapshot.      *)
SnapshotBacked ==
  [][snapshot' # snapshot => \A t \in Planned : Backed(rid, t)]_vars

(* Phase B is derived from the newest catalogue of every league that counts   *)
(* as done, whether it was fetched by this process or skipped because an      *)
(* earlier one had checkpointed it.                                           *)
PhaseBCoversCatalogue ==
  pc \in {"phaseB", "project"} =>
    \A l \in works :
      LET t == ck_league(l)
      IN Backed(rid, t) => bronze[t][Len(bronze[t])] \cap window \subseteq fixtureIds

(* A task checkpointed 'succeeded' is done for that run: no process resuming  *)
(* it puts the task back to 'pending' or fetches it again.                    *)
SucceededNotRedone ==
  [][\A r \in RunIds, t \in Tasks : ck[r][t] = "succeeded" =>
       /\ ck'[r][t] # "pending"
       /\ rid = r => bronze'[t] = bronze[t]]_vars

(* As long as only the API fails, a task's failure is its own: no other task *)
(* is cancelled or blown up by it, its checkpoint says 'failed' and the dead  *)
(* letter table names it, also after its process has ended.                   *)
FailureIsolated ==
  ~faulted => \A t \in Tasks :
    /\ tpc[t] \notin {"raised", "cancelled"}
    /\ tpc[t] = "failed" => ck[rid][t] = "failed"
    /\ \A r \in RunIds : ck[r][t] = "failed" =>
         <<r, t>> \in deadLetter \/ (r = rid /\ tpc[t] = "dead_letter")

(* The tables keep RunLedger's promise, task by task: whatever interleaves,   *)
(* fails, dies or is resumed, a transaction on them is one of its steps.      *)
Ledger == INSTANCE RunLedger WITH
  Runs   <- RunIds,
  stored <- {t \in Tasks : bronze[t] # <<>>}

ImplementsLedger == Ledger!Spec

(* Every process that is launched ends, whichever calls fail: no phase waits  *)
(* for ever on a task, and an exception is always passed on.                  *)
AttemptEnds == pc # "off" ~> pc = "off"

(* Unless a call on Postgres fails or something is killed, a run does not     *)
(* stay 'running': its process settles it, even if the API never answers.     *)
RunSettles ==
  \A r \in RunIds : (rid = r /\ runs[r] = "running")
                      ~> (faulted \/ (rid # r /\ runs[r] # "running"))
=============================================================================
