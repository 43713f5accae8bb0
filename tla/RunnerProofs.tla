---------------------------- MODULE RunnerProofs ----------------------------
(***************************************************************************)
(* Proofs about Runner, for any catalogue, number of workers, number of    *)
(* processes and mixture of faults.                                        *)
(***************************************************************************)
EXTENDS Runner, TLAPS

(* What the checkpoint of a task of the current run says, given where the    *)
(* task is. The bronze row precedes the call that marks it succeeded.        *)
TaskTruth ==
  \A t \in Tasks :
    /\ tpc[t] = "mark_pending" => ck[rid][t] # "succeeded"
    /\ tpc[t] \in {"fetch", "mark_succeeded"} => ck[rid][t] = "pending"
    /\ tpc[t] = "mark_succeeded" => bronze[t] # <<>>
    /\ tpc[t] = "mark_failed" => ck[rid][t] \in {"pending", "succeeded"}
    /\ tpc[t] \in {"load", "skipped", "landed"} => ck[rid][t] = "succeeded"
    /\ tpc[t] \in {"dead_letter", "failed"} => ck[rid][t] = "failed"

(* Exactly the planned tasks exist, from the moment a phase is entered. *)
PlanTracked ==
  /\ pc \in {"off", "leagues"} => works = {} /\ fixtureIds = {} /\ tpc = NoTasks
  /\ pc = "phaseA" => fixtureIds = {}
  /\ pc \in {"phaseA", "phaseB", "project"} =>
       \A t \in Tasks : tpc[t] = "out" <=> t \notin Planned
  /\ pc = "project" => \A t \in Tasks : tpc[t] \in {"landed", "skipped", "out"}

IInv == TypeOK /\ SucceededLanded /\ TaskTruth /\ PlanTracked

-----------------------------------------------------------------------------
(* A checkpoint upsert keeps the table's type, and changes at most one row.  *)
LEMMA UpsertEffect ==
  ASSUME TypeOK, NEW r \in RunIds, NEW t \in Tasks, NEW s \in CkStatus
  PROVE  LET new == [ck EXCEPT ![r][t] = s]
         IN /\ new \in [RunIds -> [Tasks -> CkStatus]]
            /\ \A q \in RunIds, u \in Tasks :
                 new[q][u] = IF q = r /\ u = t THEN s ELSE ck[q][u]
BY DEF TypeOK

(* Writing bronze keeps the table's type, leaves the other tasks' rows alone *)
(* and leaves the task with at least one row.                                *)
LEMMA WriteBronzeEffect ==
  ASSUME TypeOK, NEW t \in Tasks, NEW p \in SUBSET Fixtures
  PROVE  /\ WriteBronze(t, p) \in [Tasks -> Seq(SUBSET Fixtures)]
         /\ WriteBronze(t, p)[t] # <<>>
         /\ \A u \in Tasks : u # t => WriteBronze(t, p)[u] = bronze[u]
<1>1. bronze \in [Tasks -> Seq(SUBSET Fixtures)]
  BY DEF TypeOK
<1>2. Append(bronze[t], p) \in Seq(SUBSET Fixtures) /\ Append(bronze[t], p) # <<>>
  BY <1>1
<1> QED BY <1>1, <1>2 DEF WriteBronze

(* What a fetch may return is a set of fixtures. *)
LEMMA PayloadsType ==
  ASSUME NEW t \in Tasks
  PROVE  Payloads(t) \subseteq SUBSET Fixtures
<1>1. CASE t \in LeagueTasks
  <2>1. PICK l \in Leagues : t.key = l
    BY <1>1 DEF LeagueTasks, ck_league
  <2> QED BY <1>1, <2>1, RunnerAssumption DEF Payloads
<1>2. CASE t \notin LeagueTasks
  BY <1>2 DEF Payloads
<1> QED BY <1>1, <1>2

(* The newest row of a task with rows is a set of fixtures. *)
LEMMA NewestType ==
  ASSUME TypeOK, NEW t \in Tasks, bronze[t] # <<>>
  PROVE  bronze[t][Len(bronze[t])] \in SUBSET Fixtures
<1>1. bronze[t] \in Seq(SUBSET Fixtures)
  BY DEF TypeOK
<1>2. Len(bronze[t]) \in 1..Len(bronze[t])
  BY <1>1
<1> QED BY <1>1, <1>2

(* League tasks and fixture tasks are different rows. *)
LEMMA ScopesDiffer == LeagueTasks \cap FixtureTasks = {}
<1> SUFFICES ASSUME NEW t \in LeagueTasks, t \in FixtureTasks PROVE FALSE
  OBVIOUS
<1>1. t.scope = "league"
  BY DEF LeagueTasks, ck_league
<1>2. t.scope = "fixture"
  BY DEF FixtureTasks, ck_fixture
<1> QED BY <1>1, <1>2
-----------------------------------------------------------------------------
LEMMA InitEstablishes == Init => IInv
<1> SUFFICES ASSUME Init PROVE IInv
  OBVIOUS
<1>1. TypeOK
  <2>1. faulted \in BOOLEAN
    BY DEF Init
  <2>2. /\ runs \in [RunIds -> RunStatus] /\ ck \in [RunIds -> [Tasks -> CkStatus]]
        /\ bronze \in [Tasks -> Seq(SUBSET Fixtures)]
    BY DEF Init, RunStatus, CkStatus
  <2> QED
    BY <2>1, <2>2, RunnerAssumption
    DEF Init, TypeOK, NoTasks, NoPayload, MainPoints, TaskPoints
<1>2. SucceededLanded /\ TaskTruth /\ PlanTracked
  BY DEF Init, SucceededLanded, TaskTruth, PlanTracked, NoTasks
<1> QED BY <1>1, <1>2 DEF IInv

(* A step may note a fault, and never forgets one.                           *)
LEMMA FaultsStay ==
  ASSUME [Next]_vars
  PROVE  faulted' = faulted \/ faulted' = TRUE
<1>1. \A o : Note(o) => faulted' = faulted \/ faulted' = TRUE
  BY DEF Note
<1>2. ASSUME NEW t \in Tasks, TaskStep(t) PROVE faulted' = faulted \/ faulted' = TRUE
  BY <1>1, <1>2 DEF TaskStep, TakeTask, LoadLatestPayload, MarkPending, Fetch,
                    MarkSucceeded, MarkFailed, RecordFailure
<1>3. CASE MainStep
  BY <1>1, <1>3 DEF MainStep, FetchLeagues, DerivePhaseB, FinishRun, ProjectEvents,
                    HandleCrash, CancelQueued, AbortPhase
<1>4. ASSUME NEW r \in RunIds, StartRun(r) \/ ResumeRun(r)
      PROVE  faulted' = faulted \/ faulted' = TRUE
  BY <1>1, <1>4 DEF StartRun, ResumeRun
<1>5. CASE Crash \/ AllDone \/ UNCHANGED vars
  BY <1>5 DEF Crash, AllDone, vars
<1> QED BY <1>2, <1>3, <1>4, <1>5 DEF Next

LEMMA FaultedType == ASSUME TypeOK, [Next]_vars PROVE faulted' \in BOOLEAN
BY FaultsStay DEF TypeOK

(* A process that ends leaves nothing behind but what is in Postgres. *)
LEMMA ExitKeeps ==
  ASSUME IInv, Exit, UNCHANGED <<ck, bronze>>,
         runs' \in [RunIds -> RunStatus], snapshot' \in Nat, UNCHANGED deadLetter,
         faulted' \in BOOLEAN
  PROVE  IInv'
<1>1. TypeOK'
  BY RunnerAssumption
  DEF IInv, TypeOK, Exit, NoTasks, NoPayload, MainPoints, TaskPoints
<1>2. SucceededLanded'
  BY DEF IInv, SucceededLanded
<1>3. TaskTruth' /\ PlanTracked'
  BY DEF Exit, TaskTruth, PlanTracked, NoTasks
<1> QED BY <1>1, <1>2, <1>3 DEF IInv

(* finish_run keeps the type of the table of runs. *)
LEMMA FinishType ==
  ASSUME TypeOK, NEW o, NEW s \in RunStatus, Finish(o, s)
  PROVE  runs' \in [RunIds -> RunStatus]
BY DEF TypeOK, Finish

LEMMA MainStepKeeps == IInv /\ MainStep => IInv'
<1> SUFFICES ASSUME IInv, MainStep PROVE IInv'
  OBVIOUS
<1> USE DEF IInv
<1>0. faulted' \in BOOLEAN
  BY FaultedType DEF Next
<1>1. CASE FetchLeagues
  <2>1. TypeOK'
    BY <1>0, <1>1 DEF TypeOK, FetchLeagues, db, MainPoints, TaskPoints, Phases
  <2>2. SucceededLanded'
    BY <1>1 DEF SucceededLanded, FetchLeagues, db
  <2>3. TaskTruth'
    BY <1>1 DEF TaskTruth, PlanTracked, FetchLeagues, db, NoTasks
  <2>4. PlanTracked'
    BY <1>1 DEF PlanTracked, FetchLeagues, db, NoTasks, Planned
  <2> QED BY <2>1, <2>2, <2>3, <2>4
<1>2. CASE DerivePhaseB
  <2>1. TypeOK'
    BY <1>0, <1>2 DEF TypeOK, DerivePhaseB, db, MainPoints, TaskPoints, Phases
  <2>2. SucceededLanded'
    BY <1>2 DEF SucceededLanded, DerivePhaseB, db
  <2>3. TaskTruth'
    BY <1>2 DEF TypeOK, TaskTruth, DerivePhaseB, db
  <2>4. PlanTracked'
    <3>1. pc = "phaseA" /\ pc' = "phaseB" /\ works' = works /\ fixtureIds = {}
      BY <1>2 DEF DerivePhaseB, PlanTracked
    <3>2. ASSUME NEW t \in Tasks PROVE tpc'[t] = "out" <=> t \notin Planned'
      <4>1. tpc'[t] = IF t \in FixtureTasks /\ t.key \in fixtureIds'
                      THEN "queued" ELSE tpc[t]
        BY <1>2 DEF DerivePhaseB
      <4>2. tpc[t] = "out" <=> t \notin {ck_league(l) : l \in works}
        BY <3>1 DEF PlanTracked, Planned
      <4>3. CASE t \in LeagueTasks
        <5>1. t \notin {ck_fixture(f, e) : f \in fixtureIds', e \in FETCHERS}
          BY <4>3 DEF LeagueTasks, ck_league, ck_fixture
        <5>2. t \notin FixtureTasks
          BY <4>3, ScopesDiffer
        <5> QED BY <3>1, <4>1, <4>2, <5>1, <5>2 DEF Planned
      <4>4. CASE t \in FixtureTasks
        <5>1. t \notin {ck_league(l) : l \in works}
          BY <4>4 DEF FixtureTasks, ck_league, ck_fixture
        <5>2. t.key \in fixtureIds'
              <=> t \in {ck_fixture(f, e) : f \in fixtureIds', e \in FETCHERS}
          BY <4>4 DEF FixtureTasks, ck_fixture
        <5> QED BY <3>1, <4>1, <4>2, <4>4, <5>1, <5>2 DEF Planned
      <4> QED BY <4>3, <4>4 DEF Tasks
    <3> QED BY <3>1, <3>2 DEF PlanTracked
  <2> QED BY <2>1, <2>2, <2>3, <2>4
<1>3. CASE FinishRun
  <2>1. PICK o \in DbOutcomes :
          /\ Finish(o, TerminalStatus)
          /\ \/ /\ Raised(o) /\ pc' = "crashed"
                /\ UNCHANGED <<attempts, rid, plan, tpc, payload>>
             \/ /\ ~Raised(o) /\ ShouldProject /\ pc' = "project"
                /\ UNCHANGED <<attempts, rid, plan, tpc, payload>>
             \/ ~Raised(o) /\ ~ShouldProject /\ Exit
    BY <1>3 DEF FinishRun
  <2>2. runs' \in [RunIds -> RunStatus]
    BY <2>1, FinishType DEF TerminalStatus, RunStatus
  <2>3. pc = "phaseB" /\ Settled /\ UNCHANGED <<ck, bronze, deadLetter, snapshot>>
    BY <1>3 DEF FinishRun
  <2>4. CASE Exit
    BY <1>0, <2>2, <2>3, <2>4, ExitKeeps DEF TypeOK
  <2>5. CASE pc' \in {"crashed", "project"} /\ UNCHANGED <<attempts, rid, plan, tpc, payload>>
    <3>1. TypeOK'
      BY <1>0, <2>2, <2>3, <2>5 DEF TypeOK, plan, MainPoints
    <3>2. SucceededLanded' /\ TaskTruth'
      BY <2>3, <2>5 DEF SucceededLanded, TaskTruth
    <3>3. CASE pc' = "crashed"
      <4>1. PlanTracked'
        BY <3>3 DEF PlanTracked
      <4> QED BY <3>1, <3>2, <4>1
    <3>4. CASE pc' = "project"
      <4>1. \A t \in Tasks : tpc[t] \in {"landed", "skipped", "out"}
        BY <2>1, <2>3, <3>4 DEF Exit, ShouldProject, TerminalStatus, Settled, Finished
      <4>2. PlanTracked'
        BY <2>3, <2>5, <3>4, <4>1 DEF PlanTracked, Planned, plan
      <4> QED BY <3>1, <3>2, <4>2
    <3> QED BY <2>5, <3>3, <3>4
  <2> QED BY <2>1, <2>4, <2>5
<1>4. CASE ProjectEvents
  <2>1. snapshot' \in Nat
    BY <1>4 DEF ProjectEvents, TypeOK
  <2>2. CASE Exit
    BY <1>0, <1>4, <2>1, <2>2, ExitKeeps DEF ProjectEvents, TypeOK
  <2>3. CASE pc' = "crashed" /\ UNCHANGED <<attempts, rid, plan, tpc, payload>>
    <3>1. TypeOK'
      BY <1>0, <1>4, <2>1, <2>3 DEF ProjectEvents, TypeOK, plan, MainPoints
    <3>2. SucceededLanded' /\ TaskTruth' /\ PlanTracked'
      BY <1>4, <2>3 DEF ProjectEvents, SucceededLanded, TaskTruth, PlanTracked
    <3> QED BY <3>1, <3>2
  <2> QED BY <1>4, <2>2, <2>3 DEF ProjectEvents
<1>5. CASE HandleCrash
  <2>1. runs' \in [RunIds -> RunStatus]
    BY <1>5, FinishType DEF HandleCrash, RunStatus
  <2> QED BY <1>0, <1>5, <2>1, ExitKeeps DEF HandleCrash, TypeOK
<1>6. CASE CancelQueued
  <2>1. TypeOK'
    BY <1>0, <1>6 DEF TypeOK, CancelQueued, db, Local, TaskPoints
  <2>2. SucceededLanded' /\ TaskTruth'
    BY <1>6 DEF TypeOK, SucceededLanded, TaskTruth, CancelQueued, db, Local
  <2>3. PlanTracked'
    BY <1>6 DEF PlanTracked, CancelQueued, db, Local, Planned, Phases
  <2> QED BY <2>1, <2>2, <2>3
<1>7. CASE AbortPhase
  <2>1. TypeOK'
    BY <1>0, <1>7 DEF TypeOK, AbortPhase, db, plan, MainPoints, Phases
  <2>2. SucceededLanded' /\ TaskTruth' /\ PlanTracked'
    BY <1>7 DEF SucceededLanded, TaskTruth, PlanTracked, AbortPhase, db
  <2> QED BY <2>1, <2>2
<1> QED BY <1>1, <1>2, <1>3, <1>4, <1>5, <1>6, <1>7 DEF MainStep
-----------------------------------------------------------------------------
(* A task that steps belongs to the process that is up.                      *)
LEMMA TaskHasRun ==
  ASSUME IInv, NEW t \in Tasks, tpc[t] # "out"
  PROVE  pc \notin {"off", "leagues"} /\ rid \in RunIds
<1>1. pc \notin {"off", "leagues"}
  BY DEF IInv, PlanTracked, NoTasks
<1> QED BY <1>1 DEF IInv, TypeOK

(* A step that moves one existing task to an existing place, other than into *)
(* or out of the projection's precondition, keeps the plan's bookkeeping.    *)
LEMMA MoveKeepsPlan ==
  ASSUME IInv, NEW t \in Tasks, UNCHANGED Local, Goto(t, tpc'[t]),
         tpc[t] \notin {"out", "landed", "skipped"},
         tpc'[t] \in TaskPoints \ {"out"}
  PROVE  PlanTracked'
<1>1. pc \notin {"off", "leagues", "project"}
  BY TaskHasRun DEF IInv, PlanTracked
<1>2. \A u \in Tasks : tpc'[u] = "out" <=> tpc[u] = "out"
  BY DEF Goto, IInv, TypeOK
<1> QED BY <1>1, <1>2 DEF IInv, PlanTracked, Local, Planned

LEMMA TaskStepKeeps ==
  ASSUME IInv, NEW t \in Tasks, TaskStep(t)
  PROVE  IInv'
<1> USE DEF IInv
<1>0. faulted' \in BOOLEAN
  BY FaultedType DEF Next
<1>1. CASE TakeTask(t)
  <2>0. rid \in RunIds
    BY <1>1, TaskHasRun DEF TakeTask
  <2>1. PICK o \in DbOutcomes :
          Goto(t, IF Raised(o) THEN "raised"
                  ELSE IF ~IsSucceeded(t) THEN "mark_pending"
                  ELSE IF t \in LeagueTasks THEN "load" ELSE "skipped")
    BY <1>1 DEF TakeTask
  <2>2. TypeOK'
    BY <1>0, <1>1, <2>1 DEF TypeOK, TakeTask, Goto, db, Local, TaskPoints, Running, Finished
  <2>3. SucceededLanded'
    BY <1>1 DEF SucceededLanded, TakeTask, db
  <2>4. TaskTruth'
    BY <1>1, <2>0, <2>1 DEF TypeOK, TaskTruth, TakeTask, Goto, db, Local, IsSucceeded
  <2>5. PlanTracked'
    BY <1>1, <2>1, MoveKeepsPlan
    DEF TypeOK, TakeTask, Goto, TaskPoints, Running, Finished
  <2> QED BY <2>2, <2>3, <2>4, <2>5
<1>2. CASE LoadLatestPayload(t)
  <2>1. TypeOK'
    BY <1>0, <1>2, NewestType
    DEF TypeOK, LoadLatestPayload, Reloaded, Goto, db, Local, TaskPoints, Finished
  <2>2. SucceededLanded'
    BY <1>2 DEF SucceededLanded, LoadLatestPayload, db
  <2>3. TaskTruth'
    BY <1>2 DEF TypeOK, TaskTruth, LoadLatestPayload, Goto, db, Local
  <2>4. PlanTracked'
    BY <1>2, MoveKeepsPlan
    DEF TypeOK, LoadLatestPayload, Goto, TaskPoints, Running, Finished
  <2> QED BY <2>1, <2>2, <2>3, <2>4
<1>3. CASE MarkPending(t)
  <2>0. rid \in RunIds /\ ck[rid][t] # "succeeded"
    BY <1>3, TaskHasRun DEF MarkPending, TaskTruth
  <2>1. PICK o \in DbOutcomes :
          Upsert(t, "pending", o) /\ Goto(t, IF Raised(o) THEN "raised" ELSE "fetch")
    BY <1>3 DEF MarkPending
  <2>2. /\ ck' \in [RunIds -> [Tasks -> CkStatus]]
        /\ \A q \in RunIds, u \in Tasks :
             ck'[q][u] = ck[q][u] \/ (q = rid /\ u = t /\ ck'[q][u] = "pending")
        /\ ~Raised(o) => ck'[rid][t] = "pending"
    BY <2>0, <2>1, UpsertEffect DEF Upsert, CkStatus, TypeOK, Raised, Committed
  <2>3. TypeOK'
    BY <1>0, <1>3, <2>1, <2>2 DEF TypeOK, MarkPending, Goto, Local, TaskPoints, Running
  <2>4. SucceededLanded'
    BY <1>3, <2>2 DEF SucceededLanded, MarkPending
  <2>5. TaskTruth'
    BY <1>3, <2>0, <2>1, <2>2 DEF TypeOK, TaskTruth, MarkPending, Goto, Local
  <2>6. PlanTracked'
    BY <1>3, <2>1, MoveKeepsPlan
    DEF TypeOK, MarkPending, Goto, TaskPoints, Running, Finished
  <2> QED BY <2>3, <2>4, <2>5, <2>6
<1>4. CASE Fetch(t)
  <2>0. rid \in RunIds
    BY <1>4, TaskHasRun DEF Fetch
  <2>1. /\ bronze' \in [Tasks -> Seq(SUBSET Fixtures)]
        /\ \A u \in Tasks : bronze[u] # <<>> => bronze'[u] # <<>>
        /\ tpc'[t] = "mark_succeeded" => bronze'[t] # <<>>
        /\ payload' \in [LeagueTasks -> SUBSET Fixtures]
        /\ \E there \in {"mark_failed", "mark_succeeded"} : Goto(t, there)
    <3>1. CASE HttpMayFail /\ Goto(t, "mark_failed") /\ UNCHANGED <<bronze, payload>>
      BY <3>1 DEF TypeOK, Goto
    <3>2. ASSUME NEW p \in Payloads(t), NEW o \in DbOutcomes,
                 bronze' = IF Committed(o) THEN WriteBronze(t, p) ELSE bronze,
                 Goto(t, AfterFetch(o)),
                 payload' = IF ~Raised(o) /\ t \in LeagueTasks
                            THEN [payload EXCEPT ![t] = p] ELSE payload
          PROVE  <2>1
      <4>1. p \in SUBSET Fixtures
        BY <3>2, PayloadsType
      <4>2. tpc'[t] = "mark_succeeded" => Committed(o)
        BY <3>2 DEF Goto, AfterFetch, Raised, Committed, TypeOK
      <4> QED BY <3>2, <4>1, <4>2, WriteBronzeEffect DEF TypeOK, AfterFetch
    <3> QED BY <1>4, <3>1, <3>2 DEF Fetch
  <2>2. TypeOK'
    BY <1>0, <1>4, <2>1 DEF TypeOK, Fetch, Goto, Local, TaskPoints, Running
  <2>3. SucceededLanded'
    BY <1>4, <2>1 DEF SucceededLanded, Fetch
  <2>4. TaskTruth'
    BY <1>4, <2>1 DEF TypeOK, TaskTruth, Fetch, Goto, Local
  <2>5. PlanTracked'
    BY <1>4, <2>1, MoveKeepsPlan
    DEF TypeOK, Fetch, Goto, TaskPoints, Running, Finished
  <2> QED BY <2>2, <2>3, <2>4, <2>5
<1>5. CASE MarkSucceeded(t)
  <2>0. rid \in RunIds /\ bronze[t] # <<>>
    BY <1>5, TaskHasRun DEF MarkSucceeded, TaskTruth
  <2>1. PICK o \in DbOutcomes :
          /\ Upsert(t, "succeeded", o)
          /\ Goto(t, IF Raised(o) THEN "mark_failed" ELSE "landed")
    BY <1>5 DEF MarkSucceeded
  <2>2. /\ ck' \in [RunIds -> [Tasks -> CkStatus]]
        /\ \A q \in RunIds, u \in Tasks :
             ck'[q][u] = ck[q][u] \/ (q = rid /\ u = t /\ ck'[q][u] = "succeeded")
        /\ ~Raised(o) => ck'[rid][t] = "succeeded"
    BY <2>0, <2>1, UpsertEffect DEF Upsert, CkStatus, TypeOK, Raised, Committed
  <2>3. TypeOK'
    BY <1>0, <1>5, <2>1, <2>2 DEF TypeOK, MarkSucceeded, Goto, Local, TaskPoints, Running, Finished
  <2>4. SucceededLanded'
    BY <1>5, <2>0, <2>2 DEF SucceededLanded, MarkSucceeded
  <2>5. TaskTruth'
    BY <1>5, <2>0, <2>1, <2>2 DEF TypeOK, TaskTruth, MarkSucceeded, Goto, Local
  <2>6. PlanTracked'
    BY <1>5, <2>1, MoveKeepsPlan
    DEF TypeOK, MarkSucceeded, Goto, TaskPoints, Running, Finished
  <2> QED BY <2>3, <2>4, <2>5, <2>6
<1>6. CASE MarkFailed(t)
  <2>0. rid \in RunIds
    BY <1>6, TaskHasRun DEF MarkFailed
  <2>1. PICK o \in DbOutcomes : Upsert(t, "failed", o) /\ Goto(t, AfterMarkFailed(o))
    BY <1>6 DEF MarkFailed
  <2>2. /\ ck' \in [RunIds -> [Tasks -> CkStatus]]
        /\ \A q \in RunIds, u \in Tasks :
             ck'[q][u] = ck[q][u] \/ (q = rid /\ u = t /\ ck'[q][u] = "failed")
        /\ ~Raised(o) => ck'[rid][t] = "failed"
    BY <2>0, <2>1, UpsertEffect DEF Upsert, CkStatus, TypeOK, Raised, Committed
  <2>3. TypeOK'
    BY <1>0, <1>6, <2>1, <2>2
    DEF TypeOK, MarkFailed, AfterMarkFailed, Goto, Local, TaskPoints, Running
  <2>4. SucceededLanded'
    BY <1>6, <2>2 DEF SucceededLanded, MarkFailed
  <2>5. TaskTruth'
    BY <1>6, <2>0, <2>1, <2>2
    DEF TypeOK, TaskTruth, MarkFailed, AfterMarkFailed, Goto, Local
  <2>6. PlanTracked'
    BY <1>6, <2>1, MoveKeepsPlan
    DEF TypeOK, MarkFailed, AfterMarkFailed, Goto, TaskPoints, Running, Finished
  <2> QED BY <2>3, <2>4, <2>5, <2>6
<1>7. CASE RecordFailure(t)
  <2>0. rid \in RunIds
    BY <1>7, TaskHasRun DEF RecordFailure
  <2>1. deadLetter' \subseteq deadLetter \cup {<<rid, t>>} /\ Goto(t, "failed")
    BY <1>7 DEF RecordFailure
  <2>2. TypeOK'
    BY <1>0, <1>7, <2>0, <2>1 DEF TypeOK, RecordFailure, Goto, Local, TaskPoints, Finished
  <2>3. SucceededLanded'
    BY <1>7 DEF SucceededLanded, RecordFailure
  <2>4. TaskTruth'
    BY <1>7, <2>1 DEF TypeOK, TaskTruth, RecordFailure, Goto, Local
  <2>5. PlanTracked'
    BY <1>7, <2>1, MoveKeepsPlan
    DEF TypeOK, RecordFailure, Goto, TaskPoints, Running, Finished
  <2> QED BY <2>2, <2>3, <2>4, <2>5
<1> QED BY <1>1, <1>2, <1>3, <1>4, <1>5, <1>6, <1>7 DEF TaskStep
LEMMA StepKeeps == IInv /\ [Next]_vars => IInv'
<1> SUFFICES ASSUME IInv, [Next]_vars PROVE IInv'
  OBVIOUS
<1>0. faulted' \in BOOLEAN
  BY FaultedType DEF IInv
<1>1. ASSUME NEW r \in RunIds, StartRun(r) PROVE IInv'
  <2>1. PICK o \in DbOutcomes :
          /\ runs' = IF Committed(o) THEN [runs EXCEPT ![r] = "running"] ELSE runs
          /\ IF Raised(o) THEN UNCHANGED <<pc, rid>> ELSE pc' = "leagues" /\ rid' = r
    BY <1>1 DEF StartRun
  <2>2. TypeOK'
    BY <1>0, <1>1, <2>1, RunnerAssumption
    DEF IInv, TypeOK, StartRun, Launch, plan, RunStatus, MainPoints
  <2>3. SucceededLanded' /\ TaskTruth' /\ PlanTracked'
    BY <1>1, <2>1
    DEF IInv, SucceededLanded, TaskTruth, PlanTracked, StartRun, Launch, plan, NoTasks
  <2> QED BY <2>2, <2>3 DEF IInv
<1>2. ASSUME NEW r \in RunIds, ResumeRun(r) PROVE IInv'
  <2>1. TypeOK'
    BY <1>0, <1>2, RunnerAssumption DEF IInv, TypeOK, ResumeRun, Launch, db, plan, MainPoints
  <2>2. SucceededLanded' /\ TaskTruth' /\ PlanTracked'
    BY <1>2
    DEF IInv, SucceededLanded, TaskTruth, PlanTracked, ResumeRun, Launch, db, plan, NoTasks
  <2> QED BY <2>1, <2>2 DEF IInv
<1>3. CASE Crash
  BY <1>0, <1>3, ExitKeeps DEF Crash, db, IInv, TypeOK
<1>4. CASE UNCHANGED vars
  BY <1>4 DEF vars, IInv, TypeOK, SucceededLanded, TaskTruth, PlanTracked, Planned
<1> QED BY <1>1, <1>2, <1>3, <1>4, MainStepKeeps, TaskStepKeeps DEF Next, AllDone

(* The inductive invariant holds in every reachable state. *)
THEOREM Invariance == Spec => []IInv
<1> QED BY InitEstablishes, StepKeeps, PTL DEF Spec

(* Every variable keeps its type, whatever fails and whenever it stops. *)
THEOREM TypeCorrect == Spec => []TypeOK
<1>1. IInv => TypeOK
  BY DEF IInv
<1> QED BY <1>1, Invariance, PTL

(* No checkpoint ever says 'succeeded' before the task's payload is in       *)
(* bronze: the order of write_bronze's commit and mark_succeeded survives    *)
(* every failure, crash, lost acknowledgement and resume.                    *)
THEOREM SucceededIsLanded == Spec => []SucceededLanded
<1>1. IInv => SucceededLanded
  BY DEF IInv
<1> QED BY <1>1, Invariance, PTL

(* The projection only ever replaces the matcher's table on behalf of a      *)
(* process all of whose planned tasks have landed.                           *)
THEOREM ProjectionIsBacked == Spec => SnapshotBacked
<1> DEFINE P == snapshot' # snapshot => \A t \in Planned : Backed(rid, t)
<1>1. IInv /\ [Next]_vars => [P]_vars
  <2> SUFFICES ASSUME IInv, Next, snapshot' # snapshot,
                      NEW t \in Planned
               PROVE  Backed(rid, t)
    OBVIOUS
  <2>1. ProjectEvents
    <3>1. ASSUME NEW r \in RunIds, StartRun(r) \/ ResumeRun(r) PROVE FALSE
      BY <3>1 DEF StartRun, ResumeRun, db
    <3>2. ASSUME NEW u \in Tasks, TaskStep(u) PROVE FALSE
      BY <3>2 DEF TaskStep, TakeTask, LoadLatestPayload, MarkPending, Fetch,
                  MarkSucceeded, MarkFailed, RecordFailure, db
    <3>3. CASE MainStep
      BY <3>3 DEF MainStep, FetchLeagues, DerivePhaseB, FinishRun, HandleCrash,
                  CancelQueued, AbortPhase, db
    <3> QED BY <3>1, <3>2, <3>3 DEF Next, Crash, AllDone, db, vars
  <2>2. pc = "project" /\ rid \in RunIds
    BY <2>1 DEF ProjectEvents, IInv, TypeOK
  <2>3. t \in Tasks
    BY DEF Planned, Tasks, LeagueTasks, FixtureTasks, IInv, TypeOK
  <2>4. tpc[t] \in {"landed", "skipped"}
    BY <2>2, <2>3 DEF IInv, PlanTracked
  <2> QED BY <2>2, <2>3, <2>4 DEF IInv, TaskTruth, SucceededLanded, Backed
<1> QED BY <1>1, Invariance, PTL DEF Spec, SnapshotBacked
(* A step of a task or of the rest of the main thread records no verdict.    *)
LEMMA WhoWritesRuns ==
  ASSUME Next, runs' # runs
  PROVE  FinishRun \/ HandleCrash \/ \E r \in RunIds : StartRun(r)
<1>1. ASSUME NEW t \in Tasks, TaskStep(t) PROVE FALSE
  BY <1>1 DEF TaskStep, TakeTask, LoadLatestPayload, MarkPending, Fetch,
              MarkSucceeded, MarkFailed, RecordFailure, db
<1>2. ASSUME MainStep, ~FinishRun, ~HandleCrash PROVE FALSE
  BY <1>2 DEF MainStep, FetchLeagues, DerivePhaseB, ProjectEvents,
              CancelQueued, AbortPhase, db
<1> QED BY <1>1, <1>2 DEF Next, ResumeRun, Crash, AllDone, db, vars

(* The verdict finish_run records is true of the checkpoints and of bronze:  *)
(* 'succeeded' means every planned task landed, 'partial' that one of them   *)
(* failed and that none was left half done.                                  *)
THEOREM VerdictIsHonest == Spec => VerdictHonest
<1> DEFINE P == \A r \in RunIds : runs'[r] # runs[r] =>
       /\ runs'[r] = "succeeded" => \A t \in Planned : Backed(r, t)
       /\ runs'[r] = "partial" =>
            /\ \E t \in Planned : ck[r][t] = "failed"
            /\ \A t \in Planned : ck[r][t] = "failed" \/ Backed(r, t)
<1>1. IInv /\ [Next]_vars => [P]_vars
  <2> SUFFICES ASSUME IInv, Next, NEW r \in RunIds, runs'[r] # runs[r]
               PROVE  /\ runs'[r] = "succeeded" => \A t \in Planned : Backed(r, t)
                      /\ runs'[r] = "partial" =>
                           /\ \E t \in Planned : ck[r][t] = "failed"
                           /\ \A t \in Planned : ck[r][t] = "failed" \/ Backed(r, t)
    OBVIOUS
  <2>1. ASSUME NEW q \in RunIds, StartRun(q) PROVE runs'[r] = "running"
    BY <2>1 DEF StartRun, IInv, TypeOK
  <2>2. CASE HandleCrash
    BY <2>2 DEF HandleCrash, Finish, IInv, TypeOK
  <2>3. CASE FinishRun
    <3>1. /\ rid = r /\ runs'[r] = TerminalStatus
          /\ pc = "phaseB" /\ Settled
      BY <2>3 DEF FinishRun, Finish, IInv, TypeOK
    <3>2. \A t \in Tasks : t \in Planned <=> tpc[t] \in Finished
      BY <3>1 DEF IInv, PlanTracked, Settled, Finished
    <3>3. Planned \subseteq Tasks
      BY DEF Planned, Tasks, LeagueTasks, FixtureTasks, IInv, TypeOK
    <3>4. \A t \in Planned : IF tpc[t] = "failed" THEN ck[r][t] = "failed"
                                                   ELSE Backed(r, t)
      BY <3>1, <3>2, <3>3 DEF IInv, TaskTruth, SucceededLanded, Backed, Finished
    <3>5. CASE TerminalStatus = "succeeded"
      BY <3>1, <3>3, <3>4, <3>5 DEF TerminalStatus
    <3>6. CASE TerminalStatus = "partial"
      <4>1. PICK t \in Tasks : tpc[t] = "failed"
        BY <3>6 DEF TerminalStatus
      <4> QED BY <3>1, <3>2, <3>4, <3>6, <4>1 DEF Finished
    <3> QED BY <3>5, <3>6 DEF TerminalStatus
  <2> QED BY <2>1, <2>2, <2>3, WhoWritesRuns
<1> QED BY <1>1, Invariance, PTL DEF Spec, VerdictHonest

(* What a run has checkpointed 'succeeded' is never put back to 'pending',   *)
(* nor fetched again on its behalf.                                          *)
THEOREM SucceededIsNotRedone == Spec => SucceededNotRedone
<1> DEFINE P == \A r \in RunIds, t \in Tasks : ck[r][t] = "succeeded" =>
       /\ ck'[r][t] # "pending"
       /\ rid = r => bronze'[t] = bronze[t]
<1>1. IInv /\ [Next]_vars => [P]_vars
  <2> SUFFICES ASSUME IInv, Next, NEW r \in RunIds, NEW t \in Tasks,
                      ck[r][t] = "succeeded"
               PROVE  ck'[r][t] # "pending" /\ (rid = r => bronze'[t] = bronze[t])
    OBVIOUS
  <2>1. CASE UNCHANGED <<ck, bronze>>
    BY <2>1
  <2>2. ASSUME NEW u \in Tasks, MarkPending(u)
        PROVE  ck'[r][t] # "pending" /\ bronze' = bronze
    <3>1. ck[rid][u] # "succeeded"
      BY <2>2 DEF MarkPending, IInv, TaskTruth
    <3> QED BY <2>2, <3>1 DEF MarkPending, Upsert, IInv, TypeOK
  <2>3. ASSUME NEW u \in Tasks, MarkSucceeded(u) \/ MarkFailed(u)
        PROVE  ck'[r][t] # "pending" /\ bronze' = bronze
    <3>1. PICK s \in {"succeeded", "failed"}, o \in DbOutcomes : Upsert(u, s, o)
      BY <2>3 DEF MarkSucceeded, MarkFailed
    <3>2. ck'[r][t] # "pending"
      BY <3>1 DEF Upsert, IInv, TypeOK
    <3> QED BY <2>3, <3>2 DEF MarkSucceeded, MarkFailed
  <2>4. ASSUME NEW u \in Tasks, Fetch(u)
        PROVE  ck' = ck /\ (rid = r => bronze'[t] = bronze[t])
    <3>1. ck[rid][u] = "pending"
      BY <2>4 DEF Fetch, IInv, TaskTruth
    <3>2. rid = r => u # t
      BY <3>1
    <3> QED BY <2>4, <3>2, WriteBronzeEffect, PayloadsType DEF Fetch, IInv
  <2>5. ASSUME NEW u \in Tasks, TaskStep(u),
               ~MarkPending(u), ~MarkSucceeded(u), ~MarkFailed(u), ~Fetch(u)
        PROVE  UNCHANGED <<ck, bronze>>
    BY <2>5 DEF TaskStep, TakeTask, LoadLatestPayload, RecordFailure, db
  <2>6. CASE MainStep
    BY <2>6 DEF MainStep, FetchLeagues, DerivePhaseB, FinishRun, ProjectEvents,
                HandleCrash, CancelQueued, AbortPhase, db
  <2>7. ASSUME NEW q \in RunIds, StartRun(q) \/ ResumeRun(q)
        PROVE  UNCHANGED <<ck, bronze>>
    BY <2>7 DEF StartRun, ResumeRun, db
  <2>8. CASE Crash \/ AllDone
    BY <2>8 DEF Crash, AllDone, db, vars
  <2> QED BY <2>1, <2>2, <2>3, <2>4, <2>5, <2>6, <2>7, <2>8 DEF Next
<1> QED BY <1>1, Invariance, PTL DEF Spec, SucceededNotRedone
=============================================================================
