------------------------- MODULE RunnerLedgerProofs -------------------------
(***************************************************************************)
(* Proofs that Runner implements RunLedger, and on each task's bronze rows *)
(* the BronzeLog that write_bronze implements; that failures of the API    *)
(* stay with their tasks; that Phase B is derived from the newest          *)
(* catalogues; that a process is never stuck and only goes forward; and    *)
(* where what the documents say of a run is true: for any catalogue,       *)
(* number of workers, number of processes and mixture of faults.           *)
(***************************************************************************)
EXTENDS RunnerProofs, RunnerClaims, FiniteSetTheorems

(* The tables, as the ledger sees them. *)
Stored == {t \in Tasks : bronze[t] # <<>>}
Tables == <<runs, ck, Stored, deadLetter>>

LEMMA InitLedger == Init => Ledger!Init
<1> SUFFICES ASSUME Init PROVE Ledger!Init
  OBVIOUS
<1>1. {t \in Tasks : bronze[t] # <<>>} = {}
  BY DEF Init
<1> QED BY <1>1 DEF Init, Ledger!Init

(* An upsert that commits marks one task of the current run.                 *)
LEMMA UpsertMarks ==
  ASSUME NEW t, NEW s, NEW o, Upsert(t, s, o), UNCHANGED <<runs, bronze, deadLetter>>
  PROVE  Ledger!Mark(rid, t, s) \/ UNCHANGED Tables
BY DEF Upsert, Ledger!Mark, Tables, Stored

LEMMA TaskStepLedger ==
  ASSUME IInv, NEW t \in Tasks, TaskStep(t)
  PROVE  Ledger!Next \/ UNCHANGED Tables
<1>0. tpc[t] # "out"
  BY DEF TaskStep, TakeTask, LoadLatestPayload, MarkPending, Fetch, MarkSucceeded,
         MarkFailed, RecordFailure
<1>1. rid \in RunIds
  BY <1>0, TaskHasRun
<1>2. CASE TakeTask(t) \/ LoadLatestPayload(t)
  BY <1>2 DEF TakeTask, LoadLatestPayload, db, Tables, Stored
<1>3. CASE MarkPending(t)
  <2>1. ck[rid][t] # "succeeded"
    BY <1>3 DEF IInv, TaskTruth, MarkPending
  <2>2. Ledger!Mark(rid, t, "pending") \/ UNCHANGED Tables
    BY <1>3, UpsertMarks DEF MarkPending
  <2>3. Ledger!Mark(rid, t, "pending") => Ledger!Attempt(rid, t)
    BY <2>1 DEF Ledger!Attempt
  <2> QED BY <1>1, <2>2, <2>3 DEF Ledger!Next
<1>4. CASE Fetch(t)
  <2>1. ck[rid][t] = "pending" /\ UNCHANGED <<runs, ck, deadLetter>>
    BY <1>4 DEF IInv, TaskTruth, Fetch
  <2>2. bronze' = bronze \/ \E p \in SUBSET Fixtures : bronze' = WriteBronze(t, p)
    BY <1>4, PayloadsType DEF Fetch
  <2>3. CASE bronze' = bronze
    BY <2>1, <2>3 DEF Tables, Stored
  <2>4. CASE \E p \in SUBSET Fixtures : bronze' = WriteBronze(t, p)
    <3>1. bronze'[t] # <<>> /\ \A u \in Tasks : u # t => bronze'[u] = bronze[u]
      BY <2>4, WriteBronzeEffect DEF IInv
    <3>2. Stored' = Stored \cup {t}
      BY <3>1 DEF Stored
    <3>3. Ledger!Store(rid, t)
      BY <2>1, <3>2 DEF Ledger!Store, Stored
    <3> QED BY <1>1, <3>3 DEF Ledger!Next
  <2> QED BY <2>2, <2>3, <2>4
<1>5. CASE MarkSucceeded(t)
  <2>1. ck[rid][t] = "pending" /\ bronze[t] # <<>>
    BY <1>5 DEF IInv, TaskTruth, MarkSucceeded
  <2>2. Ledger!Mark(rid, t, "succeeded") \/ UNCHANGED Tables
    BY <1>5, UpsertMarks DEF MarkSucceeded
  <2>3. Ledger!Mark(rid, t, "succeeded") => Ledger!Succeed(rid, t)
    BY <2>1 DEF Ledger!Succeed
  <2> QED BY <1>1, <2>2, <2>3 DEF Ledger!Next
<1>6. CASE MarkFailed(t)
  <2>1. ck[rid][t] \in {"pending", "succeeded"}
    BY <1>6 DEF IInv, TaskTruth, MarkFailed
  <2>2. Ledger!Mark(rid, t, "failed") \/ UNCHANGED Tables
    BY <1>6, UpsertMarks DEF MarkFailed
  <2>3. Ledger!Mark(rid, t, "failed") => Ledger!Fail(rid, t)
    BY <2>1 DEF Ledger!Fail
  <2> QED BY <1>1, <2>2, <2>3 DEF Ledger!Next
<1>7. CASE RecordFailure(t)
  <2>1. ck[rid][t] = "failed" /\ UNCHANGED <<runs, ck, Stored>>
    BY <1>7 DEF IInv, TaskTruth, RecordFailure, Stored
  <2>2. deadLetter' = deadLetter \cup {<<rid, t>>} \/ deadLetter' = deadLetter
    BY <1>7 DEF RecordFailure
  <2>3. CASE deadLetter' = deadLetter \cup {<<rid, t>>}
    <3>1. Ledger!Bury(rid, t)
      BY <2>1, <2>3 DEF Ledger!Bury, Stored
    <3> QED BY <1>1, <3>1 DEF Ledger!Next
  <2>4. CASE deadLetter' = deadLetter
    BY <2>1, <2>4 DEF Tables
  <2> QED BY <2>2, <2>3, <2>4
<1> QED BY <1>2, <1>3, <1>4, <1>5, <1>6, <1>7 DEF TaskStep

(* finish_run settles the current run.                                       *)
LEMMA FinishSettles ==
  ASSUME NEW s, NEW o, Finish(o, s), UNCHANGED <<ck, bronze, deadLetter>>,
         s = "partial" => \E t \in Tasks : ck[rid][t] = "failed"
  PROVE  Ledger!Settle(rid, s) \/ UNCHANGED Tables
BY DEF Finish, Ledger!Settle, Tables, Stored

LEMMA MainStepLedger ==
  ASSUME IInv, MainStep
  PROVE  Ledger!Next \/ UNCHANGED Tables
<1>1. CASE FinishRun
  <2>1. rid \in RunIds
    BY <1>1 DEF FinishRun, IInv, TypeOK
  <2>2. TerminalStatus \in {"succeeded", "partial"}
    BY DEF TerminalStatus
  <2>3. TerminalStatus = "partial" => \E t \in Tasks : ck[rid][t] = "failed"
    BY DEF TerminalStatus, IInv, TaskTruth
  <2>4. Ledger!Settle(rid, TerminalStatus) \/ UNCHANGED Tables
    BY <1>1, <2>3, FinishSettles DEF FinishRun
  <2> QED BY <2>1, <2>2, <2>4 DEF Ledger!Next
<1>2. CASE HandleCrash
  <2>1. rid \in RunIds
    BY <1>2 DEF HandleCrash, IInv, TypeOK
  <2>2. Ledger!Settle(rid, "failed") \/ UNCHANGED Tables
    BY <1>2, FinishSettles DEF HandleCrash
  <2> QED BY <2>1, <2>2 DEF Ledger!Next
<1>3. CASE FetchLeagues \/ DerivePhaseB \/ ProjectEvents \/ CancelQueued \/ AbortPhase
  BY <1>3 DEF FetchLeagues, DerivePhaseB, ProjectEvents, CancelQueued, AbortPhase,
              db, Tables, Stored
<1> QED BY <1>1, <1>2, <1>3 DEF MainStep

LEMMA StepLedger == IInv /\ [Next]_vars => [Ledger!Next]_Tables
<1> SUFFICES ASSUME IInv, [Next]_vars PROVE Ledger!Next \/ UNCHANGED Tables
  OBVIOUS
<1>1. ASSUME NEW r \in RunIds, StartRun(r) PROVE Ledger!Open(r) \/ UNCHANGED Tables
  BY <1>1 DEF StartRun, Ledger!Open, Tables, Stored
<1>2. ASSUME NEW r \in RunIds, ResumeRun(r) PROVE UNCHANGED Tables
  BY <1>2 DEF ResumeRun, db, Tables, Stored
<1>3. CASE Crash \/ AllDone \/ UNCHANGED vars
  BY <1>3 DEF Crash, AllDone, vars, db, Tables, Stored
<1>4. (\E r \in RunIds : Ledger!Open(r)) => Ledger!Next
  BY DEF Ledger!Next
<1> QED BY <1>1, <1>2, <1>3, <1>4, MainStepLedger, TaskStepLedger DEF Next

(* Whatever interleaves, fails, dies or is resumed, what Runner's transactions *)
(* make of the tables is a behaviour of RunLedger.                             *)
THEOREM LedgerImplemented == Spec => ImplementsLedger
<1>1. IInv /\ [Next]_vars => [Ledger!Next]_(Ledger!vars)
  BY StepLedger DEF Tables, Stored, Ledger!vars
<1> QED BY <1>1, InitLedger, Invariance, PTL DEF Spec, ImplementsLedger, Ledger!Spec
-----------------------------------------------------------------------------
(* Until a fault, nothing has been thrown out of a task, a crash can only    *)
(* come from the /leagues call, and every failure on record is dead-lettered *)
(* or about to be.                                                           *)
Recorded(r, t) == <<r, t>> \in deadLetter \/ (r = rid /\ tpc[t] = "dead_letter")

Contained ==
  ~faulted =>
    /\ \A t \in Tasks : tpc[t] \notin {"raised", "cancelled"}
    /\ pc = "crashed" => tpc = NoTasks
    /\ \A t \in Tasks, r \in RunIds : ck[r][t] = "failed" => Recorded(r, t)

(* A transaction leaves the run unfaulted only if it committed and said so.  *)
LEMMA NotedOk ==
  ASSUME NEW o, Note(o), ~faulted', faulted \in BOOLEAN
  PROVE  o = "ok" /\ Committed(o) /\ ~Raised(o) /\ ~faulted
BY DEF Note, Raised, Committed

(* With no task under way, a step that leaves the tables of failures alone   *)
(* keeps what is on record.                                                  *)
LEMMA QuietKeeps ==
  ASSUME Contained, ~faulted, ~faulted', UNCHANGED <<ck, deadLetter>>,
         \A t \in Tasks : tpc[t] # "dead_letter",
         \A t \in Tasks : tpc'[t] \notin {"raised", "cancelled"},
         pc' = "crashed" => tpc' = NoTasks
  PROVE  Contained'
BY DEF Contained, Recorded

LEMMA ContainedExit ==
  ASSUME Contained, ~faulted, ~faulted', Exit, UNCHANGED <<ck, deadLetter>>,
         \A t \in Tasks : tpc[t] # "dead_letter"
  PROVE  Contained'
BY QuietKeeps DEF Exit, NoTasks

LEMMA ContainedMain ==
  ASSUME IInv, Contained, MainStep
  PROVE  Contained'
<1> SUFFICES ASSUME ~faulted' PROVE Contained'
  BY DEF Contained
<1>0. faulted \in BOOLEAN /\ ~faulted
  BY FaultsStay DEF IInv, TypeOK, Next
<1>1. CASE FetchLeagues
  <2>1. tpc = NoTasks /\ UNCHANGED <<ck, deadLetter>>
    BY <1>1 DEF FetchLeagues, IInv, PlanTracked, db
  <2>2. \A t \in Tasks : tpc'[t] \in {"queued", "out"}
    BY <1>1, <2>1 DEF FetchLeagues, NoTasks
  <2>3. pc' = "crashed" => tpc' = NoTasks
    BY <1>1, <2>1 DEF FetchLeagues
  <2> QED BY <1>0, <2>1, <2>2, <2>3, QuietKeeps DEF NoTasks
<1>2. CASE DerivePhaseB
  <2>1. \A t \in Tasks : tpc[t] \in Finished \cup {"out"}
    BY <1>2 DEF DerivePhaseB, Settled
  <2>2. \A t \in Tasks : tpc'[t] \in Finished \cup {"out", "queued"}
    BY <1>2, <2>1 DEF DerivePhaseB
  <2>3. pc' = "phaseB" /\ UNCHANGED <<ck, deadLetter>>
    BY <1>2 DEF DerivePhaseB, db
  <2> QED BY <1>0, <2>1, <2>2, <2>3, QuietKeeps DEF Finished
<1>3. CASE FinishRun
  <2>1. PICK o \in DbOutcomes :
          /\ Note(o)
          /\ \/ Raised(o)
             \/ pc' = "project" /\ UNCHANGED <<attempts, rid, plan, tpc, payload>>
             \/ Exit
    BY <1>3 DEF FinishRun
  <2>2. ~Raised(o)
    BY <1>0, <2>1, NotedOk
  <2>3. /\ \A t \in Tasks : tpc[t] \in Finished \cup {"out"}
        /\ UNCHANGED <<ck, deadLetter>>
    BY <1>3 DEF FinishRun, Settled
  <2>4. CASE Exit
    BY <1>0, <2>3, <2>4, ContainedExit DEF Finished
  <2>5. CASE pc' = "project" /\ tpc' = tpc
    BY <1>0, <2>3, <2>5, QuietKeeps DEF Finished
  <2> QED BY <2>1, <2>2, <2>4, <2>5
<1>4. CASE ProjectEvents
  <2>1. PICK o \in DbOutcomes : Note(o) /\ (Raised(o) \/ Exit)
    BY <1>4 DEF ProjectEvents
  <2>2. Exit
    BY <1>0, <2>1, NotedOk
  <2>3. /\ \A t \in Tasks : tpc[t] \in {"landed", "skipped", "out"}
        /\ UNCHANGED <<ck, deadLetter>>
    BY <1>4 DEF ProjectEvents, IInv, PlanTracked
  <2> QED BY <1>0, <2>2, <2>3, ContainedExit
<1>5. CASE HandleCrash
  <2>1. tpc = NoTasks /\ Exit /\ UNCHANGED <<ck, deadLetter>>
    BY <1>0, <1>5 DEF HandleCrash, Contained
  <2> QED BY <1>0, <2>1, ContainedExit DEF NoTasks
<1>6. CASE CancelQueued \/ AbortPhase
  BY <1>0, <1>6 DEF CancelQueued, AbortPhase, SomeRaised, Contained
<1> QED BY <1>1, <1>2, <1>3, <1>4, <1>5, <1>6 DEF MainStep

(* A task's step that records no failure of its own, and takes none off.     *)
LEMMA ContainedMove ==
  ASSUME IInv, Contained, ~faulted, NEW t \in Tasks, NEW there,
         Goto(t, there), there \notin {"raised", "cancelled"},
         tpc[t] \notin {"dead_letter", "out"}, UNCHANGED <<pc, rid, deadLetter>>,
         \A r \in RunIds, u \in Tasks : ck'[r][u] = "failed" =>
           ck[r][u] = "failed" \/ (r = rid /\ u = t /\ there = "dead_letter")
  PROVE  Contained'
<1>1. \A u \in Tasks : tpc'[u] = IF u = t THEN there ELSE tpc[u]
  BY DEF Goto, IInv, TypeOK
<1>2. \A u \in Tasks : tpc'[u] \notin {"raised", "cancelled"}
  BY <1>1 DEF Contained
<1>3. pc # "crashed"
  BY DEF Contained, NoTasks
<1>4. \A r \in RunIds, u \in Tasks : ck[r][u] = "failed" => Recorded(r, u)'
  BY <1>1 DEF Contained, Recorded
<1>5. \A r \in RunIds, u \in Tasks : ck'[r][u] = "failed" => Recorded(r, u)'
  BY <1>1, <1>4 DEF Recorded
<1> QED BY <1>2, <1>3, <1>5 DEF Contained

LEMMA ContainedTask ==
  ASSUME IInv, Contained, NEW t \in Tasks, TaskStep(t)
  PROVE  Contained'
<1> SUFFICES ASSUME ~faulted' PROVE Contained'
  BY DEF Contained
<1>0. faulted \in BOOLEAN /\ ~faulted
  BY FaultsStay DEF IInv, TypeOK, Next
<1>00. tpc[t] # "out"
  BY DEF TaskStep, TakeTask, LoadLatestPayload, MarkPending, Fetch, MarkSucceeded,
         MarkFailed, RecordFailure
<1>01. rid \in RunIds
  BY <1>00, TaskHasRun
<1>1. CASE TakeTask(t)
  <2>1. \E there \in {"mark_pending", "load", "skipped"} : Goto(t, there)
    BY <1>0, <1>1, NotedOk DEF TakeTask
  <2>2. tpc[t] = "queued" /\ UNCHANGED <<pc, rid, ck, deadLetter>>
    BY <1>1 DEF TakeTask, db, Local
  <2> QED BY <1>0, <2>1, <2>2, ContainedMove
<1>2. CASE LoadLatestPayload(t)
  <2>1. Goto(t, "skipped")
    BY <1>0, <1>2, NotedOk DEF LoadLatestPayload
  <2>2. tpc[t] = "load" /\ UNCHANGED <<pc, rid, ck, deadLetter>>
    BY <1>2 DEF LoadLatestPayload, db, Local
  <2> QED BY <1>0, <2>1, <2>2, ContainedMove
<1>3. CASE MarkPending(t)
  <2>1. Goto(t, "fetch") /\ ck' = [ck EXCEPT ![rid][t] = "pending"]
    BY <1>0, <1>3, NotedOk DEF MarkPending, Upsert
  <2>2. \A r \in RunIds, u \in Tasks : ck'[r][u] = "failed" => ck[r][u] = "failed"
    BY <1>01, <2>1, UpsertEffect DEF IInv, CkStatus
  <2>3. tpc[t] = "mark_pending" /\ UNCHANGED <<pc, rid, deadLetter>>
    BY <1>3 DEF MarkPending, Local
  <2> QED BY <1>0, <2>1, <2>2, <2>3, ContainedMove
<1>4. CASE Fetch(t)
  <2>1. \E there \in {"mark_failed", "mark_succeeded"} : Goto(t, there)
    BY <1>4 DEF Fetch, AfterFetch
  <2>2. tpc[t] = "fetch" /\ UNCHANGED <<pc, rid, ck, deadLetter>>
    BY <1>4 DEF Fetch, Local
  <2> QED BY <1>0, <2>1, <2>2, ContainedMove
<1>5. CASE MarkSucceeded(t)
  <2>1. Goto(t, "landed") /\ ck' = [ck EXCEPT ![rid][t] = "succeeded"]
    BY <1>0, <1>5, NotedOk DEF MarkSucceeded, Upsert
  <2>2. \A r \in RunIds, u \in Tasks : ck'[r][u] = "failed" => ck[r][u] = "failed"
    BY <1>01, <2>1, UpsertEffect DEF IInv, CkStatus
  <2>3. tpc[t] = "mark_succeeded" /\ UNCHANGED <<pc, rid, deadLetter>>
    BY <1>5 DEF MarkSucceeded, Local
  <2> QED BY <1>0, <2>1, <2>2, <2>3, ContainedMove
<1>6. CASE MarkFailed(t)
  <2>1. Goto(t, "dead_letter") /\ ck' = [ck EXCEPT ![rid][t] = "failed"]
    BY <1>0, <1>6, NotedOk DEF MarkFailed, Upsert, AfterMarkFailed
  <2>2. \A r \in RunIds, u \in Tasks : ck'[r][u] = "failed" =>
          ck[r][u] = "failed" \/ (r = rid /\ u = t)
    BY <1>01, <2>1, UpsertEffect DEF IInv, CkStatus
  <2>3. tpc[t] = "mark_failed" /\ UNCHANGED <<pc, rid, deadLetter>>
    BY <1>6 DEF MarkFailed, Local
  <2> QED BY <1>0, <2>1, <2>2, <2>3, ContainedMove
<1>7. CASE RecordFailure(t)
  <2>1. /\ tpc[t] = "dead_letter" /\ Goto(t, "failed")
        /\ deadLetter' = deadLetter \cup {<<rid, t>>} /\ UNCHANGED <<pc, rid, ck>>
    BY <1>0, <1>7, NotedOk DEF RecordFailure, Local
  <2>2. \A u \in Tasks : tpc'[u] = IF u = t THEN "failed" ELSE tpc[u]
    BY <2>1 DEF Goto, IInv, TypeOK
  <2>3. pc # "crashed"
    BY <1>0, <2>1 DEF Contained, NoTasks
  <2>4. \A u \in Tasks, r \in RunIds : Recorded(r, u) => Recorded(r, u)'
    BY <2>1, <2>2 DEF Recorded
  <2> QED BY <1>0, <2>1, <2>2, <2>3, <2>4 DEF Contained
<1> QED BY <1>1, <1>2, <1>3, <1>4, <1>5, <1>6, <1>7 DEF TaskStep

LEMMA ContainedStep == IInv /\ Contained /\ [Next]_vars => Contained'
<1> SUFFICES ASSUME IInv, Contained, [Next]_vars PROVE Contained'
  OBVIOUS
<1>1. ASSUME NEW r \in RunIds, StartRun(r) \/ ResumeRun(r) PROVE Contained'
  <2> SUFFICES ASSUME ~faulted' PROVE Contained'
    BY DEF Contained
  <2>1. ~faulted /\ tpc = NoTasks
    BY <1>1, FaultsStay DEF StartRun, ResumeRun, Launch, IInv, TypeOK, PlanTracked
  <2>2. UNCHANGED <<ck, deadLetter, tpc>>
    BY <1>1 DEF StartRun, ResumeRun, db
  <2> QED BY <2>1, <2>2, QuietKeeps DEF NoTasks
<1>2. CASE Crash
  BY <1>2 DEF Crash, Contained
<1>3. CASE AllDone \/ UNCHANGED vars
  BY <1>3 DEF AllDone, vars, Contained, Recorded
<1> QED BY <1>1, <1>2, <1>3, ContainedMain, ContainedTask DEF Next

(* As long as no call on Postgres has failed and nothing was killed, failures *)
(* of the API are isolated, recorded as such, and dead-lettered.              *)
THEOREM FailuresAreIsolated == Spec => []FailureIsolated
<1>1. Init => Contained
  BY DEF Init, Contained, NoTasks
<1>2. IInv /\ Contained => FailureIsolated
  BY DEF IInv, TaskTruth, Contained, Recorded, FailureIsolated
<1> QED BY <1>1, <1>2, ContainedStep, Invariance, PTL DEF Spec
-----------------------------------------------------------------------------
(* What a league's task carries to Phase B is its newest catalogue; and once *)
(* Phase A is over it stays so, the work list being derived from it.         *)
Done(t) == tpc[t] \in {"landed", "skipped"}

Newest(t) == bronze[t][Len(bronze[t])]

Listed == UNION {payload[t] : t \in {u \in LeagueTasks : Done(u)}}

Carries ==
  \A t \in LeagueTasks :
    Done(t) \/ tpc[t] = "mark_succeeded" => bronze[t] # <<>> /\ payload[t] = Newest(t)

Derived ==
  pc \in {"phaseB", "project"} =>
    /\ \A t \in LeagueTasks : tpc[t] \in Finished \cup {"out"}
    /\ fixtureIds = Listed \cap window

LEMMA LeagueTasksAreTasks == LeagueTasks \subseteq Tasks
BY DEF Tasks

(* write_bronze leaves the payload it was given as the newest.               *)
LEMMA WrittenIsNewest ==
  ASSUME TypeOK, NEW t \in Tasks, NEW p \in SUBSET Fixtures
  PROVE  LET new == WriteBronze(t, p) IN new[t] # <<>> /\ new[t][Len(new[t])] = p
<1>1. bronze \in [Tasks -> Seq(SUBSET Fixtures)]
  BY DEF TypeOK
<1>2. bronze[t] \in Seq(SUBSET Fixtures)
  BY <1>1
<1>3. LET s == Append(bronze[t], p) IN s # <<>> /\ s[Len(s)] = p
  BY <1>2
<1>4. CASE bronze[t] # <<>> /\ bronze[t][Len(bronze[t])] = p
  BY <1>4 DEF WriteBronze
<1>5. CASE ~(bronze[t] # <<>> /\ bronze[t][Len(bronze[t])] = p)
  BY <1>1, <1>3, <1>5 DEF WriteBronze
<1> QED BY <1>4, <1>5

LEMMA CarriesTask ==
  ASSUME IInv, Carries, NEW t \in Tasks, TaskStep(t)
  PROVE  Carries'
<1>0. LeagueTasks \subseteq Tasks
  BY LeagueTasksAreTasks
<1>1. CASE TakeTask(t)
  <2>1. tpc' = [tpc EXCEPT ![t] = tpc'[t]] /\ UNCHANGED <<bronze, payload>>
    BY <1>1 DEF TakeTask, Goto, db, IInv, TypeOK
  <2>2. t \in LeagueTasks => tpc'[t] \in {"raised", "mark_pending", "load"}
    BY <1>1 DEF TakeTask, Goto, IInv, TypeOK
  <2> QED BY <1>0, <2>1, <2>2 DEF Carries, Done, Newest, IInv, TypeOK
<1>2. CASE LoadLatestPayload(t)
  <2>1. /\ UNCHANGED bronze
        /\ \/ Goto(t, "raised") /\ UNCHANGED payload
           \/ Goto(t, "skipped") /\ payload' = Reloaded(t)
    BY <1>2 DEF LoadLatestPayload, db
  <2>2. bronze[t] # <<>>
    <3>1. rid \in RunIds /\ ck[rid][t] = "succeeded"
      BY <1>2, TaskHasRun DEF LoadLatestPayload, IInv, TaskTruth
    <3> QED BY <3>1 DEF IInv, SucceededLanded
  <2>3. CASE Goto(t, "raised") /\ UNCHANGED payload
    BY <1>0, <2>1, <2>3 DEF Goto, Carries, Done, Newest, IInv, TypeOK
  <2>4. CASE Goto(t, "skipped") /\ payload' = [payload EXCEPT ![t] = Newest(t)]
    BY <1>0, <2>1, <2>2, <2>4 DEF Goto, Carries, Done, Newest, IInv, TypeOK
  <2> QED BY <2>1, <2>2, <2>3, <2>4 DEF Reloaded, Newest
<1>3. CASE MarkPending(t) \/ MarkFailed(t) \/ RecordFailure(t)
  <2>1. /\ UNCHANGED <<bronze, payload>>
        /\ \E there \in {"raised", "fetch", "dead_letter", "failed"} : Goto(t, there)
    BY <1>3 DEF MarkPending, MarkFailed, AfterMarkFailed, RecordFailure
  <2> QED BY <1>0, <2>1 DEF Goto, Carries, Done, Newest, IInv, TypeOK
<1>4. CASE MarkSucceeded(t)
  <2>1. /\ UNCHANGED <<bronze, payload>> /\ tpc[t] = "mark_succeeded"
        /\ \E there \in {"mark_failed", "landed"} : Goto(t, there)
    BY <1>4 DEF MarkSucceeded
  <2> QED BY <1>0, <2>1 DEF Goto, Carries, Done, Newest, IInv, TypeOK
<1>5. CASE Fetch(t)
  <2>1. \A u \in Tasks : u # t =>
          tpc'[u] = tpc[u] /\ bronze'[u] = bronze[u]
          /\ (u \in LeagueTasks => payload'[u] = payload[u])
    <3>1. bronze' = bronze \/ \E p \in SUBSET Fixtures : bronze' = WriteBronze(t, p)
      BY <1>5, PayloadsType DEF Fetch
    <3>2. \A u \in Tasks : u # t => bronze'[u] = bronze[u]
      BY <3>1, WriteBronzeEffect DEF IInv
    <3>3. \A u \in Tasks : u # t => tpc'[u] = tpc[u]
      BY <1>5 DEF Fetch, Goto, IInv, TypeOK
    <3>4. \A u \in LeagueTasks : u # t => payload'[u] = payload[u]
      BY <1>5 DEF Fetch, IInv, TypeOK
    <3> QED BY <3>2, <3>3, <3>4
  <2>2. ASSUME t \in LeagueTasks
        PROVE  \/ tpc'[t] = "mark_failed"
               \/ bronze'[t] # <<>> /\ payload'[t] = bronze'[t][Len(bronze'[t])]
    <3>1. CASE Goto(t, "mark_failed")
      BY <3>1 DEF Goto, IInv, TypeOK
    <3>2. ASSUME NEW p \in Payloads(t), NEW o \in DbOutcomes, ~Raised(o),
                 bronze' = IF Committed(o) THEN WriteBronze(t, p) ELSE bronze,
                 payload' = IF ~Raised(o) /\ t \in LeagueTasks
                            THEN [payload EXCEPT ![t] = p] ELSE payload
          PROVE  bronze'[t] # <<>> /\ payload'[t] = bronze'[t][Len(bronze'[t])]
      <4>1. p \in SUBSET Fixtures
        BY PayloadsType
      <4>2. bronze' = WriteBronze(t, p) /\ payload'[t] = p
        BY <2>2, <3>2 DEF Raised, Committed, IInv, TypeOK
      <4> QED BY <4>1, <4>2, WrittenIsNewest DEF IInv
    <3> QED BY <1>5, <3>1, <3>2 DEF Fetch, AfterFetch
  <2>3. Done(t)' \/ tpc'[t] = "mark_succeeded" => tpc'[t] # "mark_failed"
    BY DEF Done
  <2> QED BY <1>0, <2>1, <2>2, <2>3 DEF Carries, Done, Newest
<1> QED BY <1>1, <1>2, <1>3, <1>4, <1>5 DEF TaskStep

(* Phase A's tasks do not move in Phase B.                                   *)
LEMMA DerivedTask ==
  ASSUME IInv, Derived, NEW t \in Tasks, TaskStep(t)
  PROVE  Derived'
<1>0. LeagueTasks \subseteq Tasks
  BY LeagueTasksAreTasks
<1>1. UNCHANGED <<pc, window, fixtureIds>>
  BY DEF TaskStep, TakeTask, LoadLatestPayload, MarkPending, Fetch, MarkSucceeded,
         MarkFailed, RecordFailure, Local
<1>2. tpc[t] \notin Finished \cup {"out"}
  BY DEF TaskStep, TakeTask, LoadLatestPayload, MarkPending, Fetch, MarkSucceeded,
         MarkFailed, RecordFailure, Finished
<1>3. \A u \in Tasks : u # t => tpc'[u] = tpc[u]
  BY DEF TaskStep, TakeTask, LoadLatestPayload, MarkPending, Fetch, MarkSucceeded,
         MarkFailed, RecordFailure, Goto, IInv, TypeOK
<1>4. \A u \in LeagueTasks : u # t => payload'[u] = payload[u]
  BY DEF TaskStep, TakeTask, LoadLatestPayload, Reloaded, MarkPending, Fetch,
         MarkSucceeded, MarkFailed, RecordFailure, IInv, TypeOK
<1>5. CASE pc \in {"phaseB", "project"}
  <2>1. \A u \in LeagueTasks : tpc'[u] = tpc[u] /\ payload'[u] = payload[u]
    BY <1>0, <1>2, <1>3, <1>4, <1>5 DEF Derived
  <2>2. Listed' = Listed
    BY <2>1 DEF Listed, Done
  <2> QED BY <1>1, <1>5, <2>1, <2>2 DEF Derived
<1> QED BY <1>1, <1>5 DEF Derived

LEMMA CatalogueMain ==
  ASSUME IInv, Carries, Derived, MainStep
  PROVE  Carries' /\ Derived'
<1>0. LeagueTasks \subseteq Tasks
  BY LeagueTasksAreTasks
<1>1. CASE FetchLeagues
  <2>1. \A t \in LeagueTasks : tpc'[t] \in {"queued", "out"}
    BY <1>0, <1>1 DEF FetchLeagues, IInv, PlanTracked, NoTasks
  <2>2. pc' \notin {"phaseB", "project"}
    BY <1>1 DEF FetchLeagues
  <2> QED BY <2>1, <2>2 DEF Carries, Derived, Done
<1>2. CASE DerivePhaseB
  <2>1. /\ \A t \in Tasks : tpc[t] \in Finished \cup {"out"}
        /\ UNCHANGED <<bronze, payload>>
        /\ fixtureIds' = Listed \cap window'
    BY <1>2 DEF DerivePhaseB, Settled, db, Listed, Done
  <2>2. \A t \in LeagueTasks : tpc'[t] = tpc[t]
    BY <1>0, <1>2, ScopesDiffer DEF DerivePhaseB
  <2>3. Listed' = Listed
    BY <2>1, <2>2 DEF Listed, Done
  <2> QED BY <1>0, <2>1, <2>2, <2>3 DEF Carries, Derived, Done, Newest
<1>3. CASE FinishRun \/ ProjectEvents \/ HandleCrash
  <2>1. CASE Exit /\ UNCHANGED bronze
    BY <1>0, <2>1 DEF Exit, NoTasks, Carries, Derived, Done
  <2>2. ASSUME UNCHANGED <<bronze, window, fixtureIds, tpc, payload>>,
               pc' = "crashed" \/ (pc = "phaseB" /\ pc' = "project")
        PROVE  Carries' /\ Derived'
    <3>1. Carries'
      BY <2>2 DEF Carries, Done, Newest
    <3>2. Derived'
      BY <2>2 DEF Derived, Listed, Done, plan
    <3> QED BY <3>1, <3>2
  <2>3. CASE FinishRun
    <3>1. pc = "phaseB" /\ UNCHANGED bronze
      BY <2>3 DEF FinishRun
    <3>2. \/ Exit
          \/ UNCHANGED <<plan, tpc, payload>> /\ (pc' = "crashed" \/ pc' = "project")
      BY <2>3 DEF FinishRun
    <3>3. CASE Exit
      BY <2>1, <3>1, <3>3
    <3>4. CASE UNCHANGED <<plan, tpc, payload>> /\ (pc' = "crashed" \/ pc' = "project")
      BY <2>2, <3>1, <3>4 DEF plan
    <3> QED BY <3>2, <3>3, <3>4
  <2>4. CASE ProjectEvents
    <3>1. UNCHANGED bronze
      BY <2>4 DEF ProjectEvents
    <3>2. Exit \/ (UNCHANGED <<plan, tpc, payload>> /\ pc' = "crashed")
      BY <2>4 DEF ProjectEvents
    <3>3. CASE Exit
      BY <2>1, <3>1, <3>3
    <3>4. CASE UNCHANGED <<plan, tpc, payload>> /\ pc' = "crashed"
      BY <2>2, <3>1, <3>4 DEF plan
    <3> QED BY <3>2, <3>3, <3>4
  <2>5. CASE HandleCrash
    BY <2>1, <2>5 DEF HandleCrash
  <2> QED BY <1>3, <2>3, <2>4, <2>5
<1>4. CASE CancelQueued
  <2>1. /\ UNCHANGED <<pc, bronze, payload, window, fixtureIds>>
        /\ \A t \in Tasks : tpc'[t] = IF tpc[t] = "queued" THEN "cancelled" ELSE tpc[t]
    BY <1>4 DEF CancelQueued, db, Local
  <2>2. \A t \in LeagueTasks : Done(t)' = Done(t)
    BY <1>0, <2>1 DEF Done
  <2>3. Carries'
    BY <1>0, <2>1, <2>2 DEF Carries, Newest
  <2>4. Listed' = Listed
    BY <2>1, <2>2 DEF Listed
  <2>5. Derived'
    BY <1>0, <2>1, <2>4 DEF Derived, Finished
  <2> QED BY <2>3, <2>5
<1>5. CASE AbortPhase
  BY <1>5 DEF AbortPhase, db, Carries, Derived, Done, Newest
<1> QED BY <1>1, <1>2, <1>3, <1>4, <1>5 DEF MainStep

LEMMA CatalogueStep == IInv /\ Carries /\ Derived /\ [Next]_vars => Carries' /\ Derived'
<1> SUFFICES ASSUME IInv, Carries, Derived, [Next]_vars PROVE Carries' /\ Derived'
  OBVIOUS
<1>1. ASSUME NEW r \in RunIds, StartRun(r) \/ ResumeRun(r) PROVE Carries' /\ Derived'
  <2>1. UNCHANGED <<bronze, tpc, payload>> /\ pc' \in {"off", "leagues"}
    BY <1>1 DEF StartRun, ResumeRun, Launch, db
  <2> QED BY <2>1 DEF Carries, Derived, Done, Newest
<1>2. CASE Crash
  BY <1>2, LeagueTasksAreTasks DEF Crash, Exit, NoTasks, db, Carries, Derived, Done
<1>3. CASE AllDone \/ UNCHANGED vars
  BY <1>3 DEF AllDone, vars, Carries, Derived, Listed, Done, Newest
<1> QED BY <1>1, <1>2, <1>3, CatalogueMain, CarriesTask, DerivedTask DEF Next

(* Phase B's work list has the eligible fixtures of the newest catalogue of  *)
(* every league that counts as done, fetched now or by an earlier process.   *)
THEOREM CatalogueIsCovered == Spec => []PhaseBCoversCatalogue
<1>1. Init => Carries /\ Derived
  BY LeagueTasksAreTasks DEF Init, Carries, Derived, Done, NoTasks
<1>2. IInv /\ Carries /\ Derived => PhaseBCoversCatalogue
  <2> SUFFICES ASSUME IInv, Carries, Derived, pc \in {"phaseB", "project"},
                      NEW l \in works, Backed(rid, ck_league(l))
               PROVE  Newest(ck_league(l)) \cap window \subseteq fixtureIds
    BY DEF PhaseBCoversCatalogue, Newest
  <2> DEFINE t == ck_league(l)
  <2>1. t \in LeagueTasks /\ t \in Tasks /\ t \in Planned
    BY LeagueTasksAreTasks DEF LeagueTasks, Planned, IInv, TypeOK
  <2>2. tpc[t] \in Finished
    BY <2>1 DEF Derived, IInv, PlanTracked
  <2>3. tpc[t] # "failed"
    BY <2>1 DEF IInv, TaskTruth, Backed
  <2>4. Done(t)
    BY <2>2, <2>3 DEF Done, Finished
  <2> QED BY <2>1, <2>4 DEF Carries, Derived, Listed
<1> QED BY <1>1, <1>2, CatalogueStep, Invariance, PTL DEF Spec
-----------------------------------------------------------------------------
(* Bronze, task by task, is the log that the bronze writer implements: the    *)
(* rows of a task in Runner are the rows of BronzeLog, its newest row is what *)
(* the hash stands for.                                                       *)
NoPayloadYet == CHOOSE n : n \notin SUBSET Fixtures

TaskLog(t) == INSTANCE BronzeLog WITH
  Bodies <- Payloads(t),
  NoRow  <- NoPayloadYet,
  rows   <- bronze[t],
  latest <- IF bronze[t] = <<>> THEN NoPayloadYet ELSE Newest(t)

LEMMA NoPayloadYetIsNone == NoPayloadYet \notin SUBSET Fixtures
BY NoSetContainsEverything DEF NoPayloadYet

(* Only the fetch of a task writes to its rows.                              *)
LEMMA WhoWritesBronze ==
  ASSUME IInv, [Next]_vars, NEW t \in Tasks, bronze'[t] # bronze[t]
  PROVE  \E p \in Payloads(t) : bronze' = WriteBronze(t, p)
<1>1. ASSUME NEW r \in RunIds, StartRun(r) \/ ResumeRun(r) PROVE FALSE
  BY <1>1 DEF StartRun, ResumeRun, db
<1>2. CASE MainStep
  BY <1>2 DEF MainStep, FetchLeagues, DerivePhaseB, FinishRun, ProjectEvents,
              HandleCrash, CancelQueued, AbortPhase, db
<1>3. CASE Crash \/ AllDone \/ UNCHANGED vars
  BY <1>3 DEF Crash, AllDone, vars, db
<1>4. ASSUME NEW u \in Tasks, TaskStep(u)
      PROVE  \E p \in Payloads(t) : bronze' = WriteBronze(t, p)
  <2>1. Fetch(u)
    BY <1>4 DEF TaskStep, TakeTask, LoadLatestPayload, MarkPending, MarkSucceeded,
                MarkFailed, RecordFailure, db
  <2>2. PICK p \in Payloads(u) : bronze' = WriteBronze(u, p)
    BY <2>1 DEF Fetch
  <2>3. p \in SUBSET Fixtures
    BY PayloadsType
  <2>4. u = t
    BY <2>2, <2>3, WriteBronzeEffect DEF IInv
  <2> QED BY <2>2, <2>4
<1> QED BY <1>1, <1>2, <1>3, <1>4 DEF Next

LEMMA StepTaskLog ==
  ASSUME IInv, [Next]_vars, NEW t \in Tasks
  PROVE  [TaskLog(t)!Next]_<<bronze[t], IF bronze[t] = <<>> THEN NoPayloadYet ELSE Newest(t)>>
<1>1. CASE bronze'[t] = bronze[t]
  BY <1>1 DEF Newest
<1>2. CASE bronze'[t] # bronze[t]
  <2>1. PICK p \in Payloads(t) : bronze' = WriteBronze(t, p)
    BY <1>2, WhoWritesBronze
  <2>2. p \in SUBSET Fixtures
    BY PayloadsType
  <2>3. bronze'[t] # <<>> /\ Newest(t)' = p
    BY <2>1, <2>2, WrittenIsNewest DEF IInv, Newest
  <2>4. bronze'[t] = Append(bronze[t], p) /\ ~(bronze[t] # <<>> /\ Newest(t) = p)
    BY <1>2, <2>1 DEF WriteBronze, Newest, IInv, TypeOK
  <2>5. p # NoPayloadYet
    BY <2>2, NoPayloadYetIsNone
  <2>6. TaskLog(t)!Write(p)
    BY <2>3, <2>4, <2>5 DEF TaskLog!Write
  <2> QED BY <2>6 DEF TaskLog!Next
<1> QED BY <1>1, <1>2

(* Whatever the runner's processes do and suffer, the rows of each task are a *)
(* log as write_bronze keeps it: it grows by one row at a time, and only by a *)
(* payload that differs from the newest.                                      *)
THEOREM BronzeIsLog ==
  ASSUME NEW t \in Tasks
  PROVE  Spec => TaskLog(t)!Spec
<1>1. Init => TaskLog(t)!Init
  BY DEF Init, TaskLog!Init
<1>2. IInv /\ [Next]_vars =>
        [TaskLog(t)!Next]_<<bronze[t], IF bronze[t] = <<>> THEN NoPayloadYet ELSE Newest(t)>>
  BY StepTaskLog
<1> QED BY <1>1, <1>2, Invariance, PTL DEF Spec, TaskLog!Spec
-----------------------------------------------------------------------------
(* What makes every process end, short of the fairness that drives it: its    *)
(* steps only lead forward, and as long as it is up one can be taken.         *)
TaskRank(x) ==
  CASE x = "out" -> 0
    [] x = "queued" -> 1
    [] x \in {"load", "mark_pending"} -> 2
    [] x = "fetch" -> 3
    [] x = "mark_succeeded" -> 4
    [] x = "mark_failed" -> 5
    [] x = "dead_letter" -> 6
    [] OTHER -> 7

MainRank(x) ==
  CASE x = "leagues" -> 1
    [] x = "phaseA" -> 2
    [] x = "phaseB" -> 3
    [] x = "project" -> 4
    [] x = "crashed" -> 5
    [] OTHER -> 6

TasksAdvance ==
  /\ \A t \in Tasks : TaskRank(tpc'[t]) >= TaskRank(tpc[t])
  /\ \E t \in Tasks : TaskRank(tpc'[t]) > TaskRank(tpc[t])

OnlyForward ==
  [][pc # "off" => MainRank(pc') > MainRank(pc) \/ (pc' = pc /\ TasksAdvance)]_vars

(* Each step of a task takes that task on, and touches no other.             *)
LEMMA TaskMoves ==
  ASSUME TypeOK, NEW t \in Tasks, TaskStep(t)
  PROVE  /\ tpc[t] \in {"queued"} \cup Running
         /\ \E there \in TaskPoints \ {"cancelled"} :
              Goto(t, there) /\ TaskRank(there) > TaskRank(tpc[t])
<1>1. CASE TakeTask(t)
  BY <1>1 DEF TakeTask, TaskPoints, Running, Finished, TaskRank
<1>2. CASE LoadLatestPayload(t)
  BY <1>2 DEF LoadLatestPayload, TaskPoints, Running, Finished, TaskRank
<1>3. CASE MarkPending(t)
  BY <1>3 DEF MarkPending, TaskPoints, Running, Finished, TaskRank
<1>4. CASE Fetch(t)
  <2>1. tpc[t] = "fetch" /\ (Goto(t, "mark_failed") \/ Goto(t, "mark_succeeded"))
    BY <1>4 DEF Fetch, AfterFetch
  <2> QED BY <2>1 DEF TaskPoints, Running, Finished, TaskRank
<1>5. CASE MarkSucceeded(t)
  BY <1>5 DEF MarkSucceeded, TaskPoints, Running, Finished, TaskRank
<1>6. CASE MarkFailed(t)
  BY <1>6 DEF MarkFailed, AfterMarkFailed, TaskPoints, Running, Finished, TaskRank
<1>7. CASE RecordFailure(t)
  BY <1>7 DEF RecordFailure, TaskPoints, Running, Finished, TaskRank
<1> QED BY <1>1, <1>2, <1>3, <1>4, <1>5, <1>6, <1>7 DEF TaskStep

LEMMA TaskMovesOn ==
  ASSUME TypeOK, NEW t \in Tasks, TaskStep(t)
  PROVE  /\ pc' = pc
         /\ TaskRank(tpc'[t]) > TaskRank(tpc[t])
         /\ \A u \in Tasks : u # t => tpc'[u] = tpc[u]
<1>1. PICK there \in TaskPoints : Goto(t, there) /\ TaskRank(there) > TaskRank(tpc[t])
  BY TaskMoves
<1>2. \A u \in Tasks : tpc'[u] = IF u = t THEN there ELSE tpc[u]
  BY <1>1 DEF Goto, TypeOK
<1>3. pc' = pc
  BY DEF TaskStep, TakeTask, LoadLatestPayload, MarkPending, Fetch, MarkSucceeded,
         MarkFailed, RecordFailure, Local
<1> QED BY <1>1, <1>2, <1>3

LEMMA RanksAreNumbers == \A x : TaskRank(x) \in Nat /\ MainRank(x) \in Nat
BY DEF TaskRank, MainRank

LEMMA MainMovesOn ==
  ASSUME IInv, MainStep
  PROVE  MainRank(pc') > MainRank(pc) \/ (pc' = pc /\ TasksAdvance)
<1>1. CASE FetchLeagues
  BY <1>1 DEF FetchLeagues, MainRank
<1>2. CASE DerivePhaseB
  BY <1>2 DEF DerivePhaseB, MainRank
<1>3. CASE FinishRun
  BY <1>3 DEF FinishRun, Exit, MainRank
<1>4. CASE ProjectEvents
  BY <1>4 DEF ProjectEvents, Exit, MainRank
<1>5. CASE HandleCrash
  BY <1>5 DEF HandleCrash, Exit, MainRank
<1>6. CASE CancelQueued
  <2>1. /\ pc' = pc /\ \E t \in Tasks : tpc[t] = "queued"
        /\ \A t \in Tasks : tpc'[t] = IF tpc[t] = "queued" THEN "cancelled" ELSE tpc[t]
    BY <1>6 DEF CancelQueued, Local
  <2>2. TaskRank("cancelled") > TaskRank("queued")
    BY DEF TaskRank
  <2>3. ASSUME NEW t \in Tasks PROVE TaskRank(tpc'[t]) >= TaskRank(tpc[t])
    <3>1. TaskRank(tpc[t]) \in Nat /\ TaskRank("cancelled") \in Nat
      BY RanksAreNumbers
    <3> QED BY <2>1, <2>2, <3>1
  <2>4. PICK t \in Tasks : tpc[t] = "queued"
    BY <2>1
  <2>5. TaskRank(tpc'[t]) > TaskRank(tpc[t])
    BY <2>1, <2>2, <2>4
  <2> QED BY <2>1, <2>3, <2>5 DEF TasksAdvance
<1>7. CASE AbortPhase
  BY <1>7 DEF AbortPhase, Phases, MainRank
<1> QED BY <1>1, <1>2, <1>3, <1>4, <1>5, <1>6, <1>7 DEF MainStep

(* No process goes round in circles: each of its steps takes the main thread  *)
(* to a later point, or some task to one and none to an earlier. With finitely *)
(* many tasks, an attempt has finitely many steps.                            *)
THEOREM ProcessGoesForward == Spec => OnlyForward
<1> DEFINE P == pc # "off" => MainRank(pc') > MainRank(pc) \/ (pc' = pc /\ TasksAdvance)
<1>1. IInv /\ [Next]_vars => [P]_vars
  <2> SUFFICES ASSUME IInv, Next, pc # "off"
               PROVE  MainRank(pc') > MainRank(pc) \/ (pc' = pc /\ TasksAdvance)
    OBVIOUS
  <2>1. ASSUME NEW t \in Tasks, TaskStep(t) PROVE pc' = pc /\ TasksAdvance
    BY <2>1, TaskMovesOn, RanksAreNumbers DEF IInv, TasksAdvance
  <2>2. CASE Crash
    BY <2>2 DEF Crash, Exit, IInv, TypeOK, MainPoints, Phases, MainRank
  <2> QED BY <2>1, <2>2, MainMovesOn DEF Next, StartRun, ResumeRun, Launch, AllDone
<1> QED BY <1>1, Invariance, PTL DEF Spec, OnlyForward

(* Who was cancelled was so because of an exception that is still to be passed *)
(* on by the phase.                                                            *)
CancelledForCause == (\E t \in Tasks : tpc[t] = "cancelled") => SomeRaised

(* The process is up and something of it can go on: the main thread at a call *)
(* of its own, or at the end of a phase; a task that is at work, or finds a    *)
(* worker; or the phase that an exception leaves.                              *)
CanMove ==
  \/ pc \in {"leagues", "project", "crashed"}
  \/ pc \in Phases /\ Settled
  \/ \E t \in Tasks : tpc[t] \in Running
  \/ \E t \in Tasks : tpc[t] = "queued" /\ Cardinality(Workers) < MaxWorkers
  \/ pc \in Phases /\ SomeRaised /\ ((\E t \in Tasks : tpc[t] = "queued") \/ Workers = {})

NeverStuck == pc # "off" => CanMove

LEMMA CancelledForCauseMain ==
  ASSUME IInv, CancelledForCause, MainStep
  PROVE  CancelledForCause'
<1>1. CASE FetchLeagues
  <2>1. \A t \in Tasks : tpc'[t] \in {"queued", "out"}
    BY <1>1 DEF FetchLeagues, IInv, PlanTracked, NoTasks
  <2> QED BY <2>1 DEF CancelledForCause
<1>2. CASE DerivePhaseB
  <2>1. \A t \in Tasks : tpc'[t] # "cancelled"
    BY <1>2 DEF DerivePhaseB, Settled, Finished
  <2> QED BY <2>1 DEF CancelledForCause
<1>3. CASE FinishRun \/ ProjectEvents \/ HandleCrash
  <2>1. tpc' = tpc \/ tpc' = NoTasks
    BY <1>3 DEF FinishRun, ProjectEvents, HandleCrash, Exit
  <2> QED BY <2>1 DEF CancelledForCause, SomeRaised, NoTasks
<1>4. CASE CancelQueued
  <2>1. PICK t \in Tasks : tpc[t] = "raised"
    BY <1>4 DEF CancelQueued, SomeRaised
  <2>2. tpc'[t] = "raised"
    BY <1>4, <2>1 DEF CancelQueued
  <2> QED BY <2>2 DEF CancelledForCause, SomeRaised
<1>5. CASE AbortPhase
  BY <1>5 DEF AbortPhase, CancelledForCause, SomeRaised
<1> QED BY <1>1, <1>2, <1>3, <1>4, <1>5 DEF MainStep

LEMMA CancelledForCauseStep == IInv /\ CancelledForCause /\ [Next]_vars => CancelledForCause'
<1> SUFFICES ASSUME IInv, CancelledForCause, [Next]_vars PROVE CancelledForCause'
  OBVIOUS
<1>1. ASSUME NEW t \in Tasks, TaskStep(t) PROVE CancelledForCause'
  <2>1. PICK there \in TaskPoints \ {"cancelled"} : Goto(t, there)
    BY <1>1, TaskMoves DEF IInv
  <2>2. \A u \in Tasks : tpc'[u] = IF u = t THEN there ELSE tpc[u]
    BY <2>1 DEF Goto, IInv, TypeOK
  <2>3. tpc[t] # "raised"
    BY <1>1, TaskMoves DEF IInv, Running
  <2> QED BY <2>2, <2>3 DEF CancelledForCause, SomeRaised
<1>2. ASSUME NEW r \in RunIds, StartRun(r) \/ ResumeRun(r) PROVE CancelledForCause'
  BY <1>2 DEF StartRun, ResumeRun, CancelledForCause, SomeRaised
<1>3. CASE Crash
  BY <1>3 DEF Crash, Exit, NoTasks, CancelledForCause
<1>4. CASE AllDone \/ UNCHANGED vars
  BY <1>4 DEF AllDone, vars, CancelledForCause, SomeRaised
<1> QED BY <1>1, <1>2, <1>3, <1>4, CancelledForCauseMain DEF Next

(* As long as a process is up it is never stuck: no set of failures leaves a  *)
(* phase with tasks that nobody will run, cancel or wait for.                 *)
THEOREM ProcessIsNeverStuck == Spec => []NeverStuck
<1>1. Init => CancelledForCause
  BY DEF Init, NoTasks, CancelledForCause
<1>2. IInv /\ CancelledForCause => NeverStuck
  <2> SUFFICES ASSUME IInv, CancelledForCause, pc \in Phases, ~Settled,
                      \A t \in Tasks : tpc[t] \notin Running
               PROVE  CanMove
    BY DEF NeverStuck, CanMove, IInv, TypeOK, MainPoints
  <2>1. Workers = {} /\ Cardinality(Workers) < MaxWorkers
    <3>1. Workers = {}
      BY DEF Workers
    <3>2. Cardinality(Workers) = 0
      BY <3>1, FS_EmptySet, Zenon
    <3> QED BY <3>1, <3>2, RunnerAssumption
  <2>2. PICK t \in Tasks : tpc[t] \in {"queued", "raised", "cancelled"}
    BY DEF Settled, IInv, TypeOK, TaskPoints
  <2>3. CASE tpc[t] = "queued"
    BY <2>1, <2>3 DEF CanMove
  <2>4. CASE tpc[t] \in {"raised", "cancelled"}
    BY <2>1, <2>4 DEF CanMove, CancelledForCause, SomeRaised
  <2> QED BY <2>2, <2>3, <2>4
<1> QED BY <1>1, <1>2, CancelledForCauseStep, Invariance, PTL DEF Spec
-----------------------------------------------------------------------------
(* Without a fault no run is left 'running': one that reads so is the run of  *)
(* the process that is up, which has not recorded its verdict yet.            *)
NoneLeftRunning ==
  ~faulted => \A r \in RunIds : runs[r] = "running" =>
                rid = r /\ pc \notin {"off", "project"}

LEMMA NoneLeftRunningMain ==
  ASSUME IInv, NoneLeftRunning, MainStep
  PROVE  NoneLeftRunning'
<1> SUFFICES ASSUME ~faulted', NEW r \in RunIds, runs'[r] = "running"
             PROVE  rid' = r /\ pc' \notin {"off", "project"}
  BY DEF NoneLeftRunning
<1>0. faulted \in BOOLEAN /\ ~faulted
  BY FaultsStay DEF IInv, TypeOK, Next
<1>1. CASE FetchLeagues \/ DerivePhaseB \/ CancelQueued \/ AbortPhase
  BY <1>0, <1>1
  DEF FetchLeagues, DerivePhaseB, CancelQueued, AbortPhase, db, Local, Phases,
      NoneLeftRunning
<1>2. ASSUME NEW s \in RunStatus \ {"running"}, NEW o \in DbOutcomes,
             Finish(o, s), Note(o), pc # "off"
      PROVE  FALSE
  <2>1. rid \in RunIds /\ Committed(o)
    BY <1>0, <1>2, NotedOk DEF IInv, TypeOK
  <2>2. runs'[rid] # "running" /\ \A q \in RunIds : q # rid => runs'[q] = runs[q]
    BY <1>2, <2>1 DEF Finish, IInv, TypeOK, RunStatus
  <2> QED BY <1>0, <2>2 DEF NoneLeftRunning
<1>3. CASE FinishRun
  <2>1. TerminalStatus \in RunStatus \ {"running"}
    BY DEF TerminalStatus, RunStatus
  <2> QED BY <1>2, <1>3, <2>1 DEF FinishRun
<1>4. CASE HandleCrash
  <2>1. "failed" \in RunStatus \ {"running"}
    BY DEF RunStatus
  <2> QED BY <1>2, <1>4, <2>1 DEF HandleCrash
<1>5. CASE ProjectEvents
  BY <1>0, <1>5 DEF ProjectEvents, NoneLeftRunning
<1> QED BY <1>1, <1>3, <1>4, <1>5 DEF MainStep

LEMMA NoneLeftRunningStep == IInv /\ NoneLeftRunning /\ [Next]_vars => NoneLeftRunning'
<1> SUFFICES ASSUME IInv, NoneLeftRunning, [Next]_vars, ~faulted' PROVE NoneLeftRunning'
  BY DEF NoneLeftRunning
<1>0. ~faulted
  BY FaultsStay DEF IInv, TypeOK
<1>1. ASSUME NEW r \in RunIds, StartRun(r) PROVE NoneLeftRunning'
  <2>1. PICK o \in DbOutcomes :
          /\ runs' = IF Committed(o) THEN [runs EXCEPT ![r] = "running"] ELSE runs
          /\ IF Raised(o) THEN UNCHANGED <<pc, rid>> ELSE pc' = "leagues" /\ rid' = r
          /\ Note(o)
    BY <1>1 DEF StartRun
  <2>2. ~Raised(o)
    BY <2>1, NotedOk DEF IInv, TypeOK
  <2>3. \A q \in RunIds : runs[q] # "running"
    BY <1>0, <1>1 DEF NoneLeftRunning, StartRun, Launch
  <2>4. \A q \in RunIds : runs'[q] = "running" => q = r
    BY <2>1, <2>3 DEF IInv, TypeOK
  <2> QED BY <2>1, <2>2, <2>4 DEF NoneLeftRunning
<1>2. ASSUME NEW r \in RunIds, ResumeRun(r) PROVE NoneLeftRunning'
  BY <1>0, <1>2 DEF ResumeRun, Launch, db, NoneLeftRunning
<1>3. ASSUME NEW t \in Tasks, TaskStep(t) PROVE NoneLeftRunning'
  <2>1. UNCHANGED <<runs, pc, rid>>
    BY <1>3 DEF TaskStep, TakeTask, LoadLatestPayload, MarkPending, Fetch,
                MarkSucceeded, MarkFailed, RecordFailure, Local, db
  <2> QED BY <1>0, <2>1 DEF NoneLeftRunning
<1>4. CASE Crash
  BY <1>4 DEF Crash
<1>5. CASE AllDone \/ UNCHANGED vars
  BY <1>0, <1>5 DEF AllDone, vars, NoneLeftRunning
<1> QED BY <1>1, <1>2, <1>3, <1>4, <1>5, NoneLeftRunningMain DEF Next

(* Unless a call on Postgres fails or something is killed, no process ends,   *)
(* or goes on to the projection, with its run still 'running', however many   *)
(* calls of the API fail.                                                     *)
THEOREM NoRunIsLeft == Spec => []NoneLeftRunning
<1>1. Init => NoneLeftRunning
  BY DEF Init, NoneLeftRunning
<1> QED BY <1>1, NoneLeftRunningStep, Invariance, PTL DEF Spec
-----------------------------------------------------------------------------
(* Where the documents' claims hold after all.                               *)
NoneThrown == \A t \in Tasks : tpc[t] \notin {"raised", "cancelled"}

LEMMA NoneThrownStep ==
  ASSUME DbOutcomes = {"ok"}, IInv, NoneThrown, [Next]_vars
  PROVE  NoneThrown'
<1>0. \A o \in DbOutcomes : ~Raised(o)
  BY DEF Raised
<1>1. ASSUME NEW t \in Tasks, TaskStep(t) PROVE NoneThrown'
  <2>1. PICK there \in TaskPoints \ {"raised", "cancelled"} : Goto(t, there)
    BY <1>0, <1>1
    DEF TaskStep, TakeTask, LoadLatestPayload, MarkPending, Fetch, AfterFetch,
        MarkSucceeded, MarkFailed, AfterMarkFailed, RecordFailure,
        TaskPoints, Running, Finished
  <2> QED BY <2>1 DEF Goto, NoneThrown, IInv, TypeOK
<1>2. CASE FetchLeagues
  <2>1. \A t \in Tasks : tpc'[t] \in {"queued", "out"}
    BY <1>2 DEF FetchLeagues, IInv, PlanTracked, NoTasks
  <2> QED BY <2>1 DEF NoneThrown
<1>3. CASE DerivePhaseB
  BY <1>3 DEF DerivePhaseB, NoneThrown
<1>4. CASE FinishRun \/ ProjectEvents \/ HandleCrash
  <2>1. tpc' = tpc \/ tpc' = NoTasks
    BY <1>4 DEF FinishRun, ProjectEvents, HandleCrash, Exit
  <2> QED BY <2>1 DEF NoneThrown, NoTasks
<1>5. CASE CancelQueued \/ AbortPhase
  BY <1>5 DEF CancelQueued, AbortPhase, SomeRaised, NoneThrown
<1>6. ASSUME NEW r \in RunIds, StartRun(r) \/ ResumeRun(r) PROVE NoneThrown'
  BY <1>6 DEF StartRun, ResumeRun, NoneThrown
<1>7. CASE Crash \/ AllDone \/ UNCHANGED vars
  BY <1>7 DEF Crash, Exit, NoTasks, AllDone, vars, NoneThrown
<1> QED BY <1>1, <1>2, <1>3, <1>4, <1>5, <1>6, <1>7 DEF Next, MainStep

(* "Other leagues keep running" (phase_a.py:3-4) is true wherever no call on  *)
(* Postgres fails, whatever the API does and whoever kills the process: what  *)
(* refutes it is a failure of the checkpoint store and nothing else.          *)
THEOREM OthersRunIfDbHolds ==
  ASSUME DbOutcomes = {"ok"}
  PROVE  Spec => []OthersKeepRunning
<1>1. Init => NoneThrown
  BY DEF Init, NoTasks, NoneThrown
<1>2. IInv /\ NoneThrown /\ [Next]_vars => NoneThrown'
  BY NoneThrownStep
<1>3. NoneThrown => OthersKeepRunning
  BY LeagueTasksAreTasks DEF NoneThrown, OthersKeepRunning
<1> QED BY <1>1, <1>2, <1>3, Invariance, PTL DEF Spec

(* Runs are only ever started, never resumed: one process for each run id.   *)
NeverResumed == Init /\ [][Next /\ \A r \in RunIds : ~ResumeRun(r)]_vars

(* Then the checkpoints of the current run are those of tasks of the process. *)
OwnTasksOnly == pc # "off" => \A t \in Tasks : ck[rid][t] # "absent" => tpc[t] # "out"

LEMMA OwnTasksOnlyStep ==
  ASSUME IInv, OwnTasksOnly, [Next /\ \A r \in RunIds : ~ResumeRun(r)]_vars
  PROVE  OwnTasksOnly'
<1>1. ASSUME NEW t \in Tasks, TaskStep(t) PROVE OwnTasksOnly'
  <2>1. PICK there \in TaskPoints : Goto(t, there) /\ TaskRank(there) > TaskRank(tpc[t])
    BY <1>1, TaskMoves DEF IInv
  <2>2. there # "out" /\ \A u \in Tasks : tpc'[u] = IF u = t THEN there ELSE tpc[u]
    <3>1. TaskRank(tpc[t]) \in Nat /\ TaskRank("out") = 0
      BY RanksAreNumbers DEF TaskRank
    <3> QED BY <2>1, <3>1 DEF Goto, IInv, TypeOK
  <2>3. UNCHANGED <<pc, rid>>
    BY <1>1 DEF TaskStep, TakeTask, LoadLatestPayload, MarkPending, Fetch,
                MarkSucceeded, MarkFailed, RecordFailure, Local
  <2>4. rid \in RunIds /\ pc # "off"
    BY <1>1, TaskMoves, TaskHasRun DEF IInv, Running
  <2>5. \A u \in Tasks : u # t => ck'[rid][u] = ck[rid][u]
    BY <1>1, <2>4
    DEF TaskStep, TakeTask, LoadLatestPayload, MarkPending, Fetch,
        MarkSucceeded, MarkFailed, RecordFailure, Upsert, db, IInv, TypeOK
  <2> QED BY <2>2, <2>3, <2>4, <2>5 DEF OwnTasksOnly
<1>2. CASE FetchLeagues
  <2>1. pc = "leagues" /\ tpc = NoTasks /\ UNCHANGED <<ck, rid>>
    BY <1>2 DEF FetchLeagues, IInv, PlanTracked, db
  <2> QED BY <2>1 DEF OwnTasksOnly, NoTasks
<1>3. CASE DerivePhaseB
  BY <1>3 DEF DerivePhaseB, OwnTasksOnly, db
<1>4. CASE FinishRun \/ ProjectEvents \/ HandleCrash
  BY <1>4 DEF FinishRun, ProjectEvents, HandleCrash, Exit, OwnTasksOnly
<1>5. CASE CancelQueued \/ AbortPhase
  BY <1>5 DEF CancelQueued, AbortPhase, Phases, db, Local, OwnTasksOnly
<1>6. ASSUME NEW r \in RunIds, StartRun(r) PROVE OwnTasksOnly'
  BY <1>6 DEF StartRun, Launch, OwnTasksOnly
<1>7. CASE Crash
  BY <1>7 DEF Crash, Exit, OwnTasksOnly
<1>8. CASE AllDone \/ UNCHANGED vars
  BY <1>8 DEF AllDone, vars, OwnTasksOnly
<1> QED BY <1>1, <1>2, <1>3, <1>4, <1>5, <1>6, <1>7, <1>8 DEF Next, MainStep

(* "No skips" (docs/ROADMAP.md:87) is true of every run that one process sees *)
(* through, whatever fails: what refutes it is a resumption that plans anew.  *)
THEOREM NothingIsSkippedUnresumed == NeverResumed => ResumeSkipsNothing
<1> DEFINE P == \A r \in RunIds : runs[r] # "succeeded" /\ runs'[r] = "succeeded" =>
                  \A t \in Tasks : ck[r][t] \notin {"pending", "failed"}
<1>1. Init => OwnTasksOnly
  BY DEF Init, OwnTasksOnly
<1>2. IInv /\ OwnTasksOnly /\ [Next]_vars => [P]_vars
  <2> SUFFICES ASSUME IInv, OwnTasksOnly, Next,
                      NEW r \in RunIds, runs[r] # "succeeded", runs'[r] = "succeeded",
                      NEW t \in Tasks
               PROVE  ck[r][t] \notin {"pending", "failed"}
    OBVIOUS
  <2>1. ASSUME NEW q \in RunIds, StartRun(q) PROVE FALSE
    BY <2>1 DEF StartRun, IInv, TypeOK
  <2>2. CASE HandleCrash
    BY <2>2 DEF HandleCrash, Finish, IInv, TypeOK
  <2>3. CASE FinishRun
    <3>1. rid = r /\ TerminalStatus = "succeeded" /\ pc = "phaseB" /\ Settled
      BY <2>3 DEF FinishRun, Finish, IInv, TypeOK
    <3>2. tpc[t] \in {"landed", "skipped", "out"}
      BY <3>1 DEF TerminalStatus, Settled, Finished
    <3> QED BY <3>1, <3>2 DEF OwnTasksOnly, IInv, TaskTruth
  <2> QED BY <2>1, <2>2, <2>3, WhoWritesRuns
<1>3. NeverResumed => Spec
  BY PTL DEF NeverResumed, Spec
<1>4. NeverResumed => []OwnTasksOnly
  <2>1. IInv /\ OwnTasksOnly /\ [Next /\ \A r \in RunIds : ~ResumeRun(r)]_vars
          => OwnTasksOnly'
    BY OwnTasksOnlyStep
  <2> QED BY <1>1, <1>3, <2>1, Invariance, PTL DEF NeverResumed
<1> QED BY <1>2, <1>3, <1>4, Invariance, PTL DEF Spec, ResumeSkipsNothing
=============================================================================
