----------------------------- MODULE Lifecycle ------------------------------
(***************************************************************************)
(* The threads of one ingestor process and the connections they share: the *)
(* main thread (run_ingestion in orchestrator/runner.py), the workers of   *)
(* the phase under way, and the heartbeat (heartbeat.py), which outlives   *)
(* its stop() when a tick is held up. All of them borrow from one pool     *)
(* (db/connection.py), which raises when it has nothing left to lend.      *)
(*                                                                         *)
(* What the transactions of a phase do is Runner's subject: here they only *)
(* hold a connection, and fail or not.                                     *)
(***************************************************************************)
EXTENDS Naturals, FiniteSets

CONSTANTS
  ThreadPoolSize,  \* settings.thread_pool_size
  PhaseWork,       \* bound on the transactions of a phase
  DbMayFail,       \* may a transaction raise?
  Migrate,         \* is apply_migrations called (no --no-migrate)?
  Projects         \* is a sources database configured?

(* What Settings accepts as thread_pool_size. *)
ThreadPoolSizes == 1..64

ASSUME LifecycleAssumption ==
  /\ ThreadPoolSize \in ThreadPoolSizes
  /\ PhaseWork \in Nat
  /\ {DbMayFail, Migrate, Projects} \subseteq BOOLEAN

Workers == 1..ThreadPoolSize
Main    == 0
Beat    == ThreadPoolSize + 1   \* the heartbeat's thread
Threads == Workers \cup {Main, Beat}

(* Plausible bug: one connection per worker. *)
OnePerWorker == ThreadPoolSize

(* The pool's size: from_settings. *)
MaxConn == IF ThreadPoolSize * 2 > 4 THEN ThreadPoolSize * 2 ELSE 4

VARIABLES
  used,       \* the threads that hold a connection of the pool
  closed,     \* closeall has been called
  main,       \* where the main thread is
  todo,       \* transactions the phase under way still has to begin
  verdict,    \* the status finish_run is given
  row,        \* status of the run's row
  rowLock,    \* the threads whose open transaction has updated the row
  hb,         \* where the heartbeat's thread is
  stopping,   \* its stop event
  abandoned,  \* stop() gave up waiting for it
  late        \* history: a tick has landed after finish_run

vars == <<used, closed, main, todo, verdict, row, rowLock, hb, stopping, abandoned, late>>
beatVars == <<hb, stopping, abandoned, late>>

Phases     == {"phaseA", "phaseB"}
Body       == {"leagues"} \cup Phases
MainPoints == {"migrate", "start_run", "enter", "join", "finish", "settle",
               "project", "closeall", "exit", "ended"} \cup Body
BeatPoints == {"off", "tick", "update", "commit", "wait", "ended"}

TypeOK ==
  /\ used \subseteq Threads /\ closed \in BOOLEAN
  /\ main \in MainPoints
  /\ todo \in 0..PhaseWork
  /\ verdict \in {"succeeded", "partial", "failed"}
  /\ row \in {"absent", "running", "succeeded", "partial", "failed"}
  /\ rowLock \subseteq {Beat}
  /\ hb \in BeatPoints
  /\ {stopping, abandoned, late} \subseteq BOOLEAN
  /\ Main \in used => main \in {"migrate", "start_run", "leagues", "finish", "settle", "project"}
  /\ ~closed => (Beat \in used <=> hb \in {"update", "commit"})
  /\ rowLock # {} => hb = "commit"

Init ==
  /\ used = {} /\ closed = FALSE
  /\ main = IF Migrate THEN "migrate" ELSE "start_run"
  /\ todo = 0 /\ verdict = "succeeded"
  /\ row \in {"absent", "running", "succeeded", "partial", "failed"}  \* if it is resumed
  /\ rowLock = {}
  /\ hb = "off" /\ stopping = FALSE /\ abandoned = FALSE /\ late = FALSE

-----------------------------------------------------------------------------
(* `with pool.connection()`.                                               *)

Holds(t) == t \in used

(* getconn raises when the pool is closed or all it may open is lent out. *)
Lends == ~closed /\ Cardinality(used) < MaxConn

(* Plausible bug: the connection is given back on success only. *)
GiveBackIfDone(t, raised) == used' = IF raised THEN used ELSE used \ {t}

(* putconn, in the finally; of a closed pool it raises. *)
GiveBack(t, raised) == used' = IF closed THEN used ELSE used \ {t}

(* How the block ends: as it should, or raising. *)
Ends(t, raised) == Holds(t) /\ (raised => DbMayFail) /\ GiveBack(t, raised)

-----------------------------------------------------------------------------
(* The main thread. An exception before the run row goes straight to         *)
(* closeall; in the body, through Heartbeat.__exit__ to the handler; in       *)
(* finish_run or the projection, to the handler; in the handler, to closeall. *)
Handler ==
  CASE main \in {"migrate", "start_run"} -> "closeall"
    [] main \in Body                     -> "join"
    [] main \in {"finish", "settle"} /\ verdict = "failed" -> "closeall"
    [] OTHER                             -> "finish"

Raise ==
  /\ main' = Handler /\ verdict' = "failed"
  /\ stopping' = (stopping \/ Handler = "join")

Go(there) == main' = there /\ UNCHANGED <<verdict, stopping>>

Borrows ==
  /\ main \in {"migrate", "start_run", "leagues", "finish", "project"}
  /\ main = "start_run" => row = "absent"
  /\ ~Holds(Main)
  /\ IF Lends THEN used' = used \cup {Main} /\ UNCHANGED <<main, verdict, stopping>>
              ELSE Raise /\ UNCHANGED used
  /\ UNCHANGED <<closed, todo, row, rowLock, hb, abandoned, late>>

Migrated ==
  /\ main = "migrate"
  /\ Ends(Main, FALSE)
  /\ Go("start_run")
  /\ UNCHANGED <<closed, todo, row, rowLock, hb, abandoned, late>>

(* start_run's INSERT. *)
Started ==
  /\ main = "start_run"
  /\ Ends(Main, FALSE)
  /\ row' = "running"
  /\ Go("enter")
  /\ UNCHANGED <<closed, todo, rowLock, hb, abandoned, late>>

(* --resume: the row, if there is one, is left as it is. *)
Resume ==
  /\ main = "start_run" /\ ~Holds(Main)
  /\ Go("enter")
  /\ UNCHANGED <<used, closed, todo, row, rowLock, hb, abandoned, late>>

(* Heartbeat.__enter__ starts the thread. *)
Enter ==
  /\ main = "enter"
  /\ hb' = "tick"
  /\ main' = "leagues"
  /\ UNCHANGED <<used, closed, todo, verdict, row, rowLock, stopping, abandoned, late>>

(* Leaving the executor's `with` waits for the tasks that have begun. *)
Awaited == \A w \in Workers : ~Holds(w)

StartPhase(phase) ==
  /\ Go(phase)
  /\ todo' \in 0..PhaseWork

(* The /leagues call is made inside the block. *)
LeaguesFetched ==
  /\ main = "leagues"
  /\ Ends(Main, FALSE)
  /\ StartPhase("phaseA")
  /\ UNCHANGED <<closed, row, rowLock, hb, abandoned, late>>

(* The phase raises what left a task, or the next one starts, or the body    *)
(* is over and Heartbeat.__exit__ sets the event.                            *)
PhaseEnds ==
  /\ main \in Phases /\ todo = 0 /\ Awaited
  /\ CASE verdict = "failed" -> Raise /\ UNCHANGED todo
       [] verdict # "failed" /\ main = "phaseA" -> StartPhase("phaseB")
       [] OTHER -> /\ main' = "join" /\ stopping' = TRUE
                   /\ verdict' \in {"succeeded", "partial"}
                   /\ UNCHANGED todo
  /\ UNCHANGED <<used, closed, row, rowLock, hb, abandoned, late>>

(* Plausible bug: stop() only sets the event. *)
NotJoined == TRUE

(* join() returns: the thread has ended. *)
Joined == hb = "ended"

Join ==
  /\ main = "join" /\ Joined
  /\ main' = "finish"
  /\ UNCHANGED <<used, closed, todo, verdict, row, rowLock, beatVars>>

(* join() times out, an interval and a second after the event was set: the  *)
(* tick under way waits for the database.                                    *)
JoinTimesOut ==
  /\ main = "join" /\ hb \in {"tick", "update", "commit"}
  /\ main' = "finish" /\ abandoned' = TRUE
  /\ UNCHANGED <<used, closed, todo, verdict, row, rowLock, hb, stopping, late>>

(* finish_run: its UPDATE waits for a tick that has updated the row. *)
Update ==
  /\ main = "finish" /\ Holds(Main)
  /\ rowLock = {}
  /\ main' = "settle"
  /\ UNCHANGED <<used, closed, todo, verdict, row, rowLock, beatVars>>

(* ... and its COMMIT. Then, if the run succeeded, the projection; after the *)
(* handler's finish_run the exception goes on.                               *)
Settle ==
  /\ main = "settle"
  /\ Ends(Main, FALSE)
  /\ row' = IF row = "absent" THEN row ELSE verdict
  /\ Go(IF verdict = "succeeded" /\ Projects THEN "project" ELSE "closeall")
  /\ UNCHANGED <<closed, todo, rowLock, hb, abandoned, late>>

(* The projection reads bronze on this pool and writes on one of its own; an *)
(* exception of either is the run's.                                         *)
Projected ==
  /\ main = "project"
  /\ Ends(Main, FALSE)
  /\ Go("closeall")
  /\ UNCHANGED <<closed, todo, row, rowLock, hb, abandoned, late>>

(* A statement of the main thread's transaction raises, or its COMMIT. *)
MainFails ==
  /\ Ends(Main, TRUE)
  /\ Raise
  /\ UNCHANGED <<closed, todo, row, rowLock, hb, abandoned, late>>

(* closeall closes the connections that are lent out, too. *)
CloseAll ==
  /\ main = "closeall"
  /\ closed' = TRUE
  /\ rowLock' = {}
  /\ main' = "exit"
  /\ UNCHANGED <<used, todo, verdict, row, beatVars>>

Exit ==
  /\ main = "exit"
  /\ main' = "ended"
  /\ UNCHANGED <<used, closed, todo, verdict, row, rowLock, beatVars>>

-----------------------------------------------------------------------------
(* A worker of the phase under way: a task's transactions one at a time, the *)
(* fetch of the payload inside one of them.                                  *)

(* A getconn that raises, of is_succeeded say, leaves the task. *)
WorkerBorrows(w) ==
  /\ main \in Phases /\ todo > 0 /\ ~Holds(w)
  /\ IF Lends
     THEN used' = used \cup {w} /\ todo' = todo - 1 /\ UNCHANGED verdict
     ELSE todo' = 0 /\ verdict' = "failed" /\ UNCHANGED used
  /\ UNCHANGED <<closed, main, row, rowLock, beatVars>>

(* A transaction that raises is the task's own failure, or it leaves the     *)
(* task: then the rest of the phase is cancelled.                            *)
WorkerEnds(w) ==
  /\ \E raised, leaves \in BOOLEAN :
       /\ Ends(w, raised)
       /\ leaves => raised
       /\ IF leaves THEN todo' = 0 /\ verdict' = "failed" ELSE UNCHANGED <<todo, verdict>>
  /\ UNCHANGED <<closed, main, row, rowLock, beatVars>>

-----------------------------------------------------------------------------
(* The heartbeat's thread, a daemon: it goes when the process does.          *)

Up == main # "ended"

(* Plausible bug: an exception of a tick ends the thread. *)
ThreadDies == "ended"

(* _tick logs and drops what heartbeat() raises. *)
Swallowed == "wait"

TickBorrows ==
  /\ Up /\ hb = "tick"
  /\ IF Lends THEN hb' = "update" /\ used' = used \cup {Beat}
              ELSE hb' = Swallowed /\ UNCHANGED used
  /\ UNCHANGED <<closed, main, todo, verdict, row, rowLock, stopping, abandoned, late>>

(* UPDATE ingestion_runs: waits for finish_run's, when it is under way. *)
TickUpdates ==
  /\ Up /\ hb = "update" /\ ~closed
  /\ main = "settle" => row = "absent"
  /\ rowLock' = IF row = "absent" THEN {} ELSE {Beat}
  /\ hb' = "commit"
  /\ UNCHANGED <<used, closed, main, todo, verdict, row, stopping, abandoned, late>>

(* Plausible bug: the pool takes back an open transaction. *)
StillOpen == rowLock

(* Postgres lets go of the row at the end of the transaction. *)
RowReleased == {}

TickCommits ==
  /\ Up /\ hb = "commit" /\ ~closed
  /\ GiveBack(Beat, FALSE)
  /\ rowLock' = {}
  /\ hb' = "wait"
  /\ late' = (late \/ main \in {"project", "closeall"})
  /\ UNCHANGED <<closed, main, todo, verdict, row, stopping, abandoned>>

TickRaises ==
  /\ Up /\ hb \in {"update", "commit"}
  /\ DbMayFail \/ closed
  /\ GiveBack(Beat, TRUE)
  /\ rowLock' = RowReleased
  /\ hb' = Swallowed
  /\ UNCHANGED <<closed, main, todo, verdict, row, stopping, abandoned, late>>

(* _stop.wait(interval) returns at once when the event is set ... *)
BeatEnds ==
  /\ Up /\ hb = "wait" /\ stopping
  /\ hb' = "ended"
  /\ UNCHANGED <<used, closed, main, todo, verdict, row, rowLock, stopping, abandoned, late>>

(* ... and otherwise after the interval, whatever the workers are doing. *)
NextTick ==
  /\ Up /\ hb = "wait" /\ ~stopping
  /\ hb' = "tick"
  /\ UNCHANGED <<used, closed, main, todo, verdict, row, rowLock, stopping, abandoned, late>>

-----------------------------------------------------------------------------
MainStep ==
  \/ Borrows \/ Migrated \/ Started \/ Resume \/ Enter \/ LeaguesFetched \/ PhaseEnds
  \/ Join \/ JoinTimesOut \/ Update \/ Settle \/ Projected \/ CloseAll \/ Exit

WorkerStep(w) == WorkerBorrows(w) \/ WorkerEnds(w)

BeatStep ==
  \/ TickBorrows \/ TickUpdates \/ TickCommits \/ BeatEnds \/ NextTick

Faults == MainFails \/ TickRaises

Ended == main = "ended" /\ UNCHANGED vars

Next == MainStep \/ (\E w \in Workers : WorkerStep(w)) \/ BeatStep \/ Faults \/ Ended

Spec == Init /\ [][Next]_vars

(* The process's threads are scheduled, and Postgres executes a statement    *)
(* that need not wait: no failure is needed to get on.                       *)
FairSpec ==
  Spec /\ WF_vars(MainStep) /\ WF_vars(BeatStep) /\ \A w \in Workers : WF_vars(WorkerStep(w))

-----------------------------------------------------------------------------
(* Properties.                                                             *)

(* No getconn ever meets an exhausted pool, so that none of the exceptions   *)
(* of one can fail a task, a run or a tick: the workers, the heartbeat and   *)
(* the main thread together never hold all that the pool may open.           *)
NeverExhausted == Cardinality(used) < MaxConn

(* A phase's connections are back when the body is left, whatever failed in  *)
(* it, and only a tick's can still be lent out when the pool is closed.      *)
ConnectionsReturned ==
  /\ main \notin Body => used \subseteq {Main, Beat}
  /\ main \in {"closeall", "exit", "ended"} => used \subseteq {Beat}

(* stop() does what its with-block promises: the heartbeat does not touch a  *)
(* run that finish_run has settled, unless a tick held up by the database    *)
(* made stop() give up.                                                      *)
LateOnlyIfAbandoned == late => abandoned

(* The heartbeat lives as long as the body does, whichever ticks fail: a     *)
(* monitor never takes a run for dead because of one lost transaction.       *)
HeartbeatLives == main \in Body => hb \notin {"off", "ended"}

(* The process ends, by itself, whatever fails: finish_run does not wait for *)
(* ever for a tick's row lock, nor stop() for a tick that waits.             *)
ProcessEnds == <>(main = "ended")
=============================================================================
