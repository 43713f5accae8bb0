-------------------------- MODULE LifecycleProofs ---------------------------
(***************************************************************************)
(* Proofs about Lifecycle, for any size of the thread pool and any amount  *)
(* of work.                                                                *)
(***************************************************************************)
EXTENDS Lifecycle, FiniteSetTheorems, TLAPS

(* Who may hold a connection where: the workers only inside a phase, where   *)
(* the main thread holds none.                                               *)
Lent ==
  /\ used \cap Workers # {} => main \in Phases
  /\ closed => main \in {"exit", "ended"}

(* The heartbeat lives from __enter__ to __exit__, and has ended afterwards  *)
(* unless stop() gave it up.                                                 *)
Beating ==
  /\ main \in {"migrate", "start_run", "enter"} => hb = "off" /\ ~stopping
  /\ main \in Body => hb \notin {"off", "ended"} /\ ~stopping
  /\ main \in {"finish", "settle", "project", "closeall", "exit", "ended"} /\ ~abandoned =>
       hb \in {"off", "ended"}

IInv == TypeOK /\ Lent /\ Beating /\ LateOnlyIfAbandoned

-----------------------------------------------------------------------------
(* The three kinds of threads are different ones. *)
LEMMA ThreadsDiffer == Main \notin Workers /\ Beat \notin Workers /\ Main # Beat
BY LifecycleAssumption DEF Main, Beat, Workers, ThreadPoolSizes

(* A worker's next step keeps the invariant. *)
LEMMA WorkerKeeps ==
  ASSUME IInv, NEW w \in Workers, WorkerStep(w)
  PROVE  IInv'
<1> USE DEF IInv, TypeOK, Lent, Beating, LateOnlyIfAbandoned, Threads, Phases, Body
<1> w # Main /\ w # Beat
  BY ThreadsDiffer
<1>1. CASE WorkerBorrows(w)
  BY <1>1, LifecycleAssumption DEF WorkerBorrows, beatVars, Holds
<1>2. CASE WorkerEnds(w)
  <2>1. main \in Phases /\ ~closed
    BY <1>2 DEF WorkerEnds, Ends, Holds
  <2>2. used' = used \ {w}
    BY <1>2, <2>1 DEF WorkerEnds, Ends, GiveBack
  <2>3. todo' \in 0..PhaseWork /\ verdict' \in {"succeeded", "partial", "failed"}
    BY <1>2, LifecycleAssumption DEF WorkerEnds
  <2> QED BY <1>2, <2>1, <2>2, <2>3 DEF WorkerEnds, beatVars
<1> QED BY <1>1, <1>2 DEF WorkerStep

(* A step of the heartbeat keeps the invariant. *)
LEMMA BeatKeeps ==
  ASSUME IInv, BeatStep \/ TickRaises
  PROVE  IInv'
<1> USE ThreadsDiffer DEF IInv, TypeOK, Lent, Beating, LateOnlyIfAbandoned, Threads, Phases, Body, Up
<1>1. CASE TickBorrows
  BY <1>1 DEF TickBorrows, BeatPoints, Swallowed
<1>2. CASE TickUpdates
  BY <1>2 DEF TickUpdates, BeatPoints
<1>3. CASE TickCommits
  BY <1>3 DEF TickCommits, BeatPoints, GiveBack
<1>4. CASE TickRaises
  BY <1>4 DEF TickRaises, BeatPoints, GiveBack, Swallowed, RowReleased
<1>5. CASE BeatEnds
  BY <1>5 DEF BeatEnds, BeatPoints
<1>6. CASE NextTick
  BY <1>6 DEF NextTick, BeatPoints
<1> QED BY <1>1, <1>2, <1>3, <1>4, <1>5, <1>6 DEF BeatStep

(* The steps of the main thread that neither borrow nor give back. *)
LEMMA MainMoves ==
  ASSUME IInv,
         \/ Resume \/ Enter \/ PhaseEnds \/ Join \/ JoinTimesOut \/ Update \/ CloseAll \/ Exit
  PROVE  IInv'
<1> USE ThreadsDiffer DEF IInv, TypeOK, Lent, Beating, LateOnlyIfAbandoned, Threads, Phases,
          Body, MainPoints, beatVars
<1>1. CASE Resume
  BY <1>1 DEF Resume, Go, Holds
<1>2. CASE Enter
  BY <1>2 DEF Enter, BeatPoints
<1>3. CASE PhaseEnds
  <2>1. Main \notin used /\ used \cap Workers = {}
    BY <1>3 DEF PhaseEnds, Awaited, Holds
  <2>2. CASE verdict = "failed"
    BY <1>3, <2>1, <2>2 DEF PhaseEnds, Raise, Handler
  <2>3. CASE verdict # "failed" /\ main = "phaseA"
    BY <1>3, <2>1, <2>3 DEF PhaseEnds, StartPhase, Go
  <2>4. CASE verdict # "failed" /\ main # "phaseA"
    <3>1. main' = "join" /\ stopping' = TRUE /\ verdict' \in {"succeeded", "partial"} /\ todo' = todo
      BY <1>3, <2>4 DEF PhaseEnds
    <3> QED BY <1>3, <2>1, <3>1 DEF PhaseEnds
  <2> QED BY <2>2, <2>3, <2>4
<1>4. CASE Join
  BY <1>4 DEF Join, Joined
<1>5. CASE JoinTimesOut
  BY <1>5 DEF JoinTimesOut
<1>6. CASE Update
  BY <1>6 DEF Update
<1>7. CASE CloseAll
  BY <1>7 DEF CloseAll
<1>8. CASE Exit
  BY <1>8 DEF Exit
<1> QED BY <1>1, <1>2, <1>3, <1>4, <1>5, <1>6, <1>7, <1>8

(* The steps with which the main thread borrows a connection or ends its     *)
(* transaction.                                                              *)
LEMMA MainTransacts ==
  ASSUME IInv,
         Borrows \/ MainFails \/ Migrated \/ Started \/ LeaguesFetched \/ Settle \/ Projected
  PROVE  IInv'
<1> USE ThreadsDiffer DEF IInv, TypeOK, Lent, Beating, LateOnlyIfAbandoned, Threads, Phases,
          Body, MainPoints, beatVars
<1>0. /\ main \in {"migrate", "start_run", "leagues", "finish", "settle", "project"}
      /\ ~closed /\ used \cap Workers = {}
  BY DEF Borrows, MainFails, Migrated, Started, LeaguesFetched, Settle, Projected, Ends, Holds
<1>1. CASE Borrows
  <2>1. CASE Lends
    BY <1>0, <1>1, <2>1 DEF Borrows
  <2>2. CASE ~Lends
    BY <1>0, <1>1, <2>2 DEF Borrows, Raise, Handler, Holds
  <2> QED BY <2>1, <2>2
<1>2. CASE ~Borrows
  <2>1. used' = used \ {Main}
    BY <1>0, <1>2 DEF MainFails, Migrated, Started, LeaguesFetched, Settle, Projected, Ends, GiveBack
  <2>2. CASE Migrated
    BY <1>0, <2>1, <2>2 DEF Migrated, Go
  <2>3. CASE Started
    BY <1>0, <2>1, <2>3 DEF Started, Go
  <2>4. CASE LeaguesFetched
    BY <1>0, <2>1, <2>4 DEF LeaguesFetched, Go, StartPhase
  <2>5. CASE Settle
    <3>1. /\ row' \in {row, verdict}
          /\ main' \in {"project", "closeall"} /\ UNCHANGED <<verdict, stopping>>
      BY <2>5 DEF Settle, Go
    <3> QED BY <1>0, <2>1, <2>5, <3>1 DEF Settle
  <2>6. CASE Projected
    BY <1>0, <2>1, <2>6 DEF Projected, Go
  <2>7. CASE MainFails
    BY <1>0, <2>1, <2>7 DEF MainFails, Raise, Handler
  <2> QED BY <1>2, <2>2, <2>3, <2>4, <2>5, <2>6, <2>7
<1> QED BY <1>1, <1>2

LEMMA Inductive == IInv /\ [Next]_vars => IInv'
<1> SUFFICES ASSUME IInv, [Next]_vars PROVE IInv'
  OBVIOUS
<1>1. CASE MainStep
  BY <1>1, MainMoves, MainTransacts DEF MainStep
<1>2. CASE \E w \in Workers : WorkerStep(w)
  BY <1>2, WorkerKeeps
<1>3. CASE BeatStep
  BY <1>3, BeatKeeps
<1>4. CASE Faults
  BY <1>4, MainTransacts, BeatKeeps DEF Faults
<1>5. CASE UNCHANGED vars
  BY <1>5 DEF vars, IInv, TypeOK, Lent, Beating, LateOnlyIfAbandoned
<1> QED BY <1>1, <1>2, <1>3, <1>4, <1>5 DEF Next, Ended

LEMMA Initially == Init => IInv
<1> SUFFICES ASSUME Init PROVE IInv
  OBVIOUS
<1>1. TypeOK
  <2>1. todo \in 0..PhaseWork
    BY LifecycleAssumption DEF Init
  <2>2. main \in MainPoints
    BY DEF Init, MainPoints
  <2> QED BY <2>1, <2>2 DEF Init, TypeOK, BeatPoints
<1>2. Lent /\ Beating /\ LateOnlyIfAbandoned
  BY DEF Init, Lent, Beating, LateOnlyIfAbandoned, Body, Phases
<1> QED BY <1>1, <1>2 DEF IInv

LEMMA Invariance == Spec => []IInv
BY Initially, Inductive, PTL DEF Spec

(* The process's state is well typed: in particular no failure leaves the    *)
(* row locked or the heartbeat's connection out of the pool.                 *)
THEOREM TypeCorrect == Spec => []TypeOK
BY Invariance, PTL DEF IInv

-----------------------------------------------------------------------------
(* How many connections can be lent out, wherever the main thread is. *)
LEMMA FewLent == IInv => NeverExhausted
<1> SUFFICES ASSUME IInv PROVE Cardinality(used) < MaxConn
  BY DEF NeverExhausted
<1>1. /\ ThreadPoolSize \in Nat /\ ThreadPoolSize > 0
      /\ MaxConn \in Nat /\ MaxConn >= 4 /\ MaxConn > ThreadPoolSize + 1
  BY LifecycleAssumption DEF ThreadPoolSizes, MaxConn
<1>2. CASE main \in Phases
  <2>1. used \subseteq 1..Beat
    BY <1>1, <1>2 DEF IInv, TypeOK, Threads, Workers, Beat, Main, Phases
  <2>2. IsFiniteSet(1..Beat) /\ Cardinality(1..Beat) = ThreadPoolSize + 1
    BY <1>1, FS_Interval DEF Beat
  <2>3. Cardinality(used) <= ThreadPoolSize + 1 /\ Cardinality(used) \in Nat
    BY <2>1, <2>2, FS_Subset, FS_CardinalityType
  <2> QED BY <1>1, <2>3
<1>3. CASE main \notin Phases
  <2>1. used \subseteq {Main, Beat}
    BY <1>3 DEF IInv, TypeOK, Lent, Threads
  <2>2. IsFiniteSet({Main, Beat}) /\ Cardinality({Main, Beat}) <= 2
    <3>1. IsFiniteSet({Main}) /\ Cardinality({Main}) = 1
      BY FS_Singleton
    <3>2. /\ IsFiniteSet({Main} \cup {Beat})
          /\ Cardinality({Main} \cup {Beat}) <= 2
      BY <3>1, ThreadsDiffer, FS_AddElement
    <3> QED BY <3>2
  <2>3. Cardinality(used) <= 2 /\ Cardinality(used) \in Nat
    <3>1. IsFiniteSet(used) /\ Cardinality(used) <= Cardinality({Main, Beat})
      BY <2>1, <2>2, FS_Subset
    <3> QED BY <3>1, <2>2, FS_CardinalityType
  <2> QED BY <1>1, <2>3
<1> QED BY <1>2, <1>3

(* However many workers there are, the pool that from_settings sizes for     *)
(* them never runs out.                                                      *)
THEOREM PoolSuffices == Spec => []NeverExhausted
BY Invariance, FewLent, PTL

(* Connections come back: to the pool before the body is left, and all but a *)
(* given-up tick's before it is closed.                                      *)
THEOREM AllReturned == Spec => []ConnectionsReturned
<1>1. IInv => ConnectionsReturned
  BY ThreadsDiffer DEF IInv, TypeOK, Lent, ConnectionsReturned, Body, Phases, Threads
<1> QED BY <1>1, Invariance, PTL

(* The heartbeat covers the body, whichever of its ticks fail. *)
THEOREM BodyIsCovered == Spec => []HeartbeatLives
<1>1. IInv => HeartbeatLives
  BY DEF IInv, Beating, HeartbeatLives
<1> QED BY <1>1, Invariance, PTL

(* After finish_run the row is left alone, but for a tick that stop() gave up. *)
THEOREM SettledIsQuiet == Spec => []LateOnlyIfAbandoned
BY Invariance, PTL DEF IInv
-----------------------------------------------------------------------------
(* What makes the process end, short of the fairness that drives it.         *)

(* The main thread has a connection while finish_run's transaction is open,  *)
(* stop() has set the event before it joins, and only a run that succeeded   *)
(* is projected.                                                             *)
Ending ==
  /\ main = "settle" => Holds(Main)
  /\ main = "join" => hb # "off" /\ stopping
  /\ main = "project" => verdict = "succeeded"

(* Whoever waits, waits for one that does not: finish_run's UPDATE for a tick *)
(* that has only its COMMIT left; a tick's UPDATE for finish_run with only    *)
(* its COMMIT left; stop() for a thread that has ended, may yet be given up,  *)
(* or will find the event set.                                                *)
NoCircularWait ==
  /\ main = "finish" /\ Holds(Main) /\ rowLock # {} => hb = "commit" /\ ~closed
  /\ hb = "update" /\ ~closed /\ main = "settle" => Holds(Main)
  /\ main = "join" => \/ Joined
                      \/ hb \in {"tick", "update", "commit"}
                      \/ hb = "wait" /\ stopping

MainRank(point) ==
  CASE point = "migrate" -> 1
    [] point = "start_run" -> 2
    [] point = "enter" -> 3
    [] point = "leagues" -> 4
    [] point = "phaseA" -> 5
    [] point = "phaseB" -> 6
    [] point = "join" -> 7
    [] point = "finish" -> 8
    [] point = "settle" -> 9
    [] point = "project" -> 10
    [] point = "closeall" -> 11
    [] point = "exit" -> 12
    [] OTHER -> 13

(* The main thread goes back once at most: when the first exception takes it  *)
(* to the handler, and from then on the verdict is 'failed'.                  *)
Onward ==
  [][/\ main' # main => \/ MainRank(main') > MainRank(main)
                        \/ verdict # "failed" /\ verdict' = "failed"
     /\ verdict = "failed" => verdict' = "failed"]_vars

LEMMA OthersLeaveMain ==
  ASSUME IInv, (\E w \in Workers : WorkerStep(w)) \/ BeatStep \/ TickRaises
  PROVE  /\ UNCHANGED <<main, stopping>>
         /\ Holds(Main)' <=> Holds(Main)
         /\ main \notin Phases => UNCHANGED verdict
         /\ verdict = "failed" => verdict' = "failed"
         /\ hb # "off" => hb' # "off"
<1>1. ASSUME NEW w \in Workers, WorkerStep(w)
      PROVE  /\ UNCHANGED <<main, stopping, hb>> /\ main \in Phases
             /\ Holds(Main)' <=> Holds(Main)
             /\ verdict = "failed" => verdict' = "failed"
  <2>1. w # Main
    BY ThreadsDiffer
  <2>2. CASE WorkerBorrows(w)
    BY <2>1, <2>2 DEF WorkerBorrows, beatVars, Holds
  <2>3. CASE WorkerEnds(w)
    <3>1. UNCHANGED <<main, stopping, hb>> /\ main \in Phases
      BY <2>3 DEF WorkerEnds, Ends, Holds, beatVars, IInv, Lent
    <3>2. Holds(Main)' <=> Holds(Main)
      BY <2>1, <2>3 DEF WorkerEnds, Ends, GiveBack, Holds
    <3>3. verdict = "failed" => verdict' = "failed"
      BY <2>3 DEF WorkerEnds
    <3> QED BY <3>1, <3>2, <3>3
  <2> QED BY <1>1, <2>2, <2>3 DEF WorkerStep
<1>2. ASSUME BeatStep \/ TickRaises
      PROVE  /\ UNCHANGED <<main, stopping, verdict>> /\ hb' # "off"
             /\ Holds(Main)' <=> Holds(Main)
  <2>1. UNCHANGED <<main, stopping, verdict>> /\ hb' # "off"
    BY <1>2 DEF BeatStep, TickBorrows, TickUpdates, TickCommits, TickRaises, BeatEnds,
                NextTick, Swallowed
  <2>2. used' \in {used, used \cup {Beat}, used \ {Beat}}
    BY <1>2 DEF BeatStep, TickBorrows, TickUpdates, TickCommits, TickRaises, BeatEnds,
                NextTick, GiveBack
  <2> QED BY <2>1, <2>2, ThreadsDiffer DEF Holds
<1> QED BY <1>1, <1>2

LEMMA EndingMain == ASSUME IInv, Ending, MainStep \/ MainFails PROVE Ending'
<1> USE DEF Ending
<1>1. CASE Borrows
  BY <1>1, ThreadsDiffer DEF Borrows, Raise, Handler, Holds, Body, Phases, IInv, TypeOK, Beating
<1>2. CASE Migrated \/ Started \/ Resume \/ Enter \/ LeaguesFetched
  BY <1>2 DEF Migrated, Started, Resume, Enter, LeaguesFetched, StartPhase, Go
<1>3. CASE PhaseEnds
  <2>1. main \in Body /\ UNCHANGED hb
    BY <1>3 DEF PhaseEnds, Body
  <2>2. hb' # "off"
    BY <2>1 DEF IInv, Beating
  <2>3. main' = "phaseB" \/ (main' = "join" /\ stopping' = TRUE)
    BY <1>3, <2>1 DEF PhaseEnds, Raise, Handler, StartPhase, Go, Body, Phases
  <2> QED BY <2>2, <2>3
<1>4. CASE Join \/ JoinTimesOut \/ CloseAll \/ Exit
  BY <1>4 DEF Join, JoinTimesOut, CloseAll, Exit
<1>5. CASE Update
  BY <1>5 DEF Update, Holds
<1>6. CASE Settle
  <2>1. main' = IF verdict = "succeeded" /\ Projects THEN "project" ELSE "closeall"
    BY <1>6 DEF Settle, Go
  <2>2. verdict' = verdict
    BY <1>6 DEF Settle, Go
  <2> QED BY <2>1, <2>2
<1>7. CASE Projected
  BY <1>7 DEF Projected, Go
<1>8. CASE MainFails
  <2>1. main' = Handler /\ (Handler = "join" => stopping') /\ UNCHANGED hb
    BY <1>8 DEF MainFails, Raise
  <2>2. main' = "join" => main \in Body
    BY <2>1 DEF Handler
  <2>3. main' \in {"closeall", "join", "finish"}
    BY <2>1 DEF Handler
  <2>4. stopping' \in BOOLEAN
    BY <1>8, MainTransacts DEF IInv, TypeOK
  <2> QED BY <2>1, <2>2, <2>3, <2>4 DEF IInv, Beating
<1> QED BY <1>1, <1>2, <1>3, <1>4, <1>5, <1>6, <1>7, <1>8 DEF MainStep

LEMMA EndingStep == IInv /\ Ending /\ [Next]_vars => Ending'
<1> SUFFICES ASSUME IInv, Ending, [Next]_vars PROVE Ending'
  OBVIOUS
<1>1. CASE (\E w \in Workers : WorkerStep(w)) \/ BeatStep \/ TickRaises
  BY <1>1, OthersLeaveMain DEF Ending, Phases
<1>2. CASE Ended \/ UNCHANGED vars
  BY <1>2 DEF Ended, vars, Ending, Holds
<1> QED BY <1>1, <1>2, EndingMain DEF Next, Faults

LEMMA EndingInvariance == Spec => []Ending
<1>1. Init => Ending
  BY DEF Init, Ending
<1> QED BY <1>1, EndingStep, Invariance, PTL DEF Spec

(* The row of the run and the join of stop() never make the main thread and   *)
(* the heartbeat wait for each other, whatever fails and whoever is late.     *)
THEOREM NobodyWaitsInACircle == Spec => []NoCircularWait
<1>1. IInv /\ Ending => NoCircularWait
  <2> SUFFICES ASSUME IInv, Ending PROVE NoCircularWait
    OBVIOUS
  <2>1. main = "finish" /\ rowLock # {} => hb = "commit" /\ ~closed
    BY DEF IInv, TypeOK, Lent
  <2>2. main = "join" => hb \in {"tick", "update", "commit", "wait", "ended"} /\ stopping
    BY DEF IInv, TypeOK, BeatPoints, Ending
  <2> QED BY <2>1, <2>2 DEF NoCircularWait, Ending, Joined
<1> QED BY <1>1, EndingInvariance, Invariance, PTL

LEMMA MainOnward ==
  ASSUME IInv, Ending, MainStep \/ MainFails
  PROVE  /\ main' # main => \/ MainRank(main') > MainRank(main)
                            \/ verdict # "failed" /\ verdict' = "failed"
         /\ verdict = "failed" => verdict' = "failed"
<1>1. CASE Borrows
  <2>1. CASE UNCHANGED <<main, verdict>>
    BY <2>1
  <2>2. CASE Raise
    BY <1>1, <2>2 DEF Borrows, Raise, Handler, Body, Phases, MainRank, Ending
  <2> QED BY <1>1, <2>1, <2>2 DEF Borrows
<1>2. CASE MainFails
  <2>1. main \in {"migrate", "start_run", "leagues", "finish", "settle", "project"}
    BY <1>2 DEF MainFails, Ends, Holds, IInv, TypeOK
  <2> QED BY <1>2, <2>1 DEF MainFails, Raise, Handler, Body, Phases, MainRank, Ending
<1>3. CASE Migrated \/ Started \/ Resume \/ Enter \/ LeaguesFetched
  <2>1. /\ \/ main = "migrate" /\ main' = "start_run"
           \/ main = "start_run" /\ main' = "enter"
           \/ main = "enter" /\ main' = "leagues"
           \/ main = "leagues" /\ main' = "phaseA"
        /\ verdict' = verdict
    BY <1>3 DEF Migrated, Started, Resume, Enter, LeaguesFetched, StartPhase, Go
  <2> QED BY <2>1 DEF MainRank
<1>4. CASE PhaseEnds
  <2>1. main \in Phases
    BY <1>4 DEF PhaseEnds
  <2>2. CASE verdict = "failed"
    BY <1>4, <2>1, <2>2 DEF PhaseEnds, Raise, Handler, Body, Phases, MainRank
  <2>3. CASE verdict # "failed" /\ main = "phaseA"
    BY <1>4, <2>3 DEF PhaseEnds, StartPhase, Go, MainRank
  <2>4. CASE verdict # "failed" /\ main # "phaseA"
    BY <1>4, <2>1, <2>4 DEF PhaseEnds, Phases, MainRank
  <2> QED BY <2>2, <2>3, <2>4
<1>5. CASE Join \/ JoinTimesOut \/ Update \/ CloseAll \/ Exit
  BY <1>5 DEF Join, JoinTimesOut, Update, CloseAll, Exit, MainRank
<1>6. CASE Settle
  BY <1>6 DEF Settle, Go, MainRank
<1>7. CASE Projected
  BY <1>7 DEF Projected, Go, MainRank
<1> QED BY <1>1, <1>2, <1>3, <1>4, <1>5, <1>6, <1>7 DEF MainStep

(* The process does not loop: the handler of a failed run is reached once, and *)
(* its own failure, or that of its finish_run, only leads to the pool's end.   *)
THEOREM ProcessGoesOnward == Spec => Onward
<1> DEFINE P == /\ main' # main => \/ MainRank(main') > MainRank(main)
                                   \/ verdict # "failed" /\ verdict' = "failed"
                /\ verdict = "failed" => verdict' = "failed"
<1>1. IInv /\ Ending /\ [Next]_vars => [P]_vars
  <2> SUFFICES ASSUME IInv, Ending, Next PROVE P
    OBVIOUS
  <2>1. CASE (\E w \in Workers : WorkerStep(w)) \/ BeatStep \/ TickRaises
    BY <2>1, OthersLeaveMain
  <2>2. CASE Ended
    BY <2>2 DEF Ended, vars
  <2> QED BY <2>1, <2>2, MainOnward DEF Next, Faults
<1> QED BY <1>1, EndingInvariance, Invariance, PTL DEF Spec, Onward
=============================================================================
