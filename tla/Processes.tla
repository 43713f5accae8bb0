------------------------------ MODULE Processes -----------------------------
(***************************************************************************)
(* The processes of Migrations, on to their end: each ingests catalogues,  *)
(* and one whose run has succeeded rebuilds the matcher's table, in the    *)
(* sources database (projection.py): it reads the newest catalogue of each *)
(* league in one statement, and replaces the table in one transaction.     *)
(* Runner goes into the ingestion of one process; this is about several.   *)
(***************************************************************************)
EXTENDS Migrations

CONSTANTS
  Leagues,
  MaxVersion    \* bound on the catalogues of a league

ASSUME ProcessesAssumption == MaxVersion \in Nat

VARIABLES
  bronze,    \* the newest catalogue of each league in bronze_fixtures
  rows,      \* what each process has read of them
  snapshot,  \* the catalogues apifootball_events was built from
  past,      \* history: what bronze has been
  together   \* history: two processes have been at their projections at once

projectionVars == <<bronze, rows, snapshot, past, together>>
vars == <<migrationVars, projectionVars>>

Versions == [Leagues -> 0..MaxVersion]
Nothing  == [l \in Leagues |-> 0]

ProcessesTypeOK ==
  /\ TypeOK
  /\ {bronze, snapshot} \subseteq Versions
  /\ rows \in [Processes -> Versions]
  /\ past \subseteq Versions
  /\ together \in BOOLEAN
  /\ \A o \in Objects : maker[o] # Nobody => pc[maker[o]] \notin {"off"} \cup Ended

ProcessesInit ==
  /\ Init
  /\ bronze = Nothing /\ snapshot = Nothing
  /\ rows = [p \in Processes |-> Nothing]
  /\ past = {Nothing}
  /\ together = FALSE

-----------------------------------------------------------------------------
Projecting == {"events", "wait_events", "truncate", "replace"}

(* The first file makes ingestion_runs: without it the run row cannot be     *)
(* inserted, and the process ends there.                                     *)
StartRun(p) ==
  /\ pc[p] \in {"skipped", "migrated"}
  /\ Goto(p, IF 1 \in made THEN "ingest" ELSE "refused")
  /\ UNCHANGED <<made, recorded, maker, already, file, projectionVars>>

(* A league's catalogue has changed, and is landed. *)
Ingest(p) ==
  /\ pc[p] = "ingest"
  /\ \E l \in Leagues :
       /\ bronze[l] < MaxVersion
       /\ bronze' = [bronze EXCEPT ![l] = @ + 1]
  /\ past' = past \cup {bronze'}
  /\ UNCHANGED <<migrationVars, rows, snapshot, together>>

(* The run is not to be projected. *)
LeaveSnapshot(p) ==
  /\ pc[p] = "ingest"
  /\ Goto(p, "done")
  /\ UNCHANGED <<made, recorded, maker, already, file, projectionVars>>

(* Plausible bug: DISTINCT ON without an ORDER BY takes any row of a league. *)
AnyRow == {v \in Versions : \A l \in Leagues : v[l] <= bronze[l]}

(* DISTINCT ON (league_id, season) .. ORDER BY .. ingested_at DESC *)
LatestFixtures == {bronze}

(* One statement reads it all, however it is fetched. *)
ReadRows(p) ==
  /\ pc[p] = "ingest"
  /\ \E v \in LatestFixtures : rows' = [rows EXCEPT ![p] = v]
  /\ together' = (together \/ \E q \in Processes : pc[q] \in Projecting)
  /\ Goto(p, "events")
  /\ UNCHANGED <<made, recorded, maker, already, file, bronze, snapshot, past>>

CreateEvents(p) ==
  /\ \/ pc[p] = "events" /\ Make(p, Events, "wait_events", "truncate")
     \/ pc[p] = "wait_events" /\ Waited(p, Events, "truncate")
  /\ UNCHANGED <<made, recorded, already, file, projectionVars>>

(* TRUNCATE waits for every other transaction on the table. *)
TakesTable(p) == maker[Events] \in {Nobody, p} /\ maker' = [maker EXCEPT ![Events] = p]

Truncate(p) ==
  /\ pc[p] = "truncate"
  /\ TakesTable(p)
  /\ Goto(p, "replace")
  /\ UNCHANGED <<made, recorded, already, file, projectionVars>>

(* The inserts and the COMMIT. *)
Replace(p) ==
  /\ pc[p] = "replace"
  /\ made' = Committed(p) /\ Release(p)
  /\ snapshot' = rows[p]
  /\ Goto(p, "done") \/ (MayFail /\ Goto(p, "failed"))
  /\ UNCHANGED <<recorded, already, file, bronze, rows, past, together>>

Project(p) == ReadRows(p) \/ CreateEvents(p) \/ Truncate(p) \/ Replace(p)

(* A process's own steps. *)
ProcessStep(p) ==
  \/ Migrate(p) /\ UNCHANGED projectionVars
  \/ StartRun(p) \/ LeaveSnapshot(p) \/ Project(p)

Interrupt(p) == Fail(p) /\ UNCHANGED projectionVars

AllEnded == (\A p \in Processes : pc[p] \in Ended) /\ UNCHANGED vars

Next ==
  \/ \E p \in Processes :
       \/ Launch(p) /\ UNCHANGED projectionVars
       \/ ProcessStep(p) \/ Ingest(p) \/ Interrupt(p)
  \/ AllEnded

Spec == ProcessesInit /\ [][Next]_vars

(* A process that need not wait goes on; nothing makes it be launched, find  *)
(* news or fail.                                                             *)
FairSpec == Spec /\ \A p \in Processes : WF_vars(ProcessStep(p))

-----------------------------------------------------------------------------
(* Properties.                                                             *)

(* The matcher's table never mixes: it is built from all the catalogues of   *)
(* one moment, whichever processes ingest, project, fail or die meanwhile.   *)
SnapshotOfOneMoment == snapshot \in past

(* As long as no two processes have been at their projections at once, no    *)
(* rebuild takes a league back to a catalogue older than the one it had.     *)
(* (Two that overlap may read in one order and replace in the other.)        *)
SnapshotAdvances ==
  [][~together => \A l \in Leagues : snapshot'[l] >= snapshot[l]]_vars

(* Every process that is launched ends: no two wait for each other's tables. *)
ProcessesEnd ==
  \A p \in Processes : pc[p] \notin {"off"} \cup Ended ~> pc[p] \in Ended
=============================================================================
