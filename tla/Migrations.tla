----------------------------- MODULE Migrations -----------------------------
(***************************************************************************)
(* apply_migrations (db/migrations.py) by the processes that start on one  *)
(* database: a scheduled run, a backfill by hand, a restart of either.     *)
(*                                                                         *)
(* Postgres runs at READ COMMITTED. CREATE TABLE IF NOT EXISTS looks for   *)
(* the table first; if it is not there but another transaction is making   *)
(* it, the statement waits for that transaction, and raises if it commits. *)
(* The tables of a file are made by its first statements or found there,   *)
(* and stand for one object.                                               *)
(***************************************************************************)
EXTENDS Naturals

CONSTANTS
  Processes,
  Nobody,
  NumFiles,     \* the *.sql files, in lexical order
  MaySkip,      \* may a process be launched with --no-migrate?
  MayFail       \* may a statement fail, or a process be killed?

ASSUME MigrationsAssumption ==
  /\ Nobody \notin Processes
  /\ NumFiles \in Nat
  /\ {MaySkip, MayFail} \subseteq BOOLEAN

Files    == 1..NumFiles
Tracking == 0                    \* the table schema_migrations
Events   == NumFiles + 1         \* apifootball_events, in the sources database
Objects  == 0..(NumFiles + 1)

VARIABLES
  made,      \* the objects that are committed
  recorded,  \* the rows of schema_migrations
  maker,     \* whose open transaction has made, or locked, each object
  pc,        \* where each process is
  already,   \* the files it found recorded
  file       \* the file it is at

migrationVars == <<made, recorded, maker, pc, already, file>>

Tracked   == {"create", "wait_create", "select", "commit_tracking"}
InFile    == {"sql", "wait_sql", "record", "commit"}
Migrating == Tracked \cup InFile
Working   == {"skipped", "migrated", "ingest", "events", "wait_events", "truncate",
              "replace"}
Ended     == {"done", "refused", "failed"}
Places    == {"off"} \cup Migrating \cup Working \cup Ended

TypeOK ==
  /\ made \subseteq Objects
  /\ recorded \subseteq Files
  /\ maker \in [Objects -> Processes \cup {Nobody}]
  /\ pc \in [Processes -> Places]
  /\ already \in [Processes -> SUBSET Files]
  /\ file \in [Processes -> Objects]

Init ==
  /\ made = {} /\ recorded = {}
  /\ maker = [o \in Objects |-> Nobody]
  /\ pc = [p \in Processes |-> "off"]
  /\ already = [p \in Processes |-> {}]
  /\ file = [p \in Processes |-> 0]

-----------------------------------------------------------------------------
Goto(p, there) == pc' = [pc EXCEPT ![p] = there]

(* Plausible bug: the connection goes back with its transaction open. *)
KeepsLocks(p) == UNCHANGED maker

(* The transaction ends, one way or the other, and its locks with it. *)
Release(p) == maker' = [o \in Objects |-> IF maker[o] = p THEN Nobody ELSE maker[o]]

Refuse(p) == Release(p) /\ Goto(p, "refused")

(* CREATE TABLE IF NOT EXISTS *)
Make(p, o, wait, then) ==
  \/ /\ o \in made
     /\ Goto(p, then) /\ UNCHANGED maker
  \/ /\ o \notin made /\ maker[o] = Nobody
     /\ Goto(p, then) /\ maker' = [maker EXCEPT ![o] = p]
  \/ /\ o \notin made /\ maker[o] # Nobody
     /\ Goto(p, wait) /\ UNCHANGED maker

(* The transaction it waited for has ended: if it committed, this one raises. *)
Waited(p, o, then) ==
  /\ maker[o] = Nobody
  /\ IF o \in made THEN Refuse(p)
     ELSE Goto(p, then) /\ maker' = [maker EXCEPT ![o] = p]

(* What p's transaction has made is there for everybody. *)
Committed(p) == made \cup {o \in Objects : maker[o] = p}

(* A process is launched; without files, or told so, it does not migrate. *)
Launch(p) ==
  /\ pc[p] = "off"
  /\ \/ NumFiles > 0 /\ Goto(p, "create")
     \/ NumFiles = 0 /\ Goto(p, "migrated")
     \/ MaySkip /\ Goto(p, "skipped")
  /\ UNCHANGED <<made, recorded, maker, already, file>>

Create(p) ==
  /\ \/ pc[p] = "create" /\ Make(p, Tracking, "wait_create", "select")
     \/ pc[p] = "wait_create" /\ Waited(p, Tracking, "select")
  /\ UNCHANGED <<made, recorded, already, file>>

Select(p) ==
  /\ pc[p] = "select"
  /\ already' = [already EXCEPT ![p] = recorded]
  /\ Goto(p, "commit_tracking")
  /\ UNCHANGED <<made, recorded, maker, file>>

(* Plausible bug: the loop goes on from the newest file it found recorded,   *)
(* whether that was in the same state as now or not, and skips one.          *)
PendingSkippingOne(p, from) == {f \in Files : f > from + 1 /\ f \notin already[p]}

(* The files the loop still has to apply, those recorded before it left out. *)
Pending(p, from) == {f \in Files : f > from /\ f \notin already[p]}

(* On to the next file, or out of apply_migrations. *)
NextFile(p, from) ==
  \/ /\ Pending(p, from) = {}
     /\ Goto(p, "migrated") /\ UNCHANGED file
  \/ \E f \in Pending(p, from) :
       /\ \A g \in Pending(p, from) : f <= g
       /\ Goto(p, "sql") /\ file' = [file EXCEPT ![p] = f]

CommitTracking(p) ==
  /\ pc[p] = "commit_tracking"
  /\ made' = Committed(p) /\ Release(p)
  /\ NextFile(p, 0)
  /\ UNCHANGED <<recorded, already>>

Sql(p) ==
  /\ \/ pc[p] = "sql" /\ Make(p, file[p], "wait_sql", "record")
     \/ pc[p] = "wait_sql" /\ Waited(p, file[p], "record")
  /\ UNCHANGED <<made, recorded, already, file>>

(* Plausible bug: the row is inserted with ON CONFLICT DO NOTHING. *)
NeverConflicts(p) == FALSE

(* filename is the primary key. *)
Conflicts(p) == file[p] \in recorded

(* Who gets here has made the file's tables itself, or finds the row: nobody *)
(* else has an uncommitted one.                                              *)
Record(p) ==
  /\ pc[p] = "record"
  /\ IF Conflicts(p) THEN Refuse(p) ELSE Goto(p, "commit") /\ UNCHANGED maker
  /\ UNCHANGED <<made, recorded, already, file>>

Commit(p) ==
  /\ pc[p] = "commit"
  /\ made' = Committed(p) /\ Release(p)
  /\ recorded' = recorded \cup {file[p]}
  /\ \/ NextFile(p, file[p])
     \/ MayFail /\ Goto(p, "failed") /\ UNCHANGED file   \* it committed unheard
  /\ UNCHANGED already

(* A statement or a COMMIT fails, or the process dies: rolled back. *)
Fail(p) ==
  /\ MayFail /\ pc[p] \notin {"off"} \cup Ended
  /\ Release(p) /\ Goto(p, "failed")
  /\ UNCHANGED <<made, recorded, already, file>>

Migrate(p) ==
  Create(p) \/ Select(p) \/ CommitTracking(p) \/ Sql(p) \/ Record(p) \/ Commit(p)

-----------------------------------------------------------------------------
(* Properties.                                                             *)

(* The files are applied in order and never in part: what is recorded is an  *)
(* initial stretch of them, and exactly their tables are there, however many *)
(* processes start at once on whatever state, fail or die.                   *)
AppliedInOrder ==
  \E k \in 0..NumFiles : recorded = 1..k /\ made \cap Files = 1..k

(* No file is applied a second time by a process that read the rows before   *)
(* another one had added it.                                                 *)
AppliedOnce ==
  [][\A p \in Processes :
       pc[p] = "commit" /\ pc'[p] \in {"sql", "migrated"} => file[p] \notin recorded]_migrationVars

(* A process that got past apply_migrations works on the whole schema.       *)
MigratedMeansAll == \A p \in Processes : pc[p] = "migrated" => recorded = Files

(* Processes that start at once do not all fail on each other: unless one is *)
(* hit by a fault of its own, the whole schema gets applied.                 *)
SchemaCompletes ==
  (\E p \in Processes : pc[p] \in Migrating)
  ~> (recorded = Files \/ \E p \in Processes : pc[p] = "failed")
=============================================================================
