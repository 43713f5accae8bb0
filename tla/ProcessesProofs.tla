--------------------------- MODULE ProcessesProofs --------------------------
(***************************************************************************)
(* Proofs about Migrations and Processes, for any number of processes and  *)
(* of files, whatever fails: the schema, the locks, the matcher's table,   *)
(* and at the end who waits for whom and that nobody goes back.            *)
(***************************************************************************)
EXTENDS Processes, TLAPS

(* What a process has found recorded still is. *)
AlreadyThere == \A p \in Processes : already[p] \subseteq recorded

(* A process that is at a file has all before it recorded. *)
InItsPlace ==
  \A p \in Processes : pc[p] \in InFile =>
    /\ file[p] \in Files
    /\ \A g \in Files : g < file[p] => g \in recorded

(* It has made the file's tables, or has found them; and if it got past the  *)
(* insertion of the row, it has made them.                                   *)
MadeOrFound ==
  \A p \in Processes :
    /\ pc[p] = "record" => file[p] \in made \/ maker[file[p]] = p
    /\ pc[p] = "commit" => maker[file[p]] = p

(* An uncommitted table is of the file its maker is at. *)
OpenOnes ==
  \A f \in Files : maker[f] # Nobody =>
    /\ f \notin made
    /\ pc[maker[f]] \in {"record", "commit"} /\ file[maker[f]] = f

(* Bronze and what was made of it. *)
Present == bronze \in past /\ snapshot \in past /\ \A p \in Processes : rows[p] \in past

SchemaInv ==
  /\ TypeOK
  /\ AlreadyThere /\ InItsPlace /\ MadeOrFound /\ OpenOnes
  /\ AppliedInOrder /\ MigratedMeansAll

USE DEF Objects, Files, Tracking, Events, Tracked, InFile, Migrating, Working, Ended, Places,
        Goto, Projecting

-----------------------------------------------------------------------------
(* The three ways a step can matter to the schema. *)

(* The file's tables and its row always come and go together. *)
LEMMA RecordedAreMade ==
  ASSUME SchemaInv
  PROVE  /\ recorded = made \cap Files
         /\ \A f \in recorded, g \in Files : g < f => g \in recorded
BY MigrationsAssumption DEF SchemaInv, AppliedInOrder

(* A process that moves on to another place outside the files, ends there    *)
(* (Release), or takes a table that is none of the files', disturbs nothing. *)
LEMMA ElsewhereKeeps ==
  ASSUME SchemaInv, NEW p \in Processes, NEW there \in Places \ InFile,
         pc' = [pc EXCEPT ![p] = there],
         there = "migrated" => recorded = Files,
         \/ pc[p] \notin InFile /\ maker' = maker
         \/ Release(p)
         \/ pc[p] \notin InFile /\ \E o \in Objects \ Files : maker' = [maker EXCEPT ![o] = p],
         made' \in SUBSET Objects, made' \cap Files = made \cap Files,
         UNCHANGED <<recorded, file>>,
         already' = already \/ already' = [already EXCEPT ![p] = recorded]
  PROVE  SchemaInv'
<1> USE MigrationsAssumption DEF SchemaInv
<1>1. TypeOK'
  BY DEF TypeOK, Release
<1>2. AlreadyThere'
  BY DEF AlreadyThere, TypeOK
<1>3. InItsPlace'
  BY DEF InItsPlace, TypeOK
<1>4. \A f \in Files : maker'[f] = maker[f] \/ (maker[f] = p /\ maker'[f] = Nobody)
  BY DEF TypeOK, Release
<1>5. MadeOrFound'
  <2> SUFFICES ASSUME NEW q \in Processes, q # p, pc[q] \in {"record", "commit"}
               PROVE  /\ pc[q] = "record" => file[q] \in made' \/ maker'[file[q]] = q
                      /\ pc[q] = "commit" => maker'[file[q]] = q
    BY DEF MadeOrFound, TypeOK
  <2>1. file[q] \in Files
    BY DEF InItsPlace
  <2> QED BY <2>1, <1>4 DEF MadeOrFound
<1>6. OpenOnes'
  <2> SUFFICES ASSUME NEW f \in Files, maker'[f] # Nobody
               PROVE  /\ f \notin made'
                      /\ pc'[maker'[f]] \in {"record", "commit"} /\ file[maker'[f]] = f
    BY DEF OpenOnes
  <2>1. maker'[f] = maker[f]
    BY <1>4
  <2>2. maker[f] # p
    BY <2>1 DEF OpenOnes, Release, TypeOK
  <2> QED BY <2>1, <2>2 DEF OpenOnes, TypeOK
<1>7. AppliedInOrder'
  BY DEF AppliedInOrder
<1>8. MigratedMeansAll'
  BY DEF MigratedMeansAll, TypeOK
<1> QED BY <1>1, <1>2, <1>3, <1>5, <1>6, <1>7, <1>8

(* From a file on: to one that has all before it recorded, or out. *)
LEMMA NextIsInPlace ==
  ASSUME TypeOK, NEW p \in Processes, NEW from \in 0..NumFiles, NEW R \in SUBSET Files,
         already[p] \subseteq R, \A g \in Files : g <= from => g \in R,
         NextFile(p, from)
  PROVE  \/ R = Files /\ pc' = [pc EXCEPT ![p] = "migrated"] /\ file' = file
         \/ \E f \in Files :
              /\ \A g \in Files : g < f => g \in R
              /\ pc' = [pc EXCEPT ![p] = "sql"] /\ file' = [file EXCEPT ![p] = f]
<1> USE MigrationsAssumption
<1>1. \A g \in Files : g \in Pending(p, from) \/ g \in R
  BY DEF Pending
<1>2. Pending(p, from) \subseteq Files
  BY DEF Pending
<1>3. CASE Pending(p, from) = {} /\ Goto(p, "migrated") /\ UNCHANGED file
  BY <1>1, <1>3
<1>4. CASE \E f \in Pending(p, from) :
             /\ \A g \in Pending(p, from) : f <= g
             /\ Goto(p, "sql") /\ file' = [file EXCEPT ![p] = f]
  <2>1. PICK f \in Pending(p, from) :
          /\ \A g \in Pending(p, from) : f <= g
          /\ Goto(p, "sql") /\ file' = [file EXCEPT ![p] = f]
    BY <1>4
  <2>2. ASSUME NEW g \in Files, g < f
        PROVE  g \in R
    BY <1>1, <1>2, <2>1, <2>2
  <2> QED BY <1>2, <2>1, <2>2
<1> QED BY <1>3, <1>4 DEF NextFile

(* A statement that makes an object, or waits for it, or ends in a unique    *)
(* violation, while p is at none of the files.                               *)
LEMMA MakeElsewhere ==
  ASSUME SchemaInv, NEW p \in Processes, NEW o \in Objects \ Files,
         NEW wait \in Places \ (InFile \cup {"migrated"}),
         NEW then \in Places \ (InFile \cup {"migrated"}),
         pc[p] \notin InFile,
         Make(p, o, wait, then) \/ Waited(p, o, then),
         UNCHANGED <<made, recorded, already, file>>
  PROVE  SchemaInv'
<1>1. made' \in SUBSET Objects /\ made' \cap Files = made \cap Files
  BY DEF SchemaInv, TypeOK
<1>2. CASE Make(p, o, wait, then)
  BY <1>1, <1>2, ElsewhereKeeps DEF Make
<1>3. CASE Waited(p, o, then)
  BY <1>1, <1>3, ElsewhereKeeps DEF Waited, Refuse
<1> QED BY <1>2, <1>3

(* A COMMIT by a process that holds none of the files' tables. *)
LEMMA CommittedElsewhere ==
  ASSUME SchemaInv, NEW p \in Processes, pc[p] \notin InFile
  PROVE  /\ Committed(p) \in SUBSET Objects
         /\ Committed(p) \cap Files = made \cap Files
<1>1. \A f \in Files : maker[f] # p
  BY MigrationsAssumption DEF SchemaInv, OpenOnes
<1> QED BY <1>1 DEF Committed, SchemaInv, TypeOK

-----------------------------------------------------------------------------
(* The steps within a file. *)

(* On to the next file, having committed what p holds, and recorded R. *)
LEMMA NextKeeps ==
  ASSUME SchemaInv, NEW p \in Processes, NEW f \in Files,
         \A g \in Files : g < f => g \in recorded,
         pc' = [pc EXCEPT ![p] = "sql"], file' = [file EXCEPT ![p] = f],
         Release(p), pc[p] \notin InFile,
         made' \in SUBSET Objects, made' \cap Files = made \cap Files,
         UNCHANGED <<recorded, already>>
  PROVE  SchemaInv'
<1> USE MigrationsAssumption DEF SchemaInv
<1>1. TypeOK'
  BY DEF TypeOK, Release
<1>2. AlreadyThere'
  BY DEF AlreadyThere
<1>3. InItsPlace'
  BY DEF InItsPlace, TypeOK
<1>4. \A g \in Files : maker'[g] = maker[g] /\ maker[g] # p
  BY DEF TypeOK, Release, OpenOnes
<1>5. MadeOrFound'
  BY <1>4 DEF MadeOrFound, InItsPlace, TypeOK
<1>6. OpenOnes'
  <2> SUFFICES ASSUME NEW g \in Files, maker'[g] # Nobody
               PROVE  /\ g \notin made'
                      /\ pc'[maker'[g]] \in {"record", "commit"} /\ file'[maker'[g]] = g
    BY DEF OpenOnes
  <2>1. maker'[g] = maker[g] /\ maker[g] # p /\ maker[g] \in Processes
    BY <1>4 DEF TypeOK
  <2>2. g \notin made /\ pc[maker[g]] \in {"record", "commit"} /\ file[maker[g]] = g
    BY <2>1 DEF OpenOnes
  <2>3. pc'[maker[g]] = pc[maker[g]] /\ file'[maker[g]] = file[maker[g]]
    BY <2>1 DEF TypeOK
  <2>4. g \notin made'
    BY <2>2
  <2> QED BY <2>1, <2>2, <2>3, <2>4
<1>7. AppliedInOrder'
  BY DEF AppliedInOrder
<1>8. MigratedMeansAll'
  BY DEF MigratedMeansAll, TypeOK
<1> QED BY <1>1, <1>2, <1>3, <1>5, <1>6, <1>7, <1>8

(* The file's first statement. *)
LEMMA SqlKeeps ==
  ASSUME SchemaInv, NEW p \in Processes, Sql(p)
  PROVE  SchemaInv'
<1> USE MigrationsAssumption DEF SchemaInv
<1>1. file[p] \in Files /\ pc[p] \in {"sql", "wait_sql"}
  BY DEF Sql, InItsPlace
<1>2. CASE Refuse(p)
  <2>1. made' \in SUBSET Objects /\ made' \cap Files = made \cap Files
    BY DEF Sql, TypeOK
  <2> QED BY <1>2, <2>1, ElsewhereKeeps DEF Sql, Refuse
<1>3. CASE /\ \/ Goto(p, "wait_sql")
              \/ Goto(p, "record") /\ file[p] \in made
           /\ UNCHANGED maker
  <2>1. TypeOK' /\ AlreadyThere' /\ AppliedInOrder'
    BY <1>3 DEF TypeOK, AlreadyThere, AppliedInOrder, Sql
  <2>2. InItsPlace'
    BY <1>1, <1>3 DEF TypeOK, InItsPlace, Sql
  <2>3. MadeOrFound'
    BY <1>1, <1>3 DEF TypeOK, MadeOrFound, Sql
  <2>4. OpenOnes'
    BY <1>1, <1>3 DEF TypeOK, OpenOnes, Sql
  <2>5. MigratedMeansAll'
    BY <1>3 DEF TypeOK, MigratedMeansAll, Sql
  <2> QED BY <2>1, <2>2, <2>3, <2>4, <2>5
<1>4. CASE /\ file[p] \notin made /\ maker[file[p]] = Nobody
           /\ Goto(p, "record") /\ maker' = [maker EXCEPT ![file[p]] = p]
  <2>1. TypeOK' /\ AlreadyThere' /\ AppliedInOrder'
    BY <1>1, <1>4 DEF TypeOK, AlreadyThere, AppliedInOrder, Sql
  <2>2. InItsPlace'
    BY <1>1, <1>4 DEF TypeOK, InItsPlace, Sql
  <2>3. MadeOrFound'
    BY <1>1, <1>4 DEF TypeOK, MadeOrFound, Sql, InItsPlace
  <2>4. OpenOnes'
    BY <1>1, <1>4 DEF TypeOK, OpenOnes, Sql
  <2>5. MigratedMeansAll'
    BY <1>4 DEF TypeOK, MigratedMeansAll, Sql
  <2> QED BY <2>1, <2>2, <2>3, <2>4, <2>5
<1> QED BY <1>2, <1>3, <1>4 DEF Sql, Make, Waited

(* The insertion of its row. *)
LEMMA RecordKeeps ==
  ASSUME SchemaInv, NEW p \in Processes, Record(p)
  PROVE  SchemaInv'
<1> USE MigrationsAssumption DEF SchemaInv
<1>1. file[p] \in Files /\ pc[p] = "record"
  BY DEF Record, InItsPlace
<1>2. CASE Conflicts(p)
  <2>1. made' \in SUBSET Objects /\ made' \cap Files = made \cap Files
    BY DEF Record, TypeOK
  <2> QED BY <1>2, <2>1, ElsewhereKeeps DEF Record, Refuse
<1>3. CASE ~Conflicts(p)
  <2>1. maker[file[p]] = p
    BY <1>1, <1>3, RecordedAreMade DEF Conflicts, MadeOrFound
  <2>2. TypeOK' /\ AlreadyThere' /\ AppliedInOrder'
    BY <1>3 DEF TypeOK, AlreadyThere, AppliedInOrder, Record
  <2>3. InItsPlace' /\ MadeOrFound'
    BY <1>1, <1>3, <2>1 DEF TypeOK, InItsPlace, MadeOrFound, Record
  <2>4. OpenOnes'
    BY <1>1, <1>3 DEF TypeOK, OpenOnes, Record
  <2>5. MigratedMeansAll'
    BY <1>3 DEF TypeOK, MigratedMeansAll, Record
  <2> QED BY <2>2, <2>3, <2>4, <2>5
<1> QED BY <1>2, <1>3

(* The COMMIT of a file: what was an initial stretch is one longer. *)
LEMMA CommitKeeps ==
  ASSUME SchemaInv, NEW p \in Processes, Commit(p)
  PROVE  SchemaInv'
<1> USE MigrationsAssumption DEF SchemaInv
<1> DEFINE f == file[p]
<1>1. f \in Files /\ pc[p] = "commit" /\ maker[f] = p
  BY DEF Commit, InItsPlace, MadeOrFound
<1>2. f \notin made /\ f \notin recorded
  BY <1>1, RecordedAreMade DEF OpenOnes
<1>3. \A g \in Files : maker[g] = p => g = f
  BY DEF OpenOnes
<1>4. made' \in SUBSET Objects /\ made' \cap Files = (made \cap Files) \cup {f}
  <2>1. made' = made \cup {o \in Objects : maker[o] = p}
    BY DEF Commit, Committed
  <2>2. f \in Objects /\ \A g \in Files : g \in Objects
    BY <1>1
  <2>3. made' \in SUBSET Objects
    BY <2>1 DEF TypeOK
  <2>4. \A g \in Files : g \in made' <=> g \in made \/ g = f
    BY <1>1, <1>3, <2>1, <2>2
  <2> QED BY <1>1, <2>3, <2>4
<1>5. recorded' = recorded \cup {f} /\ recorded' \in SUBSET Files
  BY <1>1 DEF Commit, TypeOK
<1>6. \A g \in Files : g <= f => g \in recorded'
  BY <1>1, <1>5 DEF InItsPlace
<1>7. AppliedInOrder'
  <2>1. PICK k \in 0..NumFiles : recorded = 1..k /\ made \cap Files = 1..k
    BY DEF AppliedInOrder
  <2>2. f = k + 1
    <3>1. f > k
      BY <1>1, <1>2, <2>1
    <3>2. f - 1 <= k
      <4>1. CASE f = 1
        BY <4>1
      <4>2. CASE f > 1
        <5>1. f - 1 \in Files /\ f - 1 < f
          BY <1>1, <4>2
        <5>2. f - 1 \in recorded
          BY <1>1, <5>1 DEF InItsPlace
        <5> QED BY <2>1, <5>2
      <4> QED BY <1>1, <4>1, <4>2
    <3> QED BY <1>1, <3>1, <3>2
  <2>3. recorded' = 1..(k + 1) /\ made' \cap Files = 1..(k + 1) /\ k + 1 \in 0..NumFiles
    BY <1>1, <1>4, <1>5, <2>1, <2>2
  <2> QED BY <2>3 DEF AppliedInOrder
<1>8. maker' \in [Objects -> Processes \cup {Nobody}]
  BY DEF TypeOK, Commit, Release
<1>9. \A g \in Files : IF g = f THEN maker'[g] = Nobody
                               ELSE maker'[g] = maker[g] /\ maker[g] # p
  BY <1>1, <1>3 DEF TypeOK, Commit, Release
<1>10. AlreadyThere'
  BY <1>5 DEF AlreadyThere, Commit
<1>11. CASE pc' = [pc EXCEPT ![p] = "failed"] /\ file' = file
  <2>1. TypeOK'
    BY <1>4, <1>5, <1>8, <1>11 DEF TypeOK, Commit
  <2>2. InItsPlace'
    BY <1>5, <1>11 DEF InItsPlace, TypeOK
  <2>3. MadeOrFound'
    BY <1>1, <1>4, <1>9, <1>11 DEF MadeOrFound, InItsPlace, TypeOK
  <2>4. OpenOnes'
    BY <1>4, <1>8, <1>9, <1>11 DEF OpenOnes, TypeOK
  <2>5. MigratedMeansAll'
    BY <1>5, <1>11 DEF MigratedMeansAll, TypeOK
  <2> QED BY <1>7, <1>10, <2>1, <2>2, <2>3, <2>4, <2>5
<1>12. CASE NextFile(p, f)
  <2>1. \A g \in already[p] : g \in recorded'
    BY <1>5 DEF AlreadyThere
  <2>2. f \in 0..NumFiles
    BY <1>1
  <2>3. \/ recorded' = Files /\ pc' = [pc EXCEPT ![p] = "migrated"] /\ file' = file
        \/ \E h \in Files :
             /\ \A g \in Files : g < h => g \in recorded'
             /\ pc' = [pc EXCEPT ![p] = "sql"] /\ file' = [file EXCEPT ![p] = h]
    BY <1>5, <1>6, <1>12, <2>1, <2>2, NextIsInPlace
  <2>4. TypeOK'
    <3>1. pc' \in [Processes -> Places] /\ file' \in [Processes -> Objects]
      BY <2>3 DEF TypeOK
    <3>2. already' \in [Processes -> SUBSET Files]
      BY DEF TypeOK, Commit
    <3> QED BY <1>4, <1>5, <1>8, <3>1, <3>2 DEF TypeOK
  <2>5. InItsPlace'
    BY <1>5, <2>3 DEF InItsPlace, TypeOK
  <2>6. MadeOrFound'
    BY <1>1, <1>4, <1>9, <2>3 DEF MadeOrFound, InItsPlace, TypeOK
  <2>7. OpenOnes'
    <3> SUFFICES ASSUME NEW g \in Files, maker'[g] # Nobody
                 PROVE  /\ g \notin made'
                        /\ pc'[maker'[g]] \in {"record", "commit"} /\ file'[maker'[g]] = g
      BY DEF OpenOnes
    <3>1. g # f /\ maker'[g] = maker[g] /\ maker[g] # p /\ maker[g] \in Processes
      BY <1>9 DEF TypeOK
    <3>2. g \notin made /\ pc[maker[g]] \in {"record", "commit"} /\ file[maker[g]] = g
      BY <3>1 DEF OpenOnes
    <3>3. pc'[maker[g]] = pc[maker[g]] /\ file'[maker[g]] = file[maker[g]]
      BY <2>3, <3>1 DEF TypeOK
    <3> QED BY <1>4, <3>1, <3>2, <3>3
  <2>8. MigratedMeansAll'
    BY <1>5, <2>3 DEF MigratedMeansAll, TypeOK
  <2> QED BY <1>7, <1>10, <2>4, <2>5, <2>6, <2>7, <2>8
<1> QED BY <1>11, <1>12 DEF Commit

-----------------------------------------------------------------------------
(* All steps. *)

LEMMA SchemaInit == ProcessesInit => SchemaInv
<1> USE MigrationsAssumption DEF ProcessesInit, Init, SchemaInv
<1>1. ASSUME ProcessesInit PROVE TypeOK /\ AlreadyThere /\ InItsPlace /\ MadeOrFound
  BY <1>1 DEF TypeOK, AlreadyThere, InItsPlace, MadeOrFound
<1>2. ASSUME ProcessesInit PROVE OpenOnes /\ MigratedMeansAll
  BY <1>2 DEF OpenOnes, MigratedMeansAll
<1>3. ASSUME ProcessesInit PROVE AppliedInOrder
  <2>1. 0 \in 0..NumFiles /\ recorded = 1..0 /\ made \cap Files = 1..0
    BY <1>3
  <2> QED BY <2>1 DEF AppliedInOrder
<1> QED BY <1>1, <1>2, <1>3

LEMMA MigrateKeeps ==
  ASSUME SchemaInv, NEW p \in Processes, Migrate(p) \/ Launch(p) \/ Fail(p)
  PROVE  SchemaInv'
<1> USE MigrationsAssumption
<1>1. made \in SUBSET Objects
  BY DEF SchemaInv, TypeOK
<1>2. CASE Launch(p)
  <2>1. NumFiles = 0 => recorded = Files
    BY DEF SchemaInv, TypeOK
  <2> QED BY <1>1, <1>2, <2>1, ElsewhereKeeps DEF Launch
<1>3. CASE Fail(p)
  BY <1>1, <1>3, ElsewhereKeeps DEF Fail
<1>4. CASE Create(p)
  BY <1>4, MakeElsewhere DEF Create
<1>5. CASE Select(p)
  BY <1>1, <1>5, ElsewhereKeeps DEF Select
<1>6. CASE CommitTracking(p)
  <2>1. made' \in SUBSET Objects /\ made' \cap Files = made \cap Files /\ pc[p] \notin InFile
    BY <1>6, CommittedElsewhere DEF CommitTracking
  <2>2. 0 \in 0..NumFiles /\ recorded \in SUBSET Files /\ already[p] \subseteq recorded /\ TypeOK
    BY DEF SchemaInv, TypeOK, AlreadyThere
  <2>6. (\A g \in Files : g <= 0 => g \in recorded) /\ NextFile(p, 0)
    BY <1>6 DEF CommitTracking
  <2>3. \/ recorded = Files /\ pc' = [pc EXCEPT ![p] = "migrated"] /\ file' = file
        \/ \E h \in Files :
             /\ \A g \in Files : g < h => g \in recorded
             /\ pc' = [pc EXCEPT ![p] = "sql"] /\ file' = [file EXCEPT ![p] = h]
    BY <2>2, <2>6, NextIsInPlace
  <2>4. CASE recorded = Files /\ pc' = [pc EXCEPT ![p] = "migrated"] /\ file' = file
    BY <1>6, <2>1, <2>4, ElsewhereKeeps DEF CommitTracking
  <2>5. CASE \E h \in Files :
             /\ \A g \in Files : g < h => g \in recorded
             /\ pc' = [pc EXCEPT ![p] = "sql"] /\ file' = [file EXCEPT ![p] = h]
    BY <1>6, <2>1, <2>5, NextKeeps DEF CommitTracking
  <2> QED BY <2>3, <2>4, <2>5
<1> QED BY <1>2, <1>3, <1>4, <1>5, <1>6, SqlKeeps, RecordKeeps, CommitKeeps DEF Migrate

LEMMA WorkKeeps ==
  ASSUME SchemaInv, NEW p \in Processes,
         StartRun(p) \/ LeaveSnapshot(p) \/ Project(p) \/ Ingest(p)
  PROVE  SchemaInv'
<1> USE MigrationsAssumption
<1>1. made \in SUBSET Objects
  BY DEF SchemaInv, TypeOK
<1>2. CASE StartRun(p)
  <2>1. \/ pc' = [pc EXCEPT ![p] = "ingest"]
        \/ pc' = [pc EXCEPT ![p] = "refused"]
    BY <1>2 DEF StartRun
  <2> QED BY <1>1, <1>2, <2>1, ElsewhereKeeps DEF StartRun
<1>3. CASE LeaveSnapshot(p)
  BY <1>1, <1>3, ElsewhereKeeps DEF LeaveSnapshot
<1>4. CASE Ingest(p)
  BY <1>4 DEF Ingest, migrationVars, SchemaInv, TypeOK, AlreadyThere, InItsPlace, MadeOrFound,
              OpenOnes, AppliedInOrder, MigratedMeansAll
<1>5. CASE ReadRows(p)
  BY <1>1, <1>5, ElsewhereKeeps DEF ReadRows
<1>6. CASE CreateEvents(p)
  BY <1>6, MakeElsewhere DEF CreateEvents
<1>7. CASE Truncate(p)
  <2>1. NumFiles + 1 \in Objects \ Files
    OBVIOUS
  <2>2. \E o \in Objects \ Files : maker' = [maker EXCEPT ![o] = p]
    BY <1>7, <2>1 DEF Truncate, TakesTable
  <2>3. pc[p] \notin InFile /\ pc' = [pc EXCEPT ![p] = "replace"]
    BY <1>7 DEF Truncate
  <2>4. UNCHANGED <<made, recorded, already, file>>
    BY <1>7 DEF Truncate
  <2> QED BY <1>1, <2>2, <2>3, <2>4, ElsewhereKeeps
<1>8. CASE Replace(p)
  <2>1. made' \in SUBSET Objects /\ made' \cap Files = made \cap Files
    BY <1>8, CommittedElsewhere DEF Replace
  <2> QED BY <1>8, <2>1, ElsewhereKeeps DEF Replace
<1> QED BY <1>2, <1>3, <1>4, <1>5, <1>6, <1>7, <1>8 DEF Project

LEMMA SchemaStep == SchemaInv /\ [Next]_vars => SchemaInv'
<1> SUFFICES ASSUME SchemaInv, [Next]_vars PROVE SchemaInv'
  OBVIOUS
<1>1. CASE UNCHANGED vars
  BY <1>1 DEF vars, migrationVars, SchemaInv, TypeOK, AlreadyThere, InItsPlace, MadeOrFound,
              OpenOnes, AppliedInOrder, MigratedMeansAll
<1>2. CASE Next
  BY <1>1, <1>2, MigrateKeeps, WorkKeeps DEF Next, ProcessStep, Interrupt, AllEnded
<1> QED BY <1>1, <1>2

(* Whatever fails and however many start at once, the files are applied in   *)
(* order and in whole.                                                       *)
THEOREM MigrationsInOrder == Spec => []AppliedInOrder
<1>1. SchemaInv => AppliedInOrder
  BY DEF SchemaInv
<1> QED BY <1>1, SchemaInit, SchemaStep, PTL DEF Spec

(* Who gets past apply_migrations has the whole schema before it. *)
THEOREM MigrationsInFull == Spec => []MigratedMeansAll
<1>1. SchemaInv => MigratedMeansAll
  BY DEF SchemaInv
<1> QED BY <1>1, SchemaInit, SchemaStep, PTL DEF Spec

(* No file is committed that was recorded already. *)
THEOREM MigrationsOnce == Spec => AppliedOnce
<1>1. SchemaInv => \A p \in Processes : pc[p] = "commit" => file[p] \notin recorded
  <2> SUFFICES ASSUME SchemaInv, NEW p \in Processes, pc[p] = "commit"
               PROVE  file[p] \notin recorded
    OBVIOUS
  <2>1. file[p] \in Files /\ maker[file[p]] # Nobody
    BY MigrationsAssumption DEF SchemaInv, InItsPlace, MadeOrFound
  <2> QED BY <2>1, RecordedAreMade DEF SchemaInv, OpenOnes
<1>2. SchemaInv =>
        [\A p \in Processes :
           pc[p] = "commit" /\ pc'[p] \in {"sql", "migrated"} => file[p] \notin recorded]_migrationVars
  BY <1>1
<1> QED BY <1>2, SchemaInit, SchemaStep, PTL DEF Spec, AppliedOnce

-----------------------------------------------------------------------------
(* Types, and locks. *)

(* Where a process may have a transaction open that holds something. *)
Holding ==
  \A o \in Objects : maker[o] # Nobody =>
    pc[maker[o]] \in {"select", "commit_tracking", "record", "commit", "truncate", "replace"}

ProjectionType ==
  /\ {bronze, snapshot} \subseteq Versions
  /\ rows \in [Processes -> Versions]
  /\ past \subseteq Versions
  /\ together \in BOOLEAN

(* One process's step from a place where it holds nothing, or to one where   *)
(* it may, or that lets go of all.                                           *)
LEMMA HoldingKept ==
  ASSUME TypeOK, Holding, NEW p \in Processes, NEW there \in Places,
         pc' = [pc EXCEPT ![p] = there],
         \/ Release(p)
         \/ maker' = maker /\ pc[p] \in {"off", "create", "wait_create", "sql", "wait_sql", "skipped",
                                         "migrated", "ingest", "events", "wait_events"}
         \/ there \in {"select", "commit_tracking", "record", "commit", "truncate", "replace"} /\
              (maker' = maker \/ \E o \in Objects : maker' = [maker EXCEPT ![o] = p])
  PROVE  Holding'
<1> USE MigrationsAssumption
<1> SUFFICES ASSUME NEW o \in Objects, maker'[o] # Nobody
             PROVE  pc'[maker'[o]] \in {"select", "commit_tracking", "record", "commit",
                                        "truncate", "replace"}
  BY DEF Holding
<1>1. CASE Release(p)
  <2>1. maker'[o] = maker[o] /\ maker[o] # p /\ maker[o] \in Processes
    BY <1>1 DEF Release, TypeOK
  <2> QED BY <2>1 DEF Holding, TypeOK
<1>2. CASE maker' = maker
  BY <1>2 DEF Holding, TypeOK, Release
<1>3. CASE \E x \in Objects : maker' = [maker EXCEPT ![x] = p]
  <2>1. maker'[o] = p \/ maker'[o] = maker[o]
    BY <1>3 DEF TypeOK
  <2> QED BY <1>1, <1>2, <2>1 DEF Holding, TypeOK
<1> QED BY <1>1, <1>2, <1>3

(* CREATE TABLE IF NOT EXISTS *)
LEMMA HoldingMade ==
  ASSUME TypeOK, Holding, NEW p \in Processes, NEW o \in Objects,
         NEW wait \in Places,
         NEW then \in {"select", "record", "truncate"},
         pc[p] \in {"create", "wait_create", "sql", "wait_sql", "events", "wait_events"},
         Make(p, o, wait, then) \/ Waited(p, o, then)
  PROVE  Holding'
<1>1. CASE Make(p, o, wait, then)
  BY <1>1, HoldingKept DEF Make
<1>2. CASE Waited(p, o, then)
  BY <1>2, HoldingKept DEF Waited, Refuse
<1> QED BY <1>1, <1>2

LEMMA HoldingStep ==
  ASSUME TypeOK, Holding, [Next]_vars
  PROVE  Holding'
<1> USE MigrationsAssumption
<1>1. CASE UNCHANGED vars
  BY <1>1 DEF vars, migrationVars, Holding
<1>2. CASE AllEnded
  BY <1>2 DEF AllEnded, vars, migrationVars, Holding
<1>3. ASSUME NEW p \in Processes, Migrate(p) \/ Launch(p) \/ Fail(p)
      PROVE  Holding'
  <2>1. CASE Launch(p)
    BY <2>1, HoldingKept DEF Launch
  <2>2. CASE Fail(p)
    BY <2>2, HoldingKept DEF Fail
  <2>3. CASE Create(p)
    BY <2>3, HoldingMade DEF Create
  <2>4. CASE Select(p)
    BY <2>4, HoldingKept DEF Select
  <2>5. CASE CommitTracking(p)
    BY <2>5, HoldingKept DEF CommitTracking, NextFile
  <2>6. CASE Sql(p)
    <3>1. file[p] \in Objects
      BY DEF TypeOK
    <3> QED BY <2>6, <3>1, HoldingMade DEF Sql
  <2>7. CASE Record(p)
    BY <2>7, HoldingKept DEF Record, Refuse
  <2>8. CASE Commit(p)
    BY <2>8, HoldingKept DEF Commit, NextFile
  <2> QED BY <1>3, <2>1, <2>2, <2>3, <2>4, <2>5, <2>6, <2>7, <2>8 DEF Migrate
<1>4. ASSUME NEW p \in Processes, StartRun(p) \/ LeaveSnapshot(p) \/ Project(p) \/ Ingest(p)
      PROVE  Holding'
  <2>1. CASE StartRun(p)
    <3>1. \/ pc' = [pc EXCEPT ![p] = "ingest"]
          \/ pc' = [pc EXCEPT ![p] = "refused"]
      BY <2>1 DEF StartRun
    <3> QED BY <2>1, <3>1, HoldingKept DEF StartRun
  <2>2. CASE LeaveSnapshot(p)
    BY <2>2, HoldingKept DEF LeaveSnapshot
  <2>3. CASE Ingest(p)
    BY <2>3 DEF Ingest, migrationVars, Holding
  <2>4. CASE ReadRows(p)
    BY <2>4, HoldingKept DEF ReadRows
  <2>5. CASE CreateEvents(p)
    BY <2>5, HoldingMade DEF CreateEvents
  <2>6. CASE Truncate(p)
    <3>1. NumFiles + 1 \in Objects
      OBVIOUS
    <3> QED BY <2>6, <3>1, HoldingKept DEF Truncate, TakesTable
  <2>7. CASE Replace(p)
    BY <2>7, HoldingKept DEF Replace
  <2> QED BY <1>4, <2>1, <2>2, <2>3, <2>4, <2>5, <2>6, <2>7 DEF Project
<1> QED BY <1>1, <1>2, <1>3, <1>4 DEF Next, ProcessStep, Interrupt

LEMMA ProjectionTypeInit == ProcessesInit => ProjectionType
<1>1. Nothing \in Versions
  BY ProcessesAssumption DEF Nothing, Versions
<1>2. [p \in Processes |-> Nothing] \in [Processes -> Versions]
  BY <1>1
<1> QED BY <1>1, <1>2 DEF ProcessesInit, ProjectionType

LEMMA ProjectionTypeStep ==
  ASSUME ProjectionType, [Next]_vars
  PROVE  ProjectionType'
<1> USE ProcessesAssumption DEF ProjectionType, Versions
<1>1. CASE UNCHANGED projectionVars
  BY <1>1 DEF projectionVars
<1>2. ASSUME NEW p \in Processes, Ingest(p)
      PROVE  ProjectionType'
  <2>1. PICK l \in Leagues : bronze[l] < MaxVersion /\ bronze' = [bronze EXCEPT ![l] = @ + 1]
    BY <1>2 DEF Ingest
  <2>2. bronze' \in Versions
    BY <2>1
  <2> QED BY <1>2, <2>2 DEF Ingest
<1>3. ASSUME NEW p \in Processes, ReadRows(p)
      PROVE  ProjectionType'
  BY <1>3 DEF ReadRows, LatestFixtures
<1>4. ASSUME NEW p \in Processes, Replace(p)
      PROVE  ProjectionType'
  BY <1>4 DEF Replace
<1> QED
  BY <1>1, <1>2, <1>3, <1>4
  DEF Next, ProcessStep, Interrupt, AllEnded, vars, StartRun, LeaveSnapshot, Project,
      CreateEvents, Truncate

(* Types hold, and no process that has ended leaves a lock behind. *)
THEOREM ProcessesTypeCorrect == Spec => []ProcessesTypeOK
<1> DEFINE Inv == SchemaInv /\ Holding /\ ProjectionType
<1>1. ProcessesInit => Inv
  <2>1. ProcessesInit => Holding
    BY MigrationsAssumption DEF ProcessesInit, Init, Holding
  <2> QED BY <2>1, SchemaInit, ProjectionTypeInit
<1>2. Inv /\ [Next]_vars => Inv'
  BY SchemaStep, HoldingStep, ProjectionTypeStep DEF SchemaInv
<1>3. Inv => ProcessesTypeOK
  BY DEF SchemaInv, Holding, ProjectionType, ProcessesTypeOK
<1> QED BY <1>1, <1>2, <1>3, PTL DEF Spec

-----------------------------------------------------------------------------
(* The matcher's table. *)

(* What is read or projected is no newer than bronze. *)
NoNewer ==
  \A l \in Leagues :
    /\ snapshot[l] <= bronze[l]
    /\ \A p \in Processes : rows[p][l] <= bronze[l]

(* Until two meet, who projects is alone, with rows no older than the table. *)
Apart ==
  ~together => \A p \in Processes : pc[p] \in Projecting =>
    /\ \A q \in Processes : pc[q] \in Projecting => q = p
    /\ \A l \in Leagues : snapshot[l] <= rows[p][l]

SnapshotInv == TypeOK /\ ProjectionType /\ Present /\ NoNewer /\ Apart

(* A step that leaves the data alone, and brings nobody to a projection. *)
LEMMA DataKept ==
  ASSUME SnapshotInv, UNCHANGED projectionVars,
         \A q \in Processes : pc'[q] \in Projecting => pc[q] \in Projecting
  PROVE  Present' /\ NoNewer' /\ Apart'
BY DEF SnapshotInv, projectionVars, Present, NoNewer, Apart

LEMMA NobodyEnters ==
  ASSUME TypeOK, NEW p \in Processes,
         \/ Migrate(p) \/ Launch(p) \/ Fail(p)
         \/ StartRun(p) \/ LeaveSnapshot(p) \/ CreateEvents(p) \/ Truncate(p)
  PROVE  \A q \in Processes : pc'[q] \in Projecting => pc[q] \in Projecting
<1>1. CASE Launch(p) \/ Fail(p) \/ Select(p) \/ StartRun(p) \/ LeaveSnapshot(p) \/ Truncate(p)
  BY <1>1 DEF TypeOK, Launch, Fail, Select, StartRun, LeaveSnapshot, Truncate
<1>2. CASE Create(p)
  BY <1>2 DEF TypeOK, Create, Make, Waited, Refuse
<1>3. CASE CommitTracking(p)
  BY <1>3 DEF TypeOK, CommitTracking, NextFile
<1>4. CASE Sql(p)
  BY <1>4 DEF TypeOK, Sql, Make, Waited, Refuse
<1>5. CASE Record(p)
  BY <1>5 DEF TypeOK, Record, Refuse
<1>6. CASE Commit(p)
  BY <1>6 DEF TypeOK, Commit, NextFile
<1>7. CASE CreateEvents(p)
  BY <1>7 DEF TypeOK, CreateEvents, Make, Waited, Refuse
<1> QED BY <1>1, <1>2, <1>3, <1>4, <1>5, <1>6, <1>7 DEF Migrate

LEMMA IngestKeeps ==
  ASSUME SnapshotInv, NEW p \in Processes, Ingest(p)
  PROVE  Present' /\ NoNewer' /\ Apart'
<1> USE ProcessesAssumption DEF SnapshotInv, ProjectionType, Versions
<1>1. PICK l \in Leagues : bronze[l] < MaxVersion /\ bronze' = [bronze EXCEPT ![l] = @ + 1]
  BY DEF Ingest
<1>2. \A m \in Leagues : bronze[m] \in Nat /\ snapshot[m] \in Nat /\ bronze'[m] \in Nat /\ bronze[m] <= bronze'[m]
  BY <1>1
<1>3. \A q \in Processes, m \in Leagues : rows[q][m] \in Nat
  OBVIOUS
<1>4. Present'
  BY DEF Present, Ingest
<1>5. NoNewer'
  BY <1>2, <1>3 DEF NoNewer, Ingest
<1>6. Apart'
  BY DEF Apart, Ingest, migrationVars
<1> QED BY <1>4, <1>5, <1>6

LEMMA ReadKeeps ==
  ASSUME SnapshotInv, NEW p \in Processes, ReadRows(p)
  PROVE  Present' /\ NoNewer' /\ Apart'
<1> USE DEF SnapshotInv, ProjectionType
<1>1. rows' = [rows EXCEPT ![p] = bronze] /\ rows'[p] = bronze
  BY DEF ReadRows, LatestFixtures
<1>2. \A q \in Processes : q # p => rows'[q] = rows[q] /\ pc'[q] = pc[q]
  BY <1>1 DEF ReadRows, TypeOK
<1>3. Present'
  BY <1>1, <1>2 DEF Present, ReadRows
<1>4. \A l \in Leagues : bronze[l] \in Nat
  BY ProcessesAssumption DEF Versions
<1>5. NoNewer'
  BY <1>1, <1>2, <1>4 DEF NoNewer, ReadRows
<1>6. Apart'
  <2>1. ~together' => \A q \in Processes : pc[q] \notin Projecting
    BY DEF ReadRows
  <2> QED BY <1>1, <1>2, <2>1 DEF Apart, NoNewer, ReadRows
<1> QED BY <1>3, <1>5, <1>6

LEMMA ReplaceKeeps ==
  ASSUME SnapshotInv, NEW p \in Processes, Replace(p)
  PROVE  /\ Present' /\ NoNewer' /\ Apart'
         /\ ~together => \A l \in Leagues : snapshot'[l] >= snapshot[l]
<1> USE DEF SnapshotInv
<1>1. \A q \in Processes : pc'[q] \in Projecting => pc[q] \in Projecting /\ q # p
  BY DEF Replace, TypeOK
<1>2. pc[p] \in Projecting /\ snapshot' = rows[p]
  BY DEF Replace
<1>3. Present'
  BY <1>2 DEF Present, Replace
<1>4. NoNewer'
  BY <1>2 DEF NoNewer, Replace
<1>5. ~together => \A q \in Processes : pc'[q] \notin Projecting
  BY <1>1, <1>2 DEF Apart
<1>6. Apart'
  BY <1>5 DEF Apart, Replace
<1>7. \A l \in Leagues : snapshot[l] \in Nat /\ rows[p][l] \in Nat
  BY ProcessesAssumption DEF ProjectionType, Versions
<1>8. ~together => \A l \in Leagues : snapshot'[l] >= snapshot[l]
  BY <1>2, <1>7 DEF Apart
<1> QED BY <1>3, <1>4, <1>6, <1>8

LEMMA SnapshotStep ==
  ASSUME SnapshotInv, TypeOK', [Next]_vars
  PROVE  /\ SnapshotInv'
         /\ ~together => \A l \in Leagues : snapshot'[l] >= snapshot[l]
<1>1. snapshot' = snapshot => \A l \in Leagues : snapshot'[l] >= snapshot[l]
  <2>1. \A l \in Leagues : snapshot[l] \in Nat
    BY ProcessesAssumption DEF SnapshotInv, ProjectionType, Versions
  <2> QED BY <2>1
<1>2. ProjectionType'
  BY ProjectionTypeStep DEF SnapshotInv
<1>3. CASE UNCHANGED vars
  BY <1>1, <1>3, <1>2, DataKept DEF vars, migrationVars, projectionVars, SnapshotInv
<1>4. ASSUME NEW p \in Processes, Ingest(p)
      PROVE  /\ Present' /\ NoNewer' /\ Apart'
             /\ ~together => \A l \in Leagues : snapshot'[l] >= snapshot[l]
  <2>1. snapshot' = snapshot
    BY <1>4 DEF Ingest
  <2> QED BY <1>1, <1>4, <2>1, IngestKeeps
<1>5. ASSUME NEW p \in Processes, ReadRows(p)
      PROVE  /\ Present' /\ NoNewer' /\ Apart'
             /\ ~together => \A l \in Leagues : snapshot'[l] >= snapshot[l]
  <2>1. snapshot' = snapshot
    BY <1>5 DEF ReadRows
  <2> QED BY <1>1, <1>5, <2>1, ReadKeeps
<1>6. ASSUME NEW p \in Processes,
             \/ (Migrate(p) \/ Launch(p) \/ Fail(p)) /\ UNCHANGED projectionVars
             \/ StartRun(p) \/ LeaveSnapshot(p) \/ CreateEvents(p) \/ Truncate(p)
      PROVE  /\ Present' /\ NoNewer' /\ Apart'
             /\ ~together => \A l \in Leagues : snapshot'[l] >= snapshot[l]
  <2>1. UNCHANGED projectionVars
    BY <1>6 DEF StartRun, LeaveSnapshot, CreateEvents, Truncate, projectionVars
  <2>2. \A q \in Processes : pc'[q] \in Projecting => pc[q] \in Projecting
    BY <1>6, NobodyEnters DEF SnapshotInv
  <2> QED BY <1>1, <2>1, <2>2, DataKept DEF projectionVars
<1> QED
  BY <1>2, <1>3, <1>4, <1>5, <1>6, ReplaceKeeps
  DEF SnapshotInv, Next, ProcessStep, Interrupt, AllEnded, Project

LEMMA SnapshotInit == ProcessesInit => Present /\ NoNewer /\ Apart
BY DEF ProcessesInit, Init, Nothing, Present, NoNewer, Apart

LEMMA SnapshotInvariance == Spec => [](SchemaInv /\ SnapshotInv)
<1>1. ProcessesInit => SchemaInv /\ SnapshotInv
  BY ProjectionTypeInit, SchemaInit, SnapshotInit DEF SchemaInv, SnapshotInv
<1>2. SchemaInv /\ SnapshotInv /\ [Next]_vars => (SchemaInv /\ SnapshotInv)'
  <2>1. SchemaInv' => TypeOK'
    BY DEF SchemaInv
  <2> QED BY <2>1, SchemaStep, SnapshotStep
<1> QED BY <1>1, <1>2, PTL DEF Spec

(* The matcher's table is all of one moment. *)
THEOREM SnapshotIsOfOneMoment == Spec => []SnapshotOfOneMoment
<1>1. SnapshotInv => SnapshotOfOneMoment
  BY DEF SnapshotInv, Present, SnapshotOfOneMoment
<1> QED BY <1>1, SnapshotInvariance, PTL

(* Without overlapping projections, no league goes back. *)
THEOREM SnapshotsAdvance == Spec => SnapshotAdvances
<1>1. SchemaInv /\ SnapshotInv /\ SchemaInv' /\ [Next]_vars =>
        [~together => \A l \in Leagues : snapshot'[l] >= snapshot[l]]_vars
  <2>1. SchemaInv' => TypeOK'
    BY DEF SchemaInv
  <2> QED BY <2>1, SnapshotStep
<1> QED BY <1>1, SnapshotInvariance, PTL DEF Spec, SnapshotAdvances

-----------------------------------------------------------------------------
(* Who waits for whom, and where a process goes from where it is.          *)

(* The tracking table and the matcher's are held at their own statements.    *)
HeldAtHome ==
  /\ maker[Tracking] # Nobody => pc[maker[Tracking]] \in {"select", "commit_tracking"}
  /\ maker[Events] # Nobody => pc[maker[Events]] \in {"truncate", "replace"}

(* A process comes to its files after the tracking table, and to none that   *)
(* it has found recorded.                                                    *)
ComesToFile ==
  \A p \in Processes :
    /\ pc[p] \in {"off"} \cup Tracked => file[p] = 0
    /\ pc[p] \in InFile => file[p] \notin already[p]

(* What the statement p is at needs. *)
Needs(p) ==
  CASE pc[p] = "wait_create" -> Tracking
    [] pc[p] = "wait_sql" -> file[p]
    [] OTHER -> Events

(* p is at a statement that another one's open transaction holds up. *)
MustWait(p) ==
  /\ pc[p] \in {"wait_create", "wait_sql", "wait_events", "truncate"}
  /\ maker[Needs(p)] # Nobody
  /\ pc[p] = "truncate" => maker[Events] # p

(* Whoever waits, waits for another one, and that one can go on. *)
NoneWaitsForAWaiter ==
  \A p \in Processes : MustWait(p) =>
    /\ maker[Needs(p)] \in Processes \ {p}
    /\ ~MustWait(maker[Needs(p)])

(* The places of a process, in the order it takes them for one file. *)
Stage(place) ==
  CASE place = "off" -> 0
    [] place \in {"create", "sql"} -> 1
    [] place \in {"wait_create", "wait_sql"} -> 2
    [] place \in {"select", "record"} -> 3
    [] place \in {"commit_tracking", "commit"} -> 4
    [] place \in {"skipped", "migrated"} -> 5
    [] place = "ingest" -> 6
    [] place = "events" -> 7
    [] place = "wait_events" -> 8
    [] place = "truncate" -> 9
    [] place = "replace" -> 10
    [] place \in Ended -> 11

(* On to a later file, or on within this one, or to the end. *)
Further(p) ==
  \/ file'[p] > file[p] /\ pc'[p] = "sql"
  \/ file'[p] = file[p] /\ Stage(pc'[p]) > Stage(pc[p])

OnlyFurther ==
  [][\A p \in Processes : pc'[p] # pc[p] \/ file'[p] # file[p] => Further(p)]_vars

(* A process is refused a file only where another one has applied the file   *)
(* since it looked.                                                          *)
RefusedWhenOvertaken ==
  [][\A p \in Processes :
       pc[p] \in InFile /\ pc'[p] = "refused" => file[p] \in recorded \ already[p]]_vars

WaitInv == SchemaInv /\ Holding /\ HeldAtHome /\ ComesToFile

LEMMA HomeKept ==
  ASSUME TypeOK, HeldAtHome, NEW p \in Processes, NEW there \in Places,
         pc' = [pc EXCEPT ![p] = there],
         \/ Release(p)
         \/ /\ maker' = maker \/ \E f \in Files : maker' = [maker EXCEPT ![f] = p]
            /\ \/ pc[p] \notin {"select", "commit_tracking", "truncate", "replace"}
               \/ pc[p] = "select" /\ there = "commit_tracking"
               \/ pc[p] = "truncate" /\ there = "replace"
         \/ /\ maker' = [maker EXCEPT ![Tracking] = p]
            /\ pc[p] \in {"create", "wait_create"} /\ there = "select"
         \/ /\ maker' = [maker EXCEPT ![Events] = p]
            /\ \/ pc[p] \in {"events", "wait_events"} /\ there = "truncate"
               \/ pc[p] = "truncate" /\ there = "replace"
  PROVE  HeldAtHome'
<1> USE MigrationsAssumption
<1>1. CASE Release(p)
  BY <1>1 DEF Release, HeldAtHome, TypeOK
<1>2. CASE /\ maker' = maker \/ \E f \in Files : maker' = [maker EXCEPT ![f] = p]
           /\ \/ pc[p] \notin {"select", "commit_tracking", "truncate", "replace"}
              \/ pc[p] = "select" /\ there = "commit_tracking"
              \/ pc[p] = "truncate" /\ there = "replace"
  <2>1. maker'[Tracking] = maker[Tracking] /\ maker'[Events] = maker[Events]
    BY <1>2 DEF TypeOK
  <2> QED BY <1>2, <2>1 DEF HeldAtHome, TypeOK
<1>3. CASE /\ maker' = [maker EXCEPT ![Tracking] = p]
           /\ pc[p] \in {"create", "wait_create"} /\ there = "select"
  <2>1. maker'[Tracking] = p /\ maker'[Events] = maker[Events]
    BY <1>3 DEF TypeOK
  <2> QED BY <1>3, <2>1 DEF HeldAtHome, TypeOK
<1>4. CASE /\ maker' = [maker EXCEPT ![Events] = p]
           /\ \/ pc[p] \in {"events", "wait_events"} /\ there = "truncate"
              \/ pc[p] = "truncate" /\ there = "replace"
  <2>1. maker'[Events] = p /\ maker'[Tracking] = maker[Tracking]
    BY <1>4 DEF TypeOK
  <2> QED BY <1>4, <2>1 DEF HeldAtHome, TypeOK
<1> QED BY <1>1, <1>2, <1>3, <1>4

(* A statement that makes an object. *)
LEMMA HomeMade ==
  ASSUME TypeOK, HeldAtHome, NEW p \in Processes, NEW o \in Objects,
         NEW wait \in Places, NEW then \in Places,
         Make(p, o, wait, then) \/ Waited(p, o, then),
         \/ o \in Files /\ pc[p] \in {"sql", "wait_sql"}
         \/ o = Tracking /\ pc[p] \in {"create", "wait_create"} /\ then = "select"
         \/ o = Events /\ pc[p] \in {"events", "wait_events"} /\ then = "truncate"
  PROVE  HeldAtHome'
<1>1. CASE Make(p, o, wait, then)
  BY <1>1, HomeKept DEF Make
<1>2. CASE Waited(p, o, then)
  BY <1>2, HomeKept DEF Waited, Refuse
<1> QED BY <1>1, <1>2

LEMMA HomeStep ==
  ASSUME SchemaInv, HeldAtHome, [Next]_vars
  PROVE  HeldAtHome'
<1> USE MigrationsAssumption DEF SchemaInv
<1>1. CASE UNCHANGED vars
  BY <1>1 DEF vars, migrationVars, HeldAtHome
<1>2. ASSUME NEW p \in Processes, Migrate(p) \/ Launch(p) \/ Fail(p)
      PROVE  HeldAtHome'
  <2>1. CASE Launch(p)
    BY <2>1, HomeKept DEF Launch
  <2>2. CASE Fail(p)
    BY <2>2, HomeKept DEF Fail
  <2>3. CASE Create(p)
    BY <2>3, HomeMade DEF Create
  <2>4. CASE Select(p)
    BY <2>4, HomeKept DEF Select
  <2>5. CASE CommitTracking(p)
    BY <2>5, HomeKept DEF CommitTracking, NextFile
  <2>6. CASE Sql(p)
    <3>1. file[p] \in Files /\ file[p] \in Objects
      BY <2>6 DEF Sql, InItsPlace, TypeOK
    <3> QED BY <2>6, <3>1, HomeMade DEF Sql
  <2>7. CASE Record(p)
    BY <2>7, HomeKept DEF Record, Refuse
  <2>8. CASE Commit(p)
    BY <2>8, HomeKept DEF Commit, NextFile
  <2> QED BY <1>2, <2>1, <2>2, <2>3, <2>4, <2>5, <2>6, <2>7, <2>8 DEF Migrate
<1>3. ASSUME NEW p \in Processes, StartRun(p) \/ LeaveSnapshot(p) \/ Project(p) \/ Ingest(p)
      PROVE  HeldAtHome'
  <2>1. CASE StartRun(p)
    <3>1. \/ pc' = [pc EXCEPT ![p] = "ingest"]
          \/ pc' = [pc EXCEPT ![p] = "refused"]
      BY <2>1 DEF StartRun
    <3> QED BY <2>1, <3>1, HomeKept DEF StartRun
  <2>2. CASE LeaveSnapshot(p)
    BY <2>2, HomeKept DEF LeaveSnapshot
  <2>3. CASE Ingest(p)
    BY <2>3 DEF Ingest, migrationVars, HeldAtHome
  <2>4. CASE ReadRows(p)
    BY <2>4, HomeKept DEF ReadRows
  <2>5. CASE CreateEvents(p)
    BY <2>5, HomeMade DEF CreateEvents
  <2>6. CASE Truncate(p)
    BY <2>6, HomeKept DEF Truncate, TakesTable
  <2>7. CASE Replace(p)
    BY <2>7, HomeKept DEF Replace
  <2> QED BY <1>3, <2>1, <2>2, <2>3, <2>4, <2>5, <2>6, <2>7 DEF Project
<1> QED BY <1>1, <1>2, <1>3 DEF Next, ProcessStep, Interrupt, AllEnded

(* One process's step: which way it goes, and what it knows of its file. *)
LEMMA MovesFurther ==
  ASSUME SchemaInv, ComesToFile, NEW p \in Processes,
         \/ Migrate(p) \/ Launch(p) \/ Fail(p)
         \/ StartRun(p) \/ LeaveSnapshot(p) \/ Project(p)
  PROVE  /\ Further(p)
         /\ pc'[p] \in {"off"} \cup Tracked => file'[p] = 0
         /\ pc'[p] \in InFile => file'[p] \notin already'[p]
         /\ pc[p] \in InFile /\ pc'[p] = "refused" => file[p] \in recorded \ already[p]
         /\ \A q \in Processes \ {p} :
              pc'[q] = pc[q] /\ file'[q] = file[q] /\ already'[q] = already[q]
<1> USE MigrationsAssumption DEF SchemaInv, TypeOK, Further, Stage
<1>1. CASE Launch(p) \/ Fail(p) \/ Select(p) \/ StartRun(p) \/ LeaveSnapshot(p)
  BY <1>1 DEF ComesToFile, Launch, Fail, Select, StartRun, LeaveSnapshot
<1>2. CASE Create(p)
  BY <1>2 DEF ComesToFile, Create, Make, Waited, Refuse
<1>3. CASE CommitTracking(p)
  BY <1>3 DEF ComesToFile, CommitTracking, NextFile, Pending
<1>4. CASE Sql(p)
  <2>1. file[p] \in Files /\ file[p] \notin already[p]
    BY <1>4 DEF Sql, InItsPlace, ComesToFile
  <2>2. file[p] \in made => file[p] \in recorded
    BY <2>1, RecordedAreMade
  <2> QED BY <1>4, <2>1, <2>2 DEF ComesToFile, Sql, Make, Waited, Refuse
<1>5. CASE Record(p)
  BY <1>5 DEF ComesToFile, Record, Conflicts, Refuse
<1>6. CASE Commit(p)
  BY <1>6 DEF ComesToFile, Commit, NextFile, Pending
<1>7. CASE ReadRows(p) \/ Truncate(p) \/ Replace(p)
  BY <1>7 DEF ReadRows, Truncate, Replace
<1>8. CASE CreateEvents(p)
  BY <1>8 DEF CreateEvents, Make, Waited, Refuse
<1> QED BY <1>1, <1>2, <1>3, <1>4, <1>5, <1>6, <1>7, <1>8 DEF Migrate, Project

LEMMA WaitStep ==
  ASSUME WaitInv, [Next]_vars
  PROVE  /\ WaitInv'
         /\ \A p \in Processes : pc'[p] # pc[p] \/ file'[p] # file[p] => Further(p)
         /\ \A p \in Processes :
              pc[p] \in InFile /\ pc'[p] = "refused" => file[p] \in recorded \ already[p]
<1> USE DEF WaitInv
<1>1. SchemaInv' /\ Holding' /\ HeldAtHome'
  BY SchemaStep, HoldingStep, HomeStep DEF SchemaInv
<1>2. CASE UNCHANGED <<pc, file, already>>
  BY <1>1, <1>2 DEF ComesToFile
<1>3. ASSUME NEW p \in Processes,
             \/ Migrate(p) \/ Launch(p) \/ Fail(p)
             \/ StartRun(p) \/ LeaveSnapshot(p) \/ Project(p)
      PROVE  /\ ComesToFile'
             /\ \A q \in Processes : pc'[q] # pc[q] \/ file'[q] # file[q] => Further(q)
             /\ \A q \in Processes :
                  pc[q] \in InFile /\ pc'[q] = "refused" => file[q] \in recorded \ already[q]
  BY <1>3, MovesFurther DEF ComesToFile
<1>4. UNCHANGED vars \/ (\E p \in Processes : Ingest(p)) => UNCHANGED <<pc, file, already>>
  BY DEF vars, migrationVars, Ingest
<1> QED BY <1>1, <1>2, <1>3, <1>4 DEF Next, ProcessStep, Interrupt, AllEnded

LEMMA WaitInvariance == Spec => []WaitInv
<1>1. ProcessesInit => WaitInv
  <2> USE MigrationsAssumption DEF ProcessesInit, Init
  <2>1. ProcessesInit => Holding /\ HeldAtHome
    BY DEF Holding, HeldAtHome
  <2>2. ProcessesInit => ComesToFile
    BY DEF ComesToFile
  <2> QED BY <2>1, <2>2, SchemaInit DEF WaitInv
<1>2. WaitInv /\ [Next]_vars => WaitInv'
  BY WaitStep
<1> QED BY <1>1, <1>2, PTL DEF Spec

(* A process that waits for a table another one is making, in either         *)
(* database, holds none itself, and the other one waits for nobody: there is *)
(* no circle, however many start at once.                                    *)
THEOREM ProcessesNeverCircle == Spec => []NoneWaitsForAWaiter
<1>1. WaitInv => NoneWaitsForAWaiter
  <2> SUFFICES ASSUME WaitInv, NEW p \in Processes, MustWait(p)
               PROVE  /\ maker[Needs(p)] \in Processes \ {p}
                      /\ ~MustWait(maker[Needs(p)])
    BY DEF NoneWaitsForAWaiter
  <2> USE MigrationsAssumption DEF WaitInv, SchemaInv
  <2> DEFINE q == maker[Needs(p)]
  <2>1. CASE pc[p] = "wait_create"
    <3>1. Needs(p) = Tracking
      BY <2>1 DEF Needs
    <3>2. q \in Processes /\ pc[q] \in {"select", "commit_tracking"}
      BY <3>1 DEF MustWait, HeldAtHome, TypeOK
    <3> QED BY <2>1, <3>2 DEF MustWait
  <2>2. CASE pc[p] = "wait_sql"
    <3>1. Needs(p) = file[p] /\ file[p] \in Files
      BY <2>2 DEF Needs, InItsPlace
    <3>2. q \in Processes /\ pc[q] \in {"record", "commit"}
      BY <3>1 DEF MustWait, OpenOnes, TypeOK
    <3> QED BY <2>2, <3>2 DEF MustWait
  <2>3. CASE pc[p] \in {"wait_events", "truncate"}
    <3>1. Needs(p) = Events
      BY <2>3 DEF Needs
    <3>2. q \in Processes /\ pc[q] \in {"truncate", "replace"} /\ maker[Events] = q
      BY <3>1 DEF MustWait, HeldAtHome, TypeOK
    <3>3. q # p
      BY <2>3, <3>1, <3>2 DEF MustWait
    <3> QED BY <3>2, <3>3 DEF MustWait
  <2> QED BY <2>1, <2>2, <2>3 DEF MustWait
<1> QED BY <1>1, WaitInvariance, PTL

(* No process goes back, not to a file and not to a statement: with the      *)
(* theorem before, what ProcessesEnd needs of the steps.                     *)
THEOREM ProcessesOnlyGoOn == Spec => OnlyFurther
<1>1. WaitInv /\ [Next]_vars =>
        [\A p \in Processes : pc'[p] # pc[p] \/ file'[p] # file[p] => Further(p)]_vars
  BY WaitStep
<1> QED BY <1>1, WaitInvariance, PTL DEF Spec, OnlyFurther

(* Where a process ends in a unique violation on a file, the file has been   *)
(* applied meanwhile: the losers of a common start never lose it for all.    *)
THEOREM RefusalsAreOvertakings == Spec => RefusedWhenOvertaken
<1>1. WaitInv /\ [Next]_vars =>
        [\A p \in Processes :
           pc[p] \in InFile /\ pc'[p] = "refused" => file[p] \in recorded \ already[p]]_vars
  BY WaitStep
<1> QED BY <1>1, WaitInvariance, PTL DEF Spec, RefusedWhenOvertaken
=============================================================================
