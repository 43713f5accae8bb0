------------------------ MODULE BronzeWriterProofs --------------------------
(***************************************************************************)
(* Proofs about BronzeWriter, for any number of processes and payloads:    *)
(* write_bronze is an atomic compare-and-append, unless two processes meet *)
(* on a key that has never been written.                                   *)
(***************************************************************************)
EXTENDS MCBronzeWriter, TLAPS

(* At most one process is in a transaction. *)
Alone == \A v, w \in Writers : pc[v] # "idle" /\ pc[w] # "idle" => v = w

(* Two processes never meet on an unknown key; `met` says whether they have   *)
(* met on a known one.                                                        *)
MeetOnKnown ==
  /\ FirstAlone /\ latest = NoRow => Alone
  /\ ~met => Alone

(* What a writer concluded from its SELECT stays true until it commits, since *)
(* it holds the row's lock; with no row yet, it is alone.                     *)
Concluded ==
  FirstAlone \/ ~met =>
    \A w \in Writers : pc[w] \in {"upsert", "commit"} =>
      /\ changed[w] = (latest # payload[w])
      /\ latest # NoRow => locker = {w}

(* Among rows, ingested_at agrees with the order of the commits as long as    *)
(* processes take turns, and the last row is the one the hash is taken from.  *)
InTurn ==
  ~met =>
    /\ \A w \in Writers : pc[w] # "idle" =>
         /\ began[w] = clock
         /\ \A i \in DOMAIN rows : rows[i].ingested_at < clock
    /\ \A i \in DOMAIN rows : rows[i].ingested_at <= clock
    /\ \A i, j \in DOMAIN rows : i < j => rows[i].ingested_at < rows[j].ingested_at
    /\ rows # <<>> => rows[Len(rows)].payload = latest

IInv == TypeOK /\ MeetOnKnown /\ Concluded /\ InTurn

-----------------------------------------------------------------------------
LEMMA RowType ==
  ASSUME NEW s \in Seq(Rows), NEW i \in 1..Len(s)
  PROVE  s[i].payload \in Payloads /\ s[i].ingested_at \in Nat
<1>1. s[i] \in Rows
  OBVIOUS
<1> QED BY <1>1 DEF Rows

LEMMA InitEstablishes == Init => IInv
<1> SUFFICES ASSUME Init PROVE IInv
  OBVIOUS
<1>1. TypeOK
  <2>1. rows \in Seq(Rows) /\ latest \in Payloads \cup {NoRow}
    <3>1. CASE rows # <<>>
      <4>1. PICK p \in Payloads : rows = <<[payload |-> p, ingested_at |-> 0]>> /\ latest = p
        BY <3>1 DEF Init
      <4>2. [payload |-> p, ingested_at |-> 0] \in Rows
        BY DEF Rows
      <4> QED BY <4>1, <4>2
    <3>2. CASE rows = <<>>
      BY <3>2 DEF Init
    <3> QED BY <3>1, <3>2
  <2> QED BY <2>1 DEF Init, TypeOK, Points
<1>2. MeetOnKnown /\ Concluded
  BY BronzeWriterAssumption DEF Init, MeetOnKnown, Alone, Concluded
<1>3. InTurn
  <2>1. CASE rows = <<>>
    BY <2>1 DEF Init, InTurn
  <2>2. CASE rows # <<>>
    BY <2>2 DEF Init, InTurn
  <2> QED BY <2>1, <2>2
<1> QED BY <1>1, <1>2, <1>3 DEF IInv

(* What publishing does to the rows. *)
LEMMA PublishAppends ==
  ASSUME TypeOK, NEW w \in Writers, Publish(w)
  PROVE  /\ rows' \in Seq(Rows) /\ Len(rows') = Len(rows) + 1 /\ Len(rows) \in Nat
         /\ \A i \in 1..Len(rows) : rows'[i] = rows[i]
         /\ rows'[Len(rows) + 1] = [payload |-> payload[w], ingested_at |-> began[w]]
<1>1. [payload |-> payload[w], ingested_at |-> began[w]] \in Rows /\ rows \in Seq(Rows)
  BY DEF TypeOK, Rows
<1> QED BY <1>1 DEF Publish

LEMMA TypeKeeps == ASSUME TypeOK, [Next]_vars PROVE TypeOK'
<1>1. CASE UNCHANGED vars
  BY <1>1 DEF vars, TypeOK
<1>2. ASSUME NEW w \in Writers, Begin(w) PROVE TypeOK'
  BY <1>2 DEF TypeOK, Begin, Goto, Points
<1>3. ASSUME NEW w \in Writers, Select(w) PROVE TypeOK'
  BY <1>3 DEF TypeOK, Select, ForUpdate, Changed, Goto, Points
<1>4. ASSUME NEW w \in Writers, Upsert(w) PROVE TypeOK'
  BY <1>4 DEF TypeOK, Upsert, Goto, Points
<1>5. ASSUME NEW w \in Writers, Commit(w) PROVE TypeOK'
  <2>1. rows' \in Seq(Rows) /\ latest' \in Payloads \cup {NoRow}
    BY <1>5, PublishAppends DEF TypeOK, Commit, Publish
  <2> QED BY <1>5, <2>1 DEF TypeOK, Commit, Goto, Points
<1>6. ASSUME NEW w \in Writers, Rollback(w) PROVE TypeOK'
  BY <1>6 DEF TypeOK, Rollback, Release, Goto, Points
<1> QED BY <1>1, <1>2, <1>3, <1>4, <1>5, <1>6 DEF Next, Proceed, AllDone

LEMMA BeginKeeps == ASSUME IInv, NEW w \in Writers, Begin(w) PROVE IInv'
<1>1. TypeOK'
  BY TypeKeeps DEF IInv, Next
<1>2. MeetOnKnown'
  BY DEF IInv, TypeOK, MeetOnKnown, Alone, Begin, Goto
<1>3. Concluded'
  BY DEF IInv, TypeOK, Concluded, Begin, Goto
<1>4. InTurn'
  <2> SUFFICES ASSUME ~met' PROVE InTurn'
    BY DEF InTurn
  <2>0. ~met /\ \A v \in Writers : pc[v] = "idle"
    BY DEF Begin, IInv, TypeOK
  <2>1. /\ rows \in Seq(Rows) /\ rows' = rows /\ latest' = latest
        /\ clock \in Nat /\ clock' = clock + 1
    BY DEF IInv, TypeOK, Begin
  <2>2. \A i \in DOMAIN rows : rows[i].ingested_at \in Nat /\ rows[i].ingested_at < clock'
    BY <2>0, <2>1, RowType DEF IInv, InTurn
  <2>3. \A v \in Writers : pc'[v] # "idle" => began'[v] = clock'
    BY <2>0 DEF IInv, TypeOK, Begin, Goto
  <2> QED BY <2>0, <2>1, <2>2, <2>3 DEF IInv, InTurn
<1> QED BY <1>1, <1>2, <1>3, <1>4 DEF IInv

LEMMA SelectKeeps == ASSUME IInv, NEW w \in Writers, Select(w) PROVE IInv'
<1>1. TypeOK'
  BY TypeKeeps DEF IInv, Next, Proceed
<1>2. MeetOnKnown'
  BY DEF IInv, TypeOK, MeetOnKnown, Alone, Select, Goto
<1>3. Concluded'
  BY DEF IInv, TypeOK, Concluded, Select, ForUpdate, Changed, Goto
<1>4. InTurn'
  BY DEF IInv, TypeOK, InTurn, Select, Goto
<1> QED BY <1>1, <1>2, <1>3, <1>4 DEF IInv

LEMMA UpsertKeeps == ASSUME IInv, NEW w \in Writers, Upsert(w) PROVE IInv'
<1>1. TypeOK'
  BY TypeKeeps DEF IInv, Next, Proceed
<1>2. MeetOnKnown'
  BY DEF IInv, TypeOK, MeetOnKnown, Alone, Upsert, Goto
<1>3. Concluded'
  BY DEF IInv, TypeOK, Concluded, Upsert, Goto
<1>4. InTurn'
  BY DEF IInv, TypeOK, InTurn, Upsert, Goto
<1> QED BY <1>1, <1>2, <1>3, <1>4 DEF IInv

LEMMA RollbackKeeps == ASSUME IInv, NEW w \in Writers, Rollback(w) PROVE IInv'
<1>1. TypeOK'
  BY TypeKeeps DEF IInv, Next
<1>2. MeetOnKnown'
  BY DEF IInv, TypeOK, MeetOnKnown, Alone, Rollback, Goto
<1>3. Concluded'
  BY DEF IInv, TypeOK, Concluded, Rollback, Release, Goto
<1>4. InTurn'
  BY DEF IInv, TypeOK, InTurn, Rollback, Goto
<1> QED BY <1>1, <1>2, <1>3, <1>4 DEF IInv

LEMMA CommitKeeps ==
  ASSUME IInv, NEW w \in Writers, Commit(w) PROVE IInv'
<1>1. TypeOK'
  BY TypeKeeps DEF IInv, Next, Proceed
<1>2. MeetOnKnown'
  BY BronzeWriterAssumption DEF IInv, TypeOK, MeetOnKnown, Alone, Commit, Publish, Goto
<1>3. Concluded'
  <2> SUFFICES ASSUME FirstAlone \/ ~met,
                      NEW v \in Writers, pc'[v] \in {"upsert", "commit"}
               PROVE  FALSE
    BY DEF Concluded, Commit
  <2>1. v # w /\ pc[v] \in {"upsert", "commit"} /\ pc[w] = "commit"
    BY DEF IInv, TypeOK, Commit, Goto
  <2>2. CASE latest # NoRow
    BY <2>1, <2>2 DEF IInv, Concluded
  <2>3. CASE latest = NoRow
    BY <2>1, <2>3 DEF IInv, MeetOnKnown, Alone
  <2> QED BY <2>2, <2>3
<1>4. InTurn'
  <2> SUFFICES ASSUME ~met PROVE InTurn'
    BY DEF InTurn, Commit
  <2>1. \A v \in Writers : pc'[v] = "idle"
    BY DEF IInv, TypeOK, MeetOnKnown, Alone, Commit, Goto
  <2>2. CASE ~changed[w]
    BY <2>1, <2>2 DEF IInv, InTurn, Commit
  <2>3. CASE changed[w]
    <3> DEFINE n == Len(rows)
    <3>1. /\ rows \in Seq(Rows) /\ n \in Nat /\ rows' \in Seq(Rows) /\ Len(rows') = n + 1
          /\ \A i \in 1..n : rows'[i] = rows[i]
          /\ rows'[n + 1].payload = payload[w] /\ rows'[n + 1].ingested_at = began[w]
          /\ latest' = payload[w] /\ clock' = clock /\ clock \in Nat
      <4>1. TypeOK /\ Publish(w) /\ clock' = clock
        BY <2>3 DEF IInv, Commit
      <4>2. /\ rows' \in Seq(Rows) /\ Len(rows') = n + 1 /\ n \in Nat
            /\ \A i \in 1..n : rows'[i] = rows[i]
            /\ rows'[n + 1] = [payload |-> payload[w], ingested_at |-> began[w]]
        BY <4>1, PublishAppends
      <4>3. rows \in Seq(Rows) /\ clock \in Nat /\ latest' = payload[w]
        BY <4>1 DEF TypeOK, Publish
      <4> QED BY <4>1, <4>2, <4>3
    <3>2. /\ began[w] = clock
          /\ \A i \in 1..n : rows[i].ingested_at < clock
          /\ \A i, j \in 1..n : i < j => rows[i].ingested_at < rows[j].ingested_at
      BY <3>1 DEF IInv, InTurn, Commit
    <3>3. DOMAIN rows' = 1..(n + 1)
      BY <3>1
    <3>4. \A i \in 1..n : rows[i].ingested_at \in Nat
      BY <3>1, RowType
    <3> HIDE DEF n
    <3>5. \A i \in 1..(n + 1) : rows'[i].ingested_at <= clock'
      BY <3>1, <3>2, <3>4
    <3>6. \A i, j \in 1..(n + 1) : i < j => rows'[i].ingested_at < rows'[j].ingested_at
      <4> SUFFICES ASSUME NEW i \in 1..(n + 1), NEW j \in 1..(n + 1), i < j
                   PROVE  rows'[i].ingested_at < rows'[j].ingested_at
        OBVIOUS
      <4>1. i \in 1..n /\ rows'[i] = rows[i]
        BY <3>1
      <4>2. CASE j = n + 1
        BY <3>1, <3>2, <4>1, <4>2
      <4>3. CASE j \in 1..n
        BY <3>1, <3>2, <4>1, <4>3
      <4> QED BY <3>1, <4>2, <4>3
    <3>7. rows'[Len(rows')].payload = latest'
      BY <3>1
    <3> QED BY <2>1, <3>3, <3>5, <3>6, <3>7 DEF InTurn
  <2> QED BY <2>2, <2>3
<1> QED BY <1>1, <1>2, <1>3, <1>4 DEF IInv

LEMMA StepKeeps == ASSUME IInv, [Next]_vars PROVE IInv'
<1>1. CASE UNCHANGED vars
  BY <1>1 DEF vars, IInv, TypeOK, MeetOnKnown, Alone, Concluded, InTurn
<1>2. CASE AllDone
  BY <1>1, <1>2 DEF AllDone
<1>3. ASSUME NEW w \in Writers, Begin(w) \/ Proceed(w) \/ Rollback(w) PROVE IInv'
  BY <1>3, BeginKeeps, SelectKeeps, UpsertKeeps, CommitKeeps, RollbackKeeps DEF Proceed
<1> QED BY <1>1, <1>2, <1>3 DEF Next

(* The writers' state is well typed; whoever meets on whatever key, one       *)
(* transaction at most holds the row, and none that has ended.                *)
THEOREM TypeCorrect == Spec => []TypeOK
<1>1. Init => TypeOK
  BY InitEstablishes DEF IInv
<1> QED BY <1>1, TypeKeeps, PTL DEF Spec

THEOREM Invariance == Spec => []IInv
BY InitEstablishes, StepKeeps, PTL DEF Spec

-----------------------------------------------------------------------------
LEMMA InitAbstract == Init => Log!Init
<1> SUFFICES ASSUME Init PROVE Log!Init
  OBVIOUS
<1>1. CASE rows # <<>>
  <2>1. PICK p \in Payloads : rows = <<[payload |-> p, ingested_at |-> 0]>> /\ latest = p
    BY <1>1 DEF Init
  <2>2. [i \in DOMAIN rows |-> rows[i].payload] = <<p>>
    BY <2>1
  <2> QED BY <2>1, <2>2 DEF Log!Init
<1>2. CASE rows = <<>>
  <2>1. rows = <<>> /\ latest = NoRow
    BY <1>2 DEF Init
  <2>2. [i \in DOMAIN rows |-> rows[i].payload] = <<>>
    BY <2>1
  <2> QED BY <2>1, <2>2 DEF Log!Init
<1> QED BY <1>1, <1>2

(* A commit that publishes is the abstract Write; nothing else is seen.      *)
LEMMA StepAbstract ==
  ASSUME FirstAlone, IInv, [Next]_vars
  PROVE  [Log!Next]_<<[i \in DOMAIN rows |-> rows[i].payload], latest>>
<1>1. CASE UNCHANGED <<rows, latest>>
  BY <1>1
<1>2. ASSUME NEW w \in Writers, Commit(w), changed[w] PROVE Log!Write(payload[w])
  <2> DEFINE view == [i \in DOMAIN rows |-> rows[i].payload]
  <2>1. Publish(w) /\ TypeOK /\ payload[w] \in Payloads /\ latest # payload[w]
    BY <1>2 DEF Commit, IInv, TypeOK, Concluded
  <2>2. /\ rows' \in Seq(Rows) /\ Len(rows') = Len(rows) + 1 /\ Len(rows) \in Nat
        /\ \A i \in 1..Len(rows) : rows'[i] = rows[i]
        /\ rows'[Len(rows) + 1].payload = payload[w]
    <3>1. rows'[Len(rows) + 1] = [payload |-> payload[w], ingested_at |-> began[w]]
      BY <2>1, PublishAppends
    <3>2. rows'[Len(rows) + 1].payload = payload[w]
      BY <3>1
    <3> QED BY <2>1, <3>2, PublishAppends
  <2>3. rows \in Seq(Rows)
    BY <2>1 DEF TypeOK
  <2>4. view \in Seq(Payloads) /\ Len(view) = Len(rows)
        /\ \A i \in 1..Len(rows) : view[i] = rows[i].payload
    BY <2>3, RowType
  <2>5. view' \in Seq(Payloads) /\ Len(view') = Len(rows) + 1
        /\ \A i \in 1..(Len(rows) + 1) : view'[i] = rows'[i].payload
    BY <2>2, RowType
  <2> HIDE DEF view
  <2>6. view' = Append(view, payload[w])
    BY <2>1, <2>2, <2>4, <2>5
  <2> QED BY <2>1, <2>6 DEF view, Log!Write, Publish
<1>3. ASSUME NEW w \in Writers, Begin(w) \/ Proceed(w) \/ Rollback(w)
      PROVE  UNCHANGED <<rows, latest>> \/ Log!Next
  <2>1. CASE Commit(w) /\ changed[w]
    <3>1. PICK p \in Payloads : p = payload[w]
      BY DEF IInv, TypeOK
    <3>2. Log!Write(p)
      BY <1>2, <2>1, <3>1 DEF Log!Write
    <3> QED BY <3>2 DEF Log!Next
  <2>2. CASE ~(Commit(w) /\ changed[w])
    BY <1>3, <2>2 DEF Begin, Proceed, Select, Upsert, Commit, Rollback
  <2> QED BY <2>1, <2>2
<1> QED BY <1>1, <1>3 DEF Next, AllDone, vars

(* write_bronze is atomic, and appends what has changed only, with any number *)
(* of processes, as long as the first to write a key is alone.                *)
THEOREM LogImplemented == ASSUME FirstAlone PROVE Spec => ImplementsLog
BY Invariance, InitAbstract, StepAbstract, PTL DEF Spec, ImplementsLog, Log!Spec

(* As long as processes have taken turns, they read what was written last.    *)
THEOREM ReadersAreCurrent == Spec => []ReadersSeeLatest
<1>1. IInv => ReadersSeeLatest
  <2> SUFFICES ASSUME IInv, ~met, NEW i \in DOMAIN rows,
                      \A k \in DOMAIN rows : rows[k].ingested_at <= rows[i].ingested_at
               PROVE  rows[i].payload = latest
    BY DEF ReadersSeeLatest, Newest
  <2> DEFINE n == Len(rows)
  <2>1. rows \in Seq(Rows) /\ n \in Nat /\ i \in 1..n /\ n \in DOMAIN rows /\ rows # <<>>
    BY DEF IInv, TypeOK
  <2>2. rows[n].payload = latest /\ (i < n => rows[i].ingested_at < rows[n].ingested_at)
    BY <2>1 DEF IInv, InTurn
  <2>3. rows[i].ingested_at \in Nat /\ rows[n].ingested_at \in Nat
        /\ rows[n].ingested_at <= rows[i].ingested_at
    BY <2>1, RowType
  <2> QED BY <2>1, <2>2, <2>3
<1> QED BY <1>1, Invariance, PTL
-----------------------------------------------------------------------------
(* The hash is that of the last row, whoever meets whom; and two rows in a    *)
(* row with the same payload take two writers that met on an unknown key.     *)
LastIsHashed == rows # <<>> => rows[Len(rows)].payload = latest

DuplicatesNeedCompany == FirstAlone \/ ~met => NoDuplicates

LEMMA DuplicatesCommit ==
  ASSUME IInv, LastIsHashed, DuplicatesNeedCompany, NEW w \in Writers, Commit(w)
  PROVE  LastIsHashed' /\ DuplicatesNeedCompany'
<1>1. CASE ~changed[w]
  BY <1>1 DEF Commit, LastIsHashed, DuplicatesNeedCompany, NoDuplicates
<1>2. CASE changed[w]
  <2> DEFINE n == Len(rows)
  <2>1. Publish(w) /\ met' = met /\ rows \in Seq(Rows)
    BY <1>2 DEF Commit, IInv, TypeOK
  <2>2. /\ rows' \in Seq(Rows) /\ Len(rows') = n + 1 /\ n \in Nat
        /\ \A i \in 1..n : rows'[i] = rows[i]
        /\ rows'[n + 1] = [payload |-> payload[w], ingested_at |-> began[w]]
    BY <2>1, PublishAppends DEF IInv
  <2>3. rows'[n + 1].payload = payload[w] /\ latest' = payload[w]
    BY <2>1, <2>2 DEF Publish
  <2>4. LastIsHashed'
    BY <2>2, <2>3 DEF LastIsHashed
  <2>5. ASSUME FirstAlone \/ ~met, NEW i \in 2..(n + 1)
        PROVE  rows'[i].payload # rows'[i - 1].payload
    <3>1. CASE i \in 2..n
      <4>1. rows'[i] = rows[i] /\ rows'[i - 1] = rows[i - 1]
        BY <2>2, <3>1
      <4> QED BY <2>5, <3>1, <4>1 DEF DuplicatesNeedCompany, NoDuplicates
    <3>2. CASE i = n + 1
      <4>1. rows'[i - 1] = rows[n] /\ rows # <<>>
        BY <2>1, <2>2, <3>2
      <4>2. rows[n].payload = latest
        BY <4>1 DEF LastIsHashed
      <4>3. latest # payload[w]
        BY <1>2, <2>5 DEF Commit, IInv, Concluded
      <4> QED BY <2>3, <3>2, <4>1, <4>2, <4>3
    <3> QED BY <2>2, <3>1, <3>2
  <2>6. Len(rows') = n + 1 /\ met' = met
    BY <2>1, <2>2
  <2> QED BY <2>4, <2>5, <2>6 DEF DuplicatesNeedCompany, NoDuplicates
<1> QED BY <1>1, <1>2 DEF IInv, TypeOK

(* README.md:139's "hash dedup at the row level" holds wherever the first to  *)
(* write a key is alone, and anyway until two processes have met on the key:  *)
(* what refutes it is a first write in company and nothing else.              *)
THEOREM DuplicatesTakeTwo == Spec => []DuplicatesNeedCompany
<1>1. Init => LastIsHashed /\ DuplicatesNeedCompany
  <2> SUFFICES ASSUME Init PROVE LastIsHashed /\ NoDuplicates
    BY DEF DuplicatesNeedCompany
  <2>1. CASE rows = <<>>
    BY <2>1 DEF LastIsHashed, NoDuplicates
  <2>2. CASE \E p \in Payloads : rows = <<[payload |-> p, ingested_at |-> 0]>> /\ latest = p
    BY <2>2 DEF LastIsHashed, NoDuplicates
  <2> QED BY <2>1, <2>2 DEF Init
<1>2. IInv /\ LastIsHashed /\ DuplicatesNeedCompany /\ [Next]_vars
        => LastIsHashed' /\ DuplicatesNeedCompany'
  <2> SUFFICES ASSUME IInv, LastIsHashed, DuplicatesNeedCompany, [Next]_vars
               PROVE  LastIsHashed' /\ DuplicatesNeedCompany'
    OBVIOUS
  <2>1. ASSUME UNCHANGED <<rows, latest>>, met' = met \/ met' = TRUE
        PROVE  LastIsHashed' /\ DuplicatesNeedCompany'
    BY <2>1 DEF LastIsHashed, DuplicatesNeedCompany, NoDuplicates
  <2>2. ASSUME NEW w \in Writers, Begin(w)
        PROVE  UNCHANGED <<rows, latest>> /\ (met' = met \/ met' = TRUE)
    BY <2>2 DEF Begin, IInv, TypeOK
  <2>3. ASSUME NEW w \in Writers, Select(w) \/ Upsert(w) \/ Rollback(w)
        PROVE  UNCHANGED <<rows, latest, met>>
    BY <2>3 DEF Select, Upsert, Rollback
  <2>4. CASE AllDone \/ UNCHANGED vars
    BY <2>1, <2>4 DEF AllDone, vars
  <2> QED BY <2>1, <2>2, <2>3, <2>4, DuplicatesCommit DEF Next, Proceed
<1> QED BY <1>1, <1>2, Invariance, PTL DEF Spec
-----------------------------------------------------------------------------
(* What makes every transaction end, short of the fairness that drives it:    *)
(* whoever holds the row waits for nobody, so of the writers at work one can  *)
(* always go on; and each step takes one writer on and leaves the others.     *)
HolderGoesOn == \A w \in locker : pc[w] \in {"upsert", "commit"}

CanProceed(w) ==
  \/ pc[w] = "select" /\ (latest = NoRow \/ locker = {})
  \/ pc[w] = "upsert" /\ locker \subseteq {w}
  \/ pc[w] = "commit"

SomeoneProceeds ==
  (\E w \in Writers : pc[w] # "idle") => \E w \in Writers : CanProceed(w)

After(point) ==
  CASE point = "select" -> {"upsert", "idle"}
    [] point = "upsert" -> {"commit", "idle"}
    [] OTHER -> {"idle"}

StepsOn ==
  [][(\A w \in Writers : pc[w] = "idle" \/ pc'[w] = pc[w])
     \/ \E w \in Writers : /\ pc'[w] \in After(pc[w])
                           /\ \A v \in Writers : v # w => pc'[v] = pc[v]]_vars

LEMMA HolderStep == TypeOK /\ HolderGoesOn /\ [Next]_vars => HolderGoesOn'
<1> SUFFICES ASSUME TypeOK, HolderGoesOn, [Next]_vars PROVE HolderGoesOn'
  OBVIOUS
<1> USE DEF TypeOK, HolderGoesOn, Goto
<1>1. ASSUME NEW w \in Writers, Begin(w) PROVE HolderGoesOn'
  BY <1>1 DEF Begin
<1>2. ASSUME NEW w \in Writers, Select(w) PROVE HolderGoesOn'
  BY <1>2 DEF Select, ForUpdate
<1>3. ASSUME NEW w \in Writers, Upsert(w) PROVE HolderGoesOn'
  BY <1>3 DEF Upsert
<1>4. ASSUME NEW w \in Writers, Commit(w) PROVE HolderGoesOn'
  BY <1>4 DEF Commit
<1>5. ASSUME NEW w \in Writers, Rollback(w) PROVE HolderGoesOn'
  BY <1>5 DEF Rollback, Release
<1>6. CASE AllDone \/ UNCHANGED vars
  BY <1>6 DEF AllDone, vars
<1> QED BY <1>1, <1>2, <1>3, <1>4, <1>5, <1>6 DEF Next, Proceed

(* No two writers wait for each other: while any transaction is open, one of  *)
(* them finds its lock free, for any number of processes on the key.          *)
THEOREM WritersNeverStuck == Spec => []SomeoneProceeds
<1>1. Init => HolderGoesOn
  BY DEF Init, HolderGoesOn
<1>2. TypeOK /\ HolderGoesOn => SomeoneProceeds
  <2> SUFFICES ASSUME TypeOK, HolderGoesOn, NEW w \in Writers, pc[w] # "idle"
               PROVE  \E v \in Writers : CanProceed(v)
    BY DEF SomeoneProceeds
  <2>1. CASE locker = {}
    <3>1. CanProceed(w)
      BY <2>1 DEF TypeOK, Points, CanProceed
    <3> QED BY <3>1
  <2>2. CASE locker # {}
    <3>1. PICK v \in Writers : v \in locker
      BY <2>2 DEF TypeOK
    <3>2. CanProceed(v)
      BY <3>1 DEF TypeOK, HolderGoesOn, CanProceed
    <3> QED BY <3>2
  <2> QED BY <2>1, <2>2
<1> QED BY <1>1, <1>2, HolderStep, TypeCorrect, PTL DEF Spec

(* A transaction only goes on to its next statement or to its end, and is     *)
(* taken there by its own steps: at most three of them after its BEGIN.       *)
THEOREM WritersStepOn == Spec => StepsOn
<1> DEFINE P == (\A w \in Writers : pc[w] = "idle" \/ pc'[w] = pc[w])
                \/ \E w \in Writers : /\ pc'[w] \in After(pc[w])
                                      /\ \A v \in Writers : v # w => pc'[v] = pc[v]
<1>1. TypeOK /\ [Next]_vars => [P]_vars
  <2> SUFFICES ASSUME TypeOK, Next PROVE P
    OBVIOUS
  <2>1. ASSUME NEW w \in Writers, Begin(w) PROVE \A v \in Writers : pc[v] = "idle" \/ pc'[v] = pc[v]
    BY <2>1 DEF Begin, Goto, TypeOK
  <2>2. ASSUME NEW w \in Writers, Proceed(w) \/ Rollback(w)
        PROVE  pc'[w] \in After(pc[w]) /\ \A v \in Writers : v # w => pc'[v] = pc[v]
    BY <2>2 DEF Proceed, Select, Upsert, Commit, Rollback, Goto, After, TypeOK, Points
  <2>3. CASE AllDone
    BY <2>3 DEF AllDone, vars
  <2> QED BY <2>1, <2>2, <2>3 DEF Next
<1> QED BY <1>1, TypeCorrect, PTL DEF Spec, StepsOn
=============================================================================
