---------------------------- MODULE BronzeWriter ----------------------------
(***************************************************************************)
(* write_bronze (db/bronze_writer.py) on one (endpoint, request_params),   *)
(* statement by statement, by several processes: a scheduled run, and a    *)
(* backfill started by hand while it is under way. Within a process a key  *)
(* is written by one task at a time.                                       *)
(*                                                                         *)
(* Postgres runs at READ COMMITTED. The row lock of SELECT .. FOR UPDATE   *)
(* is held to the end of the transaction, and a row that is not there is   *)
(* not locked: then only the unique key of the upsert makes two writers    *)
(* wait for each other. now() is the time at which a transaction began.    *)
(***************************************************************************)
EXTENDS Naturals, Sequences

CONSTANTS
  Writers,    \* the processes
  Payloads,   \* payloads, each standing for its hash
  NoRow,      \* no row of the key in bronze_latest_hash
  FirstAlone, \* is nobody else at work on a key that was never written?
  MaxTxns     \* bound on the transactions begun

ASSUME BronzeWriterAssumption ==
  /\ NoRow \notin Payloads
  /\ FirstAlone \in BOOLEAN
  /\ MaxTxns \in Nat

VARIABLES
  rows,     \* committed bronze rows of the key, in the order of their commit
  latest,   \* committed last_response_hash of the key, or NoRow
  locker,   \* the writers whose transaction holds the key's row
  clock,    \* ticks at every BEGIN
  pc,       \* where each writer is
  payload,  \* what its fetch returned
  began,    \* now() in its transaction
  changed,  \* what it concluded from its SELECT
  met       \* history: two transactions on the key have overlapped

vars == <<rows, latest, locker, clock, pc, payload, began, changed, met>>

Points == {"idle", "select", "upsert", "commit"}
Rows   == [payload : Payloads, ingested_at : Nat]

TypeOK ==
  /\ rows \in Seq(Rows)
  /\ latest \in Payloads \cup {NoRow}
  /\ locker \subseteq {w \in Writers : pc[w] # "idle"} /\ \A v, w \in locker : v = w
  /\ clock \in Nat
  /\ pc \in [Writers -> Points]
  /\ payload \in [Writers -> Payloads]
  /\ began \in [Writers -> Nat]
  /\ changed \in [Writers -> BOOLEAN]
  /\ met \in BOOLEAN

Init ==
  /\ \/ rows = <<>> /\ latest = NoRow
     \/ \E p \in Payloads : /\ rows = <<[payload |-> p, ingested_at |-> 0]>>
                             /\ latest = p
  /\ locker = {} /\ clock = 0
  /\ pc = [w \in Writers |-> "idle"]
  /\ payload \in [Writers -> Payloads]
  /\ began = [w \in Writers |-> 0]
  /\ changed = [w \in Writers |-> FALSE]
  /\ met = FALSE

-----------------------------------------------------------------------------
Goto(w, there) == pc' = [pc EXCEPT ![w] = there]

(* A payload has been fetched; BEGIN. *)
Begin(w) ==
  /\ pc[w] = "idle" /\ clock < MaxTxns
  /\ FirstAlone /\ latest = NoRow => \A v \in Writers : pc[v] = "idle"
  /\ clock' = clock + 1
  /\ began' = [began EXCEPT ![w] = clock + 1]
  /\ \E p \in Payloads : payload' = [payload EXCEPT ![w] = p]
  /\ met' = (met \/ \E v \in Writers : pc[v] # "idle")
  /\ Goto(w, "select")
  /\ UNCHANGED <<rows, latest, locker, changed>>

(* Plausible bug: a plain SELECT. *)
NotLocking(w) == UNCHANGED locker

(* FOR UPDATE waits for the row and locks it, if there is one. *)
ForUpdate(w) ==
  IF latest = NoRow THEN UNCHANGED locker
  ELSE locker = {} /\ locker' = {w}

Changed(w) == latest # payload[w]

Select(w) ==
  /\ pc[w] = "select"
  /\ ForUpdate(w)
  /\ changed' = [changed EXCEPT ![w] = Changed(w)]
  /\ Goto(w, "upsert")
  /\ UNCHANGED <<rows, latest, clock, payload, began, met>>

(* INSERT INTO bronze_*, then INSERT .. ON CONFLICT DO UPDATE, which waits   *)
(* for another transaction's row of the same key; or, unchanged, an UPDATE   *)
(* of last_checked_at. Nobody else sees any of it yet.                       *)
Upsert(w) ==
  /\ pc[w] = "upsert"
  /\ locker \subseteq {w}
  /\ locker' = {w}
  /\ Goto(w, "commit")
  /\ UNCHANGED <<rows, latest, clock, payload, began, changed, met>>

(* Plausible bug: the upsert of the hash is lost. *)
RowsWithoutHash(w) ==
  /\ rows' = Append(rows, [payload |-> payload[w], ingested_at |-> began[w]])
  /\ UNCHANGED latest

Publish(w) ==
  /\ rows' = Append(rows, [payload |-> payload[w], ingested_at |-> began[w]])
  /\ latest' = payload[w]

(* COMMIT: the pool's `with connection()` ends without an exception. *)
Commit(w) ==
  /\ pc[w] = "commit"
  /\ IF changed[w] THEN Publish(w) ELSE UNCHANGED <<rows, latest>>
  /\ locker' = {}
  /\ Goto(w, "idle")
  /\ UNCHANGED <<clock, payload, began, changed, met>>

(* Plausible bug: a failed transaction is left open. *)
KeepLocks(w) == locker

Release(w) == locker \ {w}

(* A statement or the COMMIT fails, or the process dies: rolled back. *)
Rollback(w) ==
  /\ pc[w] # "idle"
  /\ locker' = Release(w)
  /\ Goto(w, "idle")
  /\ UNCHANGED <<rows, latest, clock, payload, began, changed, met>>

Proceed(w) == Select(w) \/ Upsert(w) \/ Commit(w)

(* The last transaction allowed by the bound has ended. *)
AllDone == clock = MaxTxns /\ (\A w \in Writers : pc[w] = "idle") /\ UNCHANGED vars

Next == (\E w \in Writers : Begin(w) \/ Proceed(w) \/ Rollback(w)) \/ AllDone

Spec == Init /\ [][Next]_vars

(* A statement that need not wait is executed; nothing makes one fail. *)
FairSpec == Spec /\ \A w \in Writers : WF_vars(Proceed(w))

-----------------------------------------------------------------------------
(* Properties.                                                             *)

(* As long as a key that was never written is written by one process first,  *)
(* write_bronze is the atomic compare-and-append: a payload that repeats the *)
(* previous one is never appended, and the recorded hash is that of the last *)
(* row, whatever interleaves, fails or dies.                                 *)
Log == INSTANCE BronzeLog WITH
  Bodies <- Payloads,
  rows   <- [i \in DOMAIN rows |-> rows[i].payload]

ImplementsLog == Log!Spec

(* The readers (_load_latest_payload and _LATEST_FIXTURES_SQL) take the row   *)
(* with the greatest ingested_at.                                             *)
Newest == {rows[i] : i \in {j \in DOMAIN rows :
             \A k \in DOMAIN rows : rows[k].ingested_at <= rows[j].ingested_at}}

(* As long as no two transactions on the key have overlapped, what they read *)
(* is the payload last written, the one whose repetition the writer skips:    *)
(* were it another one, the stale row would be read until the API's answer    *)
(* changes again. (Of two that overlap, the one that began first may commit   *)
(* last; its row is then the older one to the readers.)                       *)
ReadersSeeLatest == ~met => \A row \in Newest : row.payload = latest

(* A transaction that has begun ends: no two writers wait for each other.     *)
WriteEnds == \A w \in Writers : pc[w] # "idle" ~> pc[w] = "idle"
=============================================================================
