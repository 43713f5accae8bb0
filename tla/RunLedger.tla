------------------------------ MODULE RunLedger ------------------------------
(***************************************************************************)
(* What the tables of a run promise whoever resumes it: the life of each   *)
(* run, and of each of its tasks, one transaction a step. A task is only   *)
(* recorded as done once its payload is stored; what is done is not begun  *)
(* again; what is dead-lettered had failed. Runner implements it.          *)
(***************************************************************************)

CONSTANTS Runs, Tasks

VARIABLES
  runs,       \* the status of each run
  ck,         \* the status of each task of each run
  stored,     \* the tasks whose payload is stored
  deadLetter  \* the failures on record

vars == <<runs, ck, stored, deadLetter>>

Init ==
  /\ runs = [r \in Runs |-> "absent"]
  /\ ck = [r \in Runs |-> [t \in Tasks |-> "absent"]]
  /\ stored = {} /\ deadLetter = {}

Open(r) ==
  /\ runs[r] = "absent" /\ \A t \in Tasks : ck[r][t] = "absent"
  /\ runs' = [runs EXCEPT ![r] = "running"]
  /\ UNCHANGED <<ck, stored, deadLetter>>

(* The verdict may come again, from a later process of the same run. *)
Settle(r, verdict) ==
  /\ runs[r] # "absent"
  /\ verdict = "partial" => \E t \in Tasks : ck[r][t] = "failed"
  /\ runs' = [runs EXCEPT ![r] = verdict]
  /\ UNCHANGED <<ck, stored, deadLetter>>

Mark(r, t, status) ==
  /\ ck' = [ck EXCEPT ![r][t] = status]
  /\ UNCHANGED <<runs, stored, deadLetter>>

Attempt(r, t) == ck[r][t] # "succeeded" /\ Mark(r, t, "pending")

Succeed(r, t) == ck[r][t] = "pending" /\ t \in stored /\ Mark(r, t, "succeeded")

(* Also from 'succeeded': its caller may not have heard that it committed. *)
Fail(r, t) == ck[r][t] \in {"pending", "succeeded"} /\ Mark(r, t, "failed")

(* On behalf of a run that is attempting the task. *)
Store(r, t) ==
  /\ ck[r][t] = "pending"
  /\ stored' = stored \cup {t}
  /\ UNCHANGED <<runs, ck, deadLetter>>

Bury(r, t) ==
  /\ ck[r][t] = "failed"
  /\ deadLetter' = deadLetter \cup {<<r, t>>}
  /\ UNCHANGED <<runs, ck, stored>>

Next ==
  \E r \in Runs :
    \/ Open(r)
    \/ \E verdict \in {"succeeded", "partial", "failed"} : Settle(r, verdict)
    \/ \E t \in Tasks :
         Attempt(r, t) \/ Succeed(r, t) \/ Fail(r, t) \/ Store(r, t) \/ Bury(r, t)

Spec == Init /\ [][Next]_vars
=============================================================================
