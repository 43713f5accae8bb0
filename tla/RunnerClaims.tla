---------------------------- MODULE RunnerClaims ----------------------------
(***************************************************************************)
(* Statements the repository's own documents make about a run, as          *)
(* properties of Runner. The code does not keep them: each is checked by a *)
(* run that ends in a counterexample.                                      *)
(***************************************************************************)
EXTENDS Runner

(* phase_a.py:3-4 "one failure (HTTP, DB, or validation) is recorded in the   *)
(* checkpoint table and dead_letter; other leagues keep running".             *)
OthersKeepRunning == \A t \in LeagueTasks : tpc[t] # "cancelled"

(* docs/REBUILD.md:49 "`--resume` is the right tool when you want to retry    *)
(* only the failures from a previous run", docs/ROADMAP.md:87 "resume from    *)
(* checkpoint, no double-write, no skips". A run that becomes 'succeeded'     *)
(* would have no task left that it started and did not land.                  *)
ResumeSkipsNothing ==
  [][\A r \in RunIds : runs[r] # "succeeded" /\ runs'[r] = "succeeded" =>
       \A t \in Tasks : ck[r][t] \notin {"pending", "failed"}]_vars
=============================================================================
