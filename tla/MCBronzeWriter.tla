--------------------------- MODULE MCBronzeWriter ---------------------------
(***************************************************************************)
(* BronzeWriter for TLC, with what the documents say of the bronze log     *)
(* that overlapping processes do not keep.                                 *)
(***************************************************************************)
EXTENDS BronzeWriter

(* README.md:139 "Idempotency at every layer - hash dedup at the row level":  *)
(* a payload that repeats the row before it is not inserted again. Two        *)
(* processes that meet on a key for its first write both insert it.           *)
NoDuplicates ==
  \A i \in 2..Len(rows) : rows[i].payload # rows[i - 1].payload
=============================================================================
