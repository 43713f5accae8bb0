------------------------------ MODULE BronzeLog -----------------------------
(***************************************************************************)
(* What the bronze writer promises of one (endpoint, request_params): a    *)
(* log of payloads that grows by one when the payload has changed, and the *)
(* hash of the last one, which a payload is compared with. A call is one   *)
(* atomic step. This is the write_bronze that Runner uses.                 *)
(***************************************************************************)
EXTENDS Sequences

CONSTANTS Bodies, NoRow

VARIABLES rows, latest

Init ==
  \/ rows = <<>> /\ latest = NoRow
  \/ \E p \in Bodies : rows = <<p>> /\ latest = p

Write(p) ==
  /\ latest # p
  /\ rows' = Append(rows, p)
  /\ latest' = p

Next == \E p \in Bodies : Write(p)

Spec == Init /\ [][Next]_<<rows, latest>>
=============================================================================
