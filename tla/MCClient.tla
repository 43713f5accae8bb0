------------------------------ MODULE MCClient ------------------------------
(***************************************************************************)
(* A small instance of Client for TLC: an answer of each kind, and headers *)
(* that report more used than the limit, or half of another plan's.        *)
(*                                                                         *)
(* The clock is bounded twice. Threads that could go on (a request under   *)
(* way, a slot not yet sent with, a sleep that is over) are held up for at *)
(* most MaxLag ticks in all, spent on any of them at any time. And no more *)
(* than Horizon ticks pass: a call that is not over by then never ends,    *)
(* which CallEnds would find.                                              *)
(***************************************************************************)
EXTENDS Client

CONSTANTS MaxLag, Horizon

VARIABLE lag   \* the ticks that passed while some thread could go on

mcVars == <<allVars, lag>>

OfStatus(s, h) == [status |-> s, body |-> {}, hint |-> h]
WithBody(b)    == [status |-> 200, body |-> b, hint |-> NoHint]

SomeResponses ==
  {WithBody({}), WithBody({"other"}), WithBody({LimitNotice, "other"}), WithBody(NotADict),
   OfStatus(429, 1), OfStatus(503, 9), OfStatus(503, -1), OfStatus(404, NoHint),
   OfStatus(301, NoHint)}

OverAndHalf == {[limit |-> 2, remaining |-> -1], [limit |-> 4, remaining |-> 2]}

-----------------------------------------------------------------------------
UnderWay(t) == call[t] \in {"attempt", "backoff"}

Resting(t) ==
  \/ ~UnderWay(t)
  \/ pc[t] = "sleeping" /\ now < at[t]
  \/ call[t] = "backoff" /\ now < until[t]

MCInit == ClientInit /\ lag = 0

MCStep(t) == ClientStep(t) /\ UNCHANGED lag

MCTick ==
  /\ \E t \in Threads : UnderWay(t)
  /\ now < Horizon
  /\ ClientTick
  /\ \/ (\A t \in Threads : Resting(t)) /\ UNCHANGED lag
     \/ (\E t \in Threads : ~Resting(t)) /\ lag < MaxLag /\ lag' = lag + 1

(* The calls there are to make have been made, unless time is up. *)
AllDone ==
  /\ now < Horizon => gets = MaxGets /\ \A t \in Threads : ~UnderWay(t)
  /\ UNCHANGED mcVars

MCNext == (\E t \in Threads : MCStep(t)) \/ MCTick \/ AllDone

(* Threads are scheduled, time goes on, and a request is answered or times   *)
(* out: httpx is given a timeout.                                            *)
FairMCSpec ==
  /\ MCInit /\ [][MCNext]_mcVars
  /\ WF_mcVars(MCTick) /\ \A t \in Threads : WF_mcVars(MCStep(t))
=============================================================================
