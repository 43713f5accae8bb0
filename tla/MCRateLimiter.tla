--------------------------- MODULE MCRateLimiter ----------------------------
(***************************************************************************)
(* Small instances of RateLimiter for TLC. The API reports more used than  *)
(* its limit allows, half of its limit, half of another plan's limit, or a *)
(* limit of zero.                                                          *)
(***************************************************************************)
EXTENDS RateLimiter, TLC

SomeReports ==
  {[limit |-> 2, remaining |-> -1], [limit |-> 2, remaining |-> 1],
   [limit |-> 4, remaining |-> 2], [limit |-> 0, remaining |-> 0]}

(* Nothing depends on the time of day: only on the ages of the entries still *)
(* in a deque, up to the window, and on the time left to sleep or to send.   *)
(* Of the history the properties need what is younger than a day. States     *)
(* that agree on this have the same futures, so one of them is explored.     *)
Age(x) == now - x

View ==
  <<pc,
    [w \in Windows |->
       [i \in 1..(Len(log[w]) - head[w]) |->
          LET a == Age(log[w][head[w] + i]) IN IF a > Span[w] THEN Span[w] ELSE a]],
    [t \in Threads |-> CASE pc[t] = "claimed" -> Age(at[t])
                          [] pc[t] = "sleeping" /\ now < at[t] -> Age(at[t])
                          [] OTHER -> 0],
    SelectSeq([i \in 1..Len(granted) |-> Age(granted[i].at)], LAMBDA a : a < Day),
    SelectSeq([i \in 1..Len(arrivals) |-> Age(arrivals[i])], LAMBDA a : a < Day)>>
=============================================================================
