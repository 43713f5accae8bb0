----------------------------- MODULE MCPlanning -----------------------------
(* A small world for Planning: a league that is played over two seasons, of  *)
(* which only the second is covered, and a league that is not covered at     *)
(* all, or so the second catalogue says.                                     *)
EXTENDS Planning

Entry(l, y, current, covered) ==
  [league |-> l, season |-> y, current |-> current, covered |-> covered]

MCCatalogues ==
  {<<Entry(1, 1, FALSE, FALSE), Entry(1, 2, TRUE, TRUE), Entry(None, 2, TRUE, TRUE),
     Entry(2, 2, TRUE, FALSE)>>,
   <<Entry(2, None, TRUE, TRUE), Entry(2, 2, TRUE, TRUE), Entry(1, 2, FALSE, TRUE),
     Entry(1, 1, TRUE, TRUE)>>}

MCFixtures ==
  {[id |-> 1, league |-> 1, season |-> 1, start |-> 0],
   [id |-> 2, league |-> 1, season |-> 2, start |-> 1],
   [id |-> 3, league |-> 1, season |-> 2, start |-> 3],
   [id |-> 4, league |-> 2, season |-> 2, start |-> 2],
   [id |-> 5, league |-> 2, season |-> 2, start |-> None]}

Daily == [season |-> None, seasons |-> {}, leagues |-> {}, from |-> None, to |-> None,
          lookback |-> None, bypass |-> FALSE, resume |-> FALSE]

MCCommands ==
  {Daily,
   [Daily EXCEPT !.resume = TRUE],
   [Daily EXCEPT !.leagues = {1}, !.lookback = 1],
   [Daily EXCEPT !.season = 1],                                    \* refused
   [Daily EXCEPT !.season = 1, !.seasons = {2}, !.from = 0, !.to = 1],
   [Daily EXCEPT !.season = 1, !.bypass = TRUE],
   [Daily EXCEPT !.seasons = {1, 2}, !.from = 1],
   [Daily EXCEPT !.leagues = {2}, !.to = 0],
   [Daily EXCEPT !.from = 1, !.to = 0]}                            \* refused

MCConfigs ==
  {[subset |-> {}, lookback |-> 2, statuses |-> {"1H", "FT"}],
   [subset |-> {1}, lookback |-> 2, statuses |-> {"FT"}]}
=============================================================================
