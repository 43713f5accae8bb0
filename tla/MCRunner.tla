------------------------------ MODULE MCRunner ------------------------------
(***************************************************************************)
(* Small instances of Runner for TLC. Every league may list every fixture, *)
(* so the leagues are interchangeable, and so are the fixtures and the run *)
(* ids.                                                                    *)
(***************************************************************************)
EXTENDS RunnerClaims, TLC

AnyFixture == [l \in Leagues |-> Fixtures]

Symmetry == Permutations(Leagues) \cup Permutations(Fixtures) \cup Permutations(RunIds)
=============================================================================
