---------------------------- MODULE MCScoreboard ----------------------------
(***************************************************************************)
(* Small instances of Scoreboard for TLC.                                  *)
(***************************************************************************)
EXTENDS Scoreboard, TLC

CONSTANTS s1, s2, r1, r2

Symmetry == Permutations(Readers) \union Permutations(Solvers)

=============================================================================
