---------------------------- MODULE MCCatalogue -----------------------------
(***************************************************************************)
(* The instance of Catalogue that TLC checks: three challenges, so that a  *)
(* cycle need not be direct, and two teams.                                *)
(***************************************************************************)
EXTENDS Catalogue, TLC

CONSTANTS c1, c2, c3, t1, t2

\* The third one is what an update of initial_points alone may ask for.
MCScorings ==
  {[type |-> "fixed", initial |-> 2, minimum |-> 2, decay |-> 20],
   [type |-> "dynamic", initial |-> 4, minimum |-> 1, decay |-> 1],
   [type |-> "dynamic", initial |-> 1, minimum |-> 2, decay |-> 1]}

CatalogueSymmetry == Permutations(Challenges) \union Permutations(Teams)

(***************************************************************************)
(* One challenge is hidden, or one is tried and unsolved, but not both;    *)
(* points and long chains of prerequisites do not meet, since nothing in   *)
(* the code relates them; three solves are more than the decay.            *)
(***************************************************************************)
Rows == {challenges[c] : c \in existing} \union (IF edit = NoEdit THEN {} ELSE {edit.row})

FewAtOnce ==
  /\ Cardinality({c \in existing : ~ challenges[c].visible})
       + Cardinality(tried \ {s.challenge : s \in solves}) <= 1
  /\ Cardinality(solves) <= 3
  /\ \/ \A r \in Rows : r.scoring.type = "fixed"
     \/ \A r \in Rows : r.prerequisites = {}
     \/ Cardinality(existing) <= 2

=============================================================================
