-------------------------------- MODULE MCGoals --------------------------------
(* The goal channel on small instances: a client's goal is delegated to the   *)
(* planner or a mission of the wrapper, and clients of a kind are alike.      *)
EXTENDS Goals, TLC

CONSTANTS a, b, Planned

MCKind == [k \in Key |-> IF k \in Planned THEN "planned" ELSE "mission"]

MCSymmetry == Permutations(Key)
=============================================================================
