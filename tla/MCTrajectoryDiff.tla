-------------------------- MODULE MCTrajectoryDiff ---------------------------
(* Instance of TrajectoryDiff for TLC; the calls are interchangeable.         *)
EXTENDS TrajectoryDiff, TLC

CallSymmetry == Permutations(Keys)
==============================================================================
